------------------------ MODULE ConcurrentQueueProofs ------------------------
(* Theorems of ConcurrentQueue for every capacity and every set of packets. *)
EXTENDS ConcurrentQueue, SequenceTheorems, TLAPS

(* The writer only adds and the reader never does; once add() is called its *)
(* argument is a packet.                                                    *)
Roles == /\ op["writer"] = "add"
         /\ op["reader"] \in {"take", "front", "pop"}
         /\ pc["writer"] # "idle" => obj \in Packets

(* front() gave its permission back and still relies on the packet being there; *)
(* a take that poll() decided on is going to find the packet it saw.            *)
ReaderRelies ==
    /\ (op["reader"] = "front" /\ pc["reader"] \in {"notify", "access"}) => avail["read"] > 0
    /\ op["reader"] = "take" =>
           /\ pc["reader"] # "asleep"
           /\ pc["reader"] = "acquire" => avail["read"] > 0

IInv == TypeOK /\ Accounting /\ Roles /\ ReaderRelies /\ NoLostWakeup

(* end++; end %= size goes to the next slot, and round to slot 0 after the last. *)
LEMMA FollowingWraps ==
  ASSUME NEW i \in Slots
  PROVE  Following(i) = Wrapped(i + 1) /\ Following(i) \in Slots
<1>1. CASE i + 1 = Size
  BY <1>1, SizeAssumption DEF Slots, Following, Wrapped
<1>2. CASE i + 1 # Size
  BY <1>2, SizeAssumption DEF Slots, Following, Wrapped
<1> QED BY <1>1, <1>2

LEMMA InitIInv == Init => IInv
BY SizeAssumption
   DEF Init, IInv, TypeOK, Accounting, Roles, ReaderRelies, NoLostWakeup, Slots,
       Threads, Locations, Count, Free, Holds, Wrapped, AfterAcquire

LEMMA AddStep ==
  ASSUME IInv, NEW x \in Packets, Add(x) PROVE IInv'
BY DEF Add, IInv, TypeOK, Accounting, Roles, ReaderRelies, NoLostWakeup, Wakes, Slots,
       Threads, Locations, Count, Free, Holds, Wrapped, AfterAcquire, Acquires, Releases

LEMMA CallStep ==
  ASSUME IInv, Poll \/ \E c \in ReaderOps \ {"take"} : Call(c) PROVE IInv'
<1> USE DEF IInv, TypeOK, Slots, Threads, Locations
<1>1. PICK c \in {"take", "front", "pop"} :
           /\ pc["reader"] = "idle"
           /\ pc' = [pc EXCEPT !["reader"] = "acquire"]
           /\ op' = [op EXCEPT !["reader"] = c]
           /\ c = "take" => avail["read"] > 0
           /\ UNCHANGED <<arr, start, end, avail, obj, result>>
  BY ReaderOpsAssumption DEF Poll, Call
<1>2. Count' = Count /\ Free' = Free
  BY <1>1 DEF Count, Free, Holds, AfterAcquire
<1>3. TypeOK' /\ Accounting' /\ Roles' /\ ReaderRelies'
  BY <1>1, <1>2 DEF Accounting, Wrapped, Roles, ReaderRelies
<1>4. NoLostWakeup'
  BY <1>1 DEF NoLostWakeup, Wakes, Acquires, Releases, Roles
<1> QED BY <1>3, <1>4

LEMMA AcquireStep ==
  ASSUME IInv, NEW t \in Threads, Acquire(t) PROVE IInv'
<1> USE DEF IInv, TypeOK, Slots, Threads, Locations
<1>1. CASE t = "writer"
  <2>1. /\ pc["writer"] = "acquire"
        /\ avail["write"] > 0
        /\ avail' = [avail EXCEPT !["write"] = @ - 1]
        /\ pc' = [pc EXCEPT !["writer"] = "access"]
        /\ UNCHANGED <<arr, start, end, op, obj, result>>
    BY <1>1 DEF Acquire, Acquires, AfterAcquire, Roles
  <2>2. Count' = Count /\ Free' = Free
    BY <2>1 DEF Count, Free, Holds, AfterAcquire
  <2>3. TypeOK' /\ Accounting' /\ Roles' /\ ReaderRelies'
    BY <2>1, <2>2, SizeAssumption DEF Accounting, Wrapped, Roles, ReaderRelies
  <2>4. NoLostWakeup'
    BY <2>1 DEF NoLostWakeup, Wakes, Acquires, Releases, Roles
  <2> QED BY <2>3, <2>4
<1>2. CASE t = "reader"
  <2>1. /\ pc["reader"] = "acquire"
        /\ avail["read"] > 0
        /\ avail' = [avail EXCEPT !["read"] = @ - 1]
        /\ pc' = [pc EXCEPT !["reader"] = AfterAcquire(op["reader"])]
        /\ UNCHANGED <<arr, start, end, op, obj, result>>
    BY <1>2 DEF Acquire, Acquires, Roles
  <2>2. Count' = Count /\ Free' = Free
    BY <2>1 DEF Count, Free, Holds, AfterAcquire
  <2>3. TypeOK' /\ Accounting' /\ Roles' /\ ReaderRelies'
    BY <2>1, <2>2, SizeAssumption DEF Accounting, Wrapped, Roles, ReaderRelies, AfterAcquire
  <2>4. NoLostWakeup'
    BY <2>1 DEF NoLostWakeup, Wakes, Acquires, Releases, Roles, AfterAcquire
  <2> QED BY <2>3, <2>4
<1> QED BY <1>1, <1>2

LEMMA SleepStep ==
  ASSUME IInv, NEW t \in Threads, Sleep(t) \/ SpuriousWakeup(t) PROVE IInv'
<1> USE DEF IInv, TypeOK, Slots, Threads, Locations
<1>1. /\ UNCHANGED <<arr, start, end, avail, op, obj, result>>
      /\ \/ /\ pc[t] = "acquire" /\ pc' = [pc EXCEPT ![t] = "asleep"]
            /\ avail[Acquires(op[t])] = 0
         \/ pc[t] = "asleep" /\ pc' = [pc EXCEPT ![t] = "acquire"]
  BY DEF Sleep, SpuriousWakeup
<1>2. Count' = Count /\ Free' = Free
  BY <1>1 DEF Count, Free, Holds, AfterAcquire
<1>3. TypeOK' /\ Accounting' /\ Roles' /\ ReaderRelies'
  BY <1>1, <1>2 DEF Accounting, Wrapped, Roles, ReaderRelies, AfterAcquire, Acquires
<1>4. NoLostWakeup'
  BY <1>1 DEF NoLostWakeup, Wakes, Acquires, Releases, Roles
<1> QED BY <1>3, <1>4

LEMMA StoreStep ==
  ASSUME IInv, Store PROVE IInv'
<1> USE DEF IInv, TypeOK, Slots, Threads, Locations
<1>1. /\ pc["writer"] = "access"
      /\ pc' = [pc EXCEPT !["writer"] = "release"]
      /\ end' = Wrapped(end + 1) /\ end' \in Slots
      /\ arr' = [arr EXCEPT ![end] = obj]
      /\ UNCHANGED <<start, avail, op, obj, result>>
  BY FollowingWraps DEF Store, AfterAccess
<1>2. Count' = Count + 1 /\ Free' = Free - 1 /\ Count \in Nat /\ Free \in Nat
  <2>1. Count \in Nat /\ Free \in Nat
    BY DEF Count, Free, Holds, AfterAcquire
  <2>2. Count' = Count + 1
    BY <1>1 DEF Count, Holds, AfterAcquire
  <2>3. Free' = Free - 1
    BY <1>1 DEF Free, Holds
  <2> QED
    BY <2>1, <2>2, <2>3
<1>3. Count < Size
  BY <1>1, <1>2 DEF Accounting, Free, Holds
<1>4. Accounting'
  BY <1>1, <1>2, <1>3, SizeAssumption DEF Accounting, Wrapped
<1>5. TypeOK' /\ Roles' /\ ReaderRelies'
  BY <1>1 DEF Roles, ReaderRelies
<1>6. NoLostWakeup'
  BY <1>1 DEF NoLostWakeup, Wakes, Acquires, Releases, Roles
<1> QED BY <1>4, <1>5, <1>6

LEMMA LoadStep ==
  ASSUME IInv, Load PROVE IInv'
<1> USE DEF IInv, TypeOK, Slots, Threads, Locations
<1>1. CASE op["reader"] = "front"
  <2>1. /\ pc["reader"] = "access"
        /\ pc' = [pc EXCEPT !["reader"] = "idle"]
        /\ result' = arr[start]
        /\ UNCHANGED <<arr, start, end, avail, op, obj>>
    BY <1>1 DEF Load, AfterAccess
  <2>2. Count' = Count /\ Free' = Free
    BY <1>1, <2>1 DEF Count, Free, Holds, AfterAcquire
  <2>3. TypeOK' /\ Accounting' /\ Roles' /\ ReaderRelies'
    BY <2>1, <2>2 DEF Accounting, Wrapped, Roles, ReaderRelies
  <2>4. NoLostWakeup'
    BY <2>1 DEF NoLostWakeup, Wakes, Acquires, Releases, Roles
  <2> QED BY <2>3, <2>4
<1>2. CASE op["reader"] # "front"
  <2>1. /\ pc["reader"] = "access"
        /\ pc' = [pc EXCEPT !["reader"] = "release"]
        /\ start' = Wrapped(start + 1) /\ start' \in Slots
        /\ result' \in {result, arr[start]}
        /\ UNCHANGED <<arr, end, avail, op, obj>>
    BY <1>2, FollowingWraps DEF Load, AfterAccess
  <2>2. Count' = Count - 1 /\ Free' = Free + 1 /\ Count \in Nat /\ Free \in Nat
    <3>1. Count \in Nat /\ Free \in Nat
      BY DEF Count, Free, Holds, AfterAcquire
    <3>2. Count' = Count - 1
      BY <1>2, <2>1 DEF Count, Holds, AfterAcquire
    <3>3. Free' = Free + 1
      BY <1>2, <2>1 DEF Free, Holds
    <3> QED
      BY <3>1, <3>2, <3>3
  <2>3. Count > 0
    BY <1>2, <2>1 DEF Count, Holds, AfterAcquire
  <2>4. Accounting'
    BY <2>1, <2>2, <2>3, SizeAssumption DEF Accounting, Wrapped
  <2>5. TypeOK' /\ Roles' /\ ReaderRelies'
    BY <1>2, <2>1 DEF Roles, ReaderRelies
  <2>6. NoLostWakeup'
    BY <2>1 DEF NoLostWakeup, Wakes, Acquires, Releases, Roles
  <2> QED BY <2>4, <2>5, <2>6
<1> QED BY <1>1, <1>2

LEMMA ReleaseStep ==
  ASSUME IInv, NEW t \in Threads, Release(t) PROVE IInv'
<1> USE DEF IInv, TypeOK, Slots, Threads, Locations
<1>1. CASE t = "writer"
  <2>1. /\ avail' = [avail EXCEPT !["read"] = @ + 1]
        /\ pc["writer"] = "release"
        /\ pc' = [pc EXCEPT !["writer"] = "notify"]
        /\ UNCHANGED <<arr, start, end, op, obj, result>>
    BY <1>1 DEF Release, Releases, Roles
  <2>2. Count' = Count /\ Free' = Free /\ avail["read"] + 1 =< Size
    BY <2>1, SizeAssumption DEF Accounting, Count, Free, Holds, AfterAcquire
  <2>3. TypeOK' /\ Accounting' /\ Roles' /\ ReaderRelies'
    BY <2>1, <2>2, SizeAssumption DEF Accounting, Wrapped, Roles, ReaderRelies
  <2>4. NoLostWakeup'
    BY <2>1 DEF NoLostWakeup, Wakes, Acquires, Releases, Roles
  <2> QED BY <2>3, <2>4
<1>2. CASE t = "reader"
  <2>1. /\ avail' = [avail EXCEPT ![Releases(op["reader"])] = @ + 1]
        /\ pc["reader"] = "release"
        /\ pc' = [pc EXCEPT !["reader"] = "notify"]
        /\ UNCHANGED <<arr, start, end, op, obj, result>>
    BY <1>2 DEF Release
  <2>2. Count' = Count /\ Free' = Free /\ avail[Releases(op["reader"])] + 1 =< Size
    BY <2>1, SizeAssumption DEF Accounting, Count, Free, Holds, AfterAcquire, Releases, Roles
  <2>3. TypeOK' /\ Accounting' /\ Roles' /\ ReaderRelies'
    BY <2>1, <2>2, SizeAssumption DEF Accounting, Wrapped, Roles, ReaderRelies, Releases
  <2>4. NoLostWakeup'
    BY <2>1 DEF NoLostWakeup, Wakes, Acquires, Releases, Roles
  <2> QED BY <2>3, <2>4
<1> QED BY <1>1, <1>2

LEMMA NotifyStep ==
  ASSUME IInv, NEW t \in Threads, Notify(t) PROVE IInv'
BY SizeAssumption
   DEF Notify, IInv, TypeOK, Accounting, Roles, ReaderRelies, NoLostWakeup, Wakes, Slots,
       Threads, Locations, Count, Free, Holds, Wrapped, AfterAcquire, AfterNotify,
       Acquires, Releases

LEMMA NextIInv == IInv /\ [Next]_vars => IInv'
<1> SUFFICES ASSUME IInv, [Next]_vars PROVE IInv'
  OBVIOUS
<1>1. ASSUME NEW x \in Packets, Add(x) PROVE IInv'
  BY <1>1, AddStep
<1>2. CASE Poll \/ \E c \in ReaderOps \ {"take"} : Call(c)
  BY <1>2, CallStep
<1>3. ASSUME NEW t \in Threads, Acquire(t) PROVE IInv'
  BY <1>3, AcquireStep
<1>4. ASSUME NEW t \in Threads, Sleep(t) \/ SpuriousWakeup(t) PROVE IInv'
  BY <1>4, SleepStep
<1>5. ASSUME NEW t \in Threads, Access(t) PROVE IInv'
  BY <1>5, StoreStep, LoadStep DEF Access
<1>6. ASSUME NEW t \in Threads, Release(t) PROVE IInv'
  BY <1>6, ReleaseStep
<1>7. ASSUME NEW t \in Threads, Notify(t) PROVE IInv'
  BY <1>7, NotifyStep
<1>8. CASE UNCHANGED vars
  BY <1>8 DEF vars, IInv, TypeOK, Accounting, Count, Free, Holds, Roles, ReaderRelies,
              NoLostWakeup, Wakes
<1> QED BY <1>1, <1>2, <1>3, <1>4, <1>5, <1>6, <1>7, <1>8 DEF Next, Step

LEMMA Invariance == Spec => []IInv
BY InitIInv, NextIInv, PTL DEF Spec

(* The indices stay among the slots and no counter leaves 0 .. Size: the      *)
(* unsigned avail of semaphore.hpp never wraps below zero.                    *)
THEOREM TypeCorrect == Spec => []TypeOK
<1>1. IInv => TypeOK
  BY DEF IInv
<1> QED BY <1>1, Invariance, PTL

(* Permissions and indices of the queue agree in every reachable state.       *)
THEOREM AccountingHolds == Spec => []Accounting
<1>1. IInv => Accounting
  BY DEF IInv
<1> QED BY <1>1, Invariance, PTL

(* The two threads never touch the same slot at once, whatever the capacity:  *)
(* the writer owns a free slot, so fewer than Size slots are filled, and the  *)
(* reader's slot is a filled one.                                             *)
THEOREM RaceFree == Spec => []NoDataRace
<1>1. IInv => NoDataRace
  <2> SUFFICES ASSUME IInv, pc["writer"] = "access", pc["reader"] = "access"
               PROVE  end # start
    BY DEF NoDataRace
  <2>1. /\ start \in Slots
        /\ avail["read"] \in 0 .. Size /\ avail["write"] \in 0 .. Size
        /\ op["reader"] \in {"take", "front", "pop"}
    BY DEF IInv, TypeOK, Roles
  <2>2. 1 =< Count /\ Count =< Size - 1 /\ Count \in Int
    BY <2>1, SizeAssumption
       DEF IInv, Accounting, Count, Free, Holds, AfterAcquire, ReaderRelies
  <2>3. end = Wrapped(start + Count)
    BY DEF IInv, Accounting
  <2> QED BY <2>1, <2>2, <2>3, SizeAssumption DEF Wrapped, Slots
<1> QED BY <1>1, Invariance, PTL

(* A waiter for which a permission is there is always about to be notified.   *)
THEOREM WakeupsReachWaiters == Spec => []NoLostWakeup
<1>1. IInv => NoLostWakeup
  BY DEF IInv
<1> QED BY <1>1, Invariance, PTL

(* No deadlock: the permissions that a full and an empty queue lack would add *)
(* up to none at all, and a permission that is there is on its way to its     *)
(* sleeper.                                                                   *)
THEOREM NoDeadlock == Spec => []NeverBothAsleep
<1>1. IInv => NeverBothAsleep
  <2> SUFFICES ASSUME IInv, \A t \in Threads : pc[t] = "asleep" PROVE FALSE
    BY DEF NeverBothAsleep
  <2>1. avail["write"] + avail["read"] = Size
    BY DEF IInv, TypeOK, Accounting, Count, Free, Holds, Threads, AfterAcquire
  <2>2. \E t \in Threads : avail[Acquires(op[t])] > 0
    BY <2>1, SizeAssumption DEF IInv, TypeOK, Roles, Threads, Acquires
  <2> QED BY <2>2 DEF IInv, NoLostWakeup
<1> QED BY <1>1, Invariance, PTL

(* poll() never blocks the thread that runs the game in Queue::take().        *)
THEOREM PollDoesNotBlock == Spec => []PollNeverBlocks
<1>1. IInv => PollNeverBlocks
  BY DEF IInv, ReaderRelies, PollNeverBlocks
<1> QED BY <1>1, Invariance, PTL

-----------------------------------------------------------------------------
(* The ring implements the bounded first-in first-out queue.                  *)

LEMMA ContentsIsSequence ==
  ASSUME IInv
  PROVE  /\ Count \in 0 .. Size
         /\ Contents \in Seq(Packets \cup {NoPacket})
         /\ Len(Contents) = Count
         /\ \A i \in 1 .. Count : Contents[i] = arr[Wrapped(start + i - 1)]
<1>1. Count \in 0 .. Size
  BY SizeAssumption DEF IInv, TypeOK, Accounting, Count, Free, Holds, Threads, Locations
<1>2. \A i \in 1 .. Count : Wrapped(start + i - 1) \in Slots
  BY <1>1, SizeAssumption DEF IInv, TypeOK, Wrapped, Slots
<1>3. Contents \in [1 .. Count -> Packets \cup {NoPacket}]
  BY <1>1, <1>2 DEF Contents, IInv, TypeOK
<1> QED BY <1>1, <1>3 DEF Contents

(* Every action but Store and Load leaves the contents and the result alone. *)
LEMMA QuietSteps ==
  ASSUME IInv,
         \/ \E x \in Packets : Add(x)
         \/ Poll
         \/ \E c \in ReaderOps \ {"take"} : Call(c)
         \/ \E t \in Threads :
              Acquire(t) \/ Sleep(t) \/ SpuriousWakeup(t) \/ Release(t) \/ Notify(t)
         \/ UNCHANGED vars
  PROVE  Contents' = Contents /\ result' = result
<1> USE DEF IInv, TypeOK, Threads, Locations
<1>1. UNCHANGED <<arr, start, result>>
  BY DEF Add, Poll, Call, Acquire, Sleep, SpuriousWakeup, Release, Notify, vars
<1>2. Count' = Count
  <2>1. CASE \E x \in Packets : Add(x)
    BY <2>1 DEF Add, Count, Holds, AfterAcquire
  <2>2. CASE Poll \/ \E c \in ReaderOps \ {"take"} : Call(c)
    BY <2>2, ReaderOpsAssumption DEF Poll, Call, Count, Holds, AfterAcquire
  <2>3. CASE \E t \in Threads : Acquire(t)
    BY <2>3 DEF Acquire, Acquires, Count, Holds, AfterAcquire, Roles
  <2>4. CASE \E t \in Threads : Sleep(t) \/ SpuriousWakeup(t)
    BY <2>4 DEF Sleep, SpuriousWakeup, Count, Holds, AfterAcquire
  <2>5. CASE \E t \in Threads : Release(t)
    BY <2>5 DEF Release, Releases, Count, Holds, AfterAcquire, Roles
  <2>6. CASE \E t \in Threads : Notify(t)
    <3>1. PICK t \in Threads : Notify(t)
      BY <2>6
    <3>2. /\ UNCHANGED <<avail, op>>
          /\ op["writer"] = "add" /\ op["reader"] \in {"take", "front", "pop"}
      BY <3>1 DEF Notify, Roles
    <3>3. \A u \in Threads : pc'[u] \in {pc[u], "acquire"}
             \/ (pc[u] = "notify" /\ pc'[u] = AfterNotify(op[u]))
      BY <3>1 DEF Notify
    <3>4. \A u \in Threads : pc'[u] # pc[u] => pc[u] \in {"notify", "asleep"}
      BY <3>1 DEF Notify, Wakes
    <3>5. Holds("writer", "release")' = Holds("writer", "release")
      BY <3>2, <3>3, <3>4 DEF Holds, AfterNotify
    <3>6. Holds("reader", AfterAcquire(op["reader"]))' = Holds("reader", AfterAcquire(op["reader"]))
      BY <3>2, <3>3, <3>4 DEF Holds, AfterNotify, AfterAcquire
    <3> QED BY <3>2, <3>5, <3>6 DEF Count
  <2>7. CASE UNCHANGED vars
    BY <2>7 DEF vars, Count, Holds
  <2> QED BY <2>1, <2>2, <2>3, <2>4, <2>5, <2>6, <2>7
<1> QED BY <1>1, <1>2 DEF Contents

LEMMA StoreAppends ==
  ASSUME IInv, Store
  PROVE  Fifo!Put(obj) /\ obj \in Packets
<1> DEFINE S == Packets \cup {NoPacket}
<1> USE DEF IInv, TypeOK, Slots, Threads, Locations
<1>1. /\ pc["writer"] = "access" /\ pc' = [pc EXCEPT !["writer"] = "release"]
      /\ arr' = [arr EXCEPT ![end] = obj]
      /\ UNCHANGED <<start, avail, op, obj, result>>
  BY DEF Store, AfterAccess
<1>2. obj \in Packets
  BY <1>1 DEF Roles
<1>3. Count' = Count + 1 /\ Count \in 0 .. Size - 1 /\ end = Wrapped(start + Count)
  BY <1>1, SizeAssumption DEF Count, Free, Holds, AfterAcquire, Accounting
<1>4. /\ Contents \in Seq(S) /\ Len(Contents) = Count
      /\ \A i \in 1 .. Count : Contents[i] = arr[Wrapped(start + i - 1)]
  BY ContentsIsSequence
<1>5. \A i \in 1 .. Count : /\ Wrapped(start + i - 1) \in Slots
                            /\ Wrapped(start + i - 1) # end
  BY <1>3, SizeAssumption DEF Wrapped
<1>6. \A i \in 1 .. Count + 1 : arr'[Wrapped(start + i - 1)]
                                  = IF i = Count + 1 THEN obj ELSE Contents[i]
  <2>1. start + (Count + 1) - 1 = start + Count
    BY <1>3
  <2>2. arr'[Wrapped(start + (Count + 1) - 1)] = obj
    BY <1>1, <1>3, <2>1
  <2>3. \A i \in 1 .. Count : arr'[Wrapped(start + i - 1)] = Contents[i]
    BY <1>1, <1>4, <1>5
  <2>4. \A i \in 1 .. Count + 1 : i = Count + 1 \/ (i # Count + 1 /\ i \in 1 .. Count)
    BY <1>3
  <2> QED BY ONLY <2>2, <2>3, <2>4
<1>7. Contents' = [i \in 1 .. Count + 1 |-> arr'[Wrapped(start + i - 1)]]
  <2>1. start' = start /\ Count' = Count + 1
    BY <1>1, <1>3
  <2> QED BY ONLY <2>1 DEF Contents, Wrapped
<1>8. Append(Contents, obj) = Contents'
  <2>1. /\ Append(Contents, obj) \in Seq(S)
        /\ Len(Append(Contents, obj)) = Count + 1
        /\ \A i \in 1 .. Count : Append(Contents, obj)[i] = Contents[i]
        /\ Append(Contents, obj)[Count + 1] = obj
    BY <1>2, <1>4, AppendProperties
  <2>2. \A i \in 1 .. Count + 1 : Contents'[i] = IF i = Count + 1 THEN obj ELSE Contents[i]
    BY <1>6, <1>7
  <2>3. \A i \in 1 .. Count : Contents[i] \in S
    BY <1>4, ElementOfSeq
  <2>4. ASSUME NEW i \in 1 .. Count + 1
        PROVE  arr'[Wrapped(start + i - 1)] \in S
    <3>1. CASE i = Count + 1
      BY ONLY <1>2, <1>6, <3>1, i \in 1 .. Count + 1
    <3>2. CASE i # Count + 1
      <4>1. i \in 1 .. Count
        BY ONLY <1>3, <3>2, i \in 1 .. Count + 1, SizeAssumption
      <4> QED BY ONLY <1>6, <2>3, <3>2, <4>1, i \in 1 .. Count + 1
    <3> QED BY ONLY <3>1, <3>2
  <2>5. Contents' \in Seq(S) /\ Len(Contents') = Count + 1
    <3>1. Count + 1 \in Nat
      BY <1>3
    <3>2. Contents' \in [1 .. Count + 1 -> S]
      BY <1>7, <2>4
    <3> QED BY ONLY <3>1, <3>2
  <2>6. \A i \in 1 .. Count + 1 : Append(Contents, obj)[i] = Contents'[i]
    BY <1>3, <2>1, <2>2
  <2> QED BY <2>1, <2>5, <2>6, SeqEqual
<1>9. Len(Contents) < Size
  BY <1>3, <1>4, SizeAssumption
<1> QED BY <1>1, <1>2, <1>8, <1>9 DEF Fifo!Put

LEMMA LoadReads ==
  ASSUME IInv, Load
  PROVE  Fifo!Take \/ Fifo!Pop \/ Fifo!Front
<1> DEFINE S == Packets \cup {NoPacket}
<1> USE DEF IInv, TypeOK, Slots, Threads, Locations
<1>1. /\ pc["reader"] = "access"
      /\ pc' = [pc EXCEPT !["reader"] = AfterAccess(op["reader"])]
      /\ UNCHANGED <<arr, end, avail, op, obj>>
      /\ op["reader"] \in {"take", "pop", "front"}
  BY DEF Load, Roles
<1>2. /\ Count \in 1 .. Size
      /\ Contents \in Seq(S) /\ Len(Contents) = Count
      /\ \A i \in 1 .. Count : Contents[i] = arr[Wrapped(start + i - 1)]
  <2>1. Count > 0
    BY <1>1 DEF Count, Holds, AfterAcquire, ReaderRelies
  <2> QED BY <2>1, ContentsIsSequence
<1>3. Contents # <<>> /\ Head(Contents) = arr[start]
  <2>1. Contents[1] = arr[start]
    BY <1>2, SizeAssumption DEF Wrapped
  <2> QED BY <1>2, <2>1
<1>4. CASE op["reader"] = "front"
  <2>1. result' = arr[start] /\ start' = start /\ Count' = Count
    BY <1>1, <1>4 DEF Load, AfterAccess, Count, Holds, AfterAcquire
  <2>2. Contents' = Contents
    BY <1>1, <2>1 DEF Contents
  <2> QED BY <1>3, <2>1, <2>2 DEF Fifo!Front
<1>5. CASE op["reader"] # "front"
  <2>1. start' = Wrapped(start + 1) /\ start' \in Slots
    BY <1>5, FollowingWraps DEF Load
  <2>2. Count' = Count - 1
    BY <1>1, <1>5 DEF AfterAccess, Count, Holds, AfterAcquire
  <2>3. Contents' = [i \in 1 .. Count - 1 |-> arr[Wrapped(start' + i - 1)]]
    BY <1>1, <2>2 DEF Contents, Wrapped
  <2>4. \A i \in 1 .. Count - 1 : Wrapped(start' + i - 1) = Wrapped(start + (i + 1) - 1)
    BY <1>2, <2>1, SizeAssumption DEF Wrapped
  <2>5. \A i \in 1 .. Count - 1 : Contents'[i] = Contents[i + 1]
    BY <1>2, <2>3, <2>4
  <2>6. /\ Tail(Contents) \in Seq(S) /\ Len(Tail(Contents)) = Count - 1
        /\ \A i \in 1 .. Count - 1 : Tail(Contents)[i] = Contents[i + 1]
    BY <1>2, <1>3, HeadTailProperties
  <2>7. Contents' \in Seq(S) /\ Len(Contents') = Count - 1
    <3>1. IInv'
      BY LoadStep
    <3> QED BY <1>2, <2>3, <2>6, <2>5, <3>1
  <2>8. Contents' = Tail(Contents)
    BY <2>5, <2>6, <2>7, SeqEqual
  <2>9. CASE op["reader"] = "take"
    BY <1>3, <2>8, <2>9 DEF Load, Fifo!Take
  <2>10. CASE op["reader"] = "pop"
    BY <1>3, <2>8, <2>10 DEF Load, Fifo!Pop
  <2> QED BY <1>1, <1>5, <2>9, <2>10
<1> QED BY <1>4, <1>5

(* Queue is a bounded FIFO for every capacity: a packet is stored by the step  *)
(* arr[end++] = obj and handed out by retval = arr[start++]; all the steps on  *)
(* the semaphores, the sleeps and the wakeups change nothing a caller can see. *)
THEOREM QueueImplementsFifo == Spec => ImplementsFifo
<1>1. Init => Fifo!Init
  <2> SUFFICES ASSUME Init PROVE Fifo!Init
    OBVIOUS
  <2>1. Count = 0
    BY DEF Init, Count, Holds, AfterAcquire, Threads
  <2>2. Contents = <<>>
    BY <2>1 DEF Contents
  <2> QED BY <2>2, PacketsAssumption DEF Init, Fifo!Init
<1>2. IInv /\ [Next]_vars => [Fifo!Next]_(Fifo!vars)
  <2> SUFFICES ASSUME IInv, [Next]_vars PROVE [Fifo!Next]_(Fifo!vars)
    OBVIOUS
  <2>1. CASE Store
    BY <2>1, StoreAppends DEF Fifo!Next
  <2>2. CASE Load
    BY <2>2, LoadReads DEF Fifo!Next
  <2>3. CASE ~Store /\ ~Load
    BY <2>3, QuietSteps DEF Next, Step, Access, Fifo!vars
  <2> QED BY <2>1, <2>2, <2>3
<1> QED BY <1>1, <1>2, Invariance, PTL DEF Spec, ImplementsFifo, Fifo!Spec
=============================================================================
