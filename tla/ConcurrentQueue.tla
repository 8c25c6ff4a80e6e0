--------------------------- MODULE ConcurrentQueue ---------------------------
(***************************************************************************)
(* The queue between the receive thread and the thread that polls packets  *)
(* (include/queue.hpp, over the semaphores of include/semaphore.hpp), used *)
(* as PacketManager::receive() and PacketManager::poll() use it.           *)
(*                                                                         *)
(* One thread writes and one reads, as the class comment asks and as the   *)
(* client is built, so writemtx and readmtx are never contended and are    *)
(* not represented.  A semaphore is its counter avail[s] and the condition *)
(* variable its waiter sleeps on (pc[t] = "asleep").  The body of          *)
(* acquire() and the m.lock() .. m.unlock() part of release() are critical *)
(* sections, one step each; notify_one() comes after the unlock and is a   *)
(* step of its own, so the waiter can run in between.                      *)
(***************************************************************************)
EXTENDS Integers, Sequences

CONSTANTS Size,        \* the capacity of the queue (QUEUE_SIZE in the program)
          Packets,     \* what the socket can deliver
          NoPacket,    \* a default-constructed element
          ReaderOps    \* what the reading thread calls: poll() calls only "take"

ASSUME SizeAssumption == Size \in Nat \ {0}
ASSUME PacketsAssumption == NoPacket \notin Packets
ASSUME ReaderOpsAssumption == ReaderOps \subseteq {"take", "front", "pop"}

VARIABLES arr, start, end,  \* the ring
          avail,            \* Semaphore::avail of the semaphores write and read
          pc,               \* where each thread is in the call it makes
          op,               \* the call each thread makes
          obj,              \* the argument of add()
          result            \* what front() or take() last returned

vars == <<arr, start, end, avail, pc, op, obj, result>>

Threads == {"writer", "reader"}
Slots == 0 .. Size - 1
Locations == {"idle", "acquire", "asleep", "access", "release", "notify"}

Init == /\ arr = [i \in Slots |-> NoPacket]
        /\ start = 0
        /\ end = 0
        /\ avail = [write |-> Size, read |-> 0]
        /\ pc = [t \in Threads |-> "idle"]
        /\ op = [writer |-> "add", reader |-> "take"]
        /\ obj = NoPacket
        /\ result = NoPacket

(* Mutants of Releases: every call gives its permission back to one semaphore. *)
ReleasesRead(c) == "read"
ReleasesWrite(c) == "write"

(* The semaphore a call acquires and the one it releases. *)
Acquires(c) == IF c = "add" THEN "write" ELSE "read"
Releases(c) == IF c \in {"add", "front"} THEN "read" ELSE "write"

(* front() releases before it reads the slot, the other calls after. *)
AfterAcquire(c) == IF c = "front" THEN "release" ELSE "access"
AfterAccess(c)  == IF c = "front" THEN "idle" ELSE "release"
AfterNotify(c)  == IF c = "front" THEN "access" ELSE "idle"

(* Mutant of Following: the modulo forgotten. *)
FollowingUnwrapped(i) == i + 1

(* end++; end %= size. *)
Following(i) == (i + 1) % Size

-----------------------------------------------------------------------------
(* The receive thread got a packet from the socket and adds it. *)
Add(x) == /\ pc["writer"] = "idle"
          /\ pc' = [pc EXCEPT !["writer"] = "acquire"]
          /\ obj' = x
          /\ UNCHANGED <<arr, start, end, avail, op, result>>

(* Mutant of Poll: takes without looking whether the queue is empty. *)
PollBlindly == /\ pc["reader"] = "idle"
               /\ pc' = [pc EXCEPT !["reader"] = "acquire"]
               /\ op' = [op EXCEPT !["reader"] = "take"]
               /\ UNCHANGED <<arr, start, end, avail, obj, result>>

(* poll() found the queue not empty (an unlocked read of avail) and takes. *)
Poll == /\ "take" \in ReaderOps
        /\ pc["reader"] = "idle"
        /\ avail["read"] > 0
        /\ pc' = [pc EXCEPT !["reader"] = "acquire"]
        /\ op' = [op EXCEPT !["reader"] = "take"]
        /\ UNCHANGED <<arr, start, end, avail, obj, result>>

(* front() and pop() are called whatever the queue holds. *)
Call(c) == /\ pc["reader"] = "idle"
           /\ pc' = [pc EXCEPT !["reader"] = "acquire"]
           /\ op' = [op EXCEPT !["reader"] = c]
           /\ UNCHANGED <<arr, start, end, avail, obj, result>>

(* Mutant of Acquire: the predicate avail > 0 is not tested. *)
AcquireUntested(t) == LET s == Acquires(op[t]) IN
    /\ pc[t] = "acquire"
    /\ avail' = [avail EXCEPT ![s] = @ - 1]
    /\ pc' = [pc EXCEPT ![t] = AfterAcquire(op[t])]
    /\ UNCHANGED <<arr, start, end, op, obj, result>>

(* Semaphore::acquire() finds a permission. *)
Acquire(t) == LET s == Acquires(op[t]) IN
    /\ pc[t] = "acquire"
    /\ avail[s] > 0
    /\ avail' = [avail EXCEPT ![s] = @ - 1]
    /\ pc' = [pc EXCEPT ![t] = AfterAcquire(op[t])]
    /\ UNCHANGED <<arr, start, end, op, obj, result>>

(* Semaphore::acquire() finds none: cv.wait() releases m and sleeps. *)
Sleep(t) == /\ pc[t] = "acquire"
            /\ avail[Acquires(op[t])] = 0
            /\ pc' = [pc EXCEPT ![t] = "asleep"]
            /\ UNCHANGED <<arr, start, end, avail, op, obj, result>>

(* A condition variable may wake its waiter unasked; the predicate is tested again. *)
SpuriousWakeup(t) == /\ pc[t] = "asleep"
                     /\ pc' = [pc EXCEPT ![t] = "acquire"]
                     /\ UNCHANGED <<arr, start, end, avail, op, obj, result>>

(* The slot is accessed: arr[end++] = obj, retval = arr[start++], start++, arr[start]. *)
Store == /\ pc["writer"] = "access"
         /\ arr' = [arr EXCEPT ![end] = obj]
         /\ end' = Following(end)
         /\ pc' = [pc EXCEPT !["writer"] = AfterAccess("add")]
         /\ UNCHANGED <<start, avail, op, obj, result>>

(* Mutant of Load: take() copies the element and leaves it in the queue. *)
LoadKeeping == /\ pc["reader"] = "access"
               /\ result' = IF op["reader"] = "pop" THEN result ELSE arr[start]
               /\ start' = IF op["reader"] = "pop" THEN Following(start) ELSE start
               /\ pc' = [pc EXCEPT !["reader"] = AfterAccess(op["reader"])]
               /\ UNCHANGED <<arr, end, avail, op, obj>>

Load == /\ pc["reader"] = "access"
        /\ result' = IF op["reader"] = "pop" THEN result ELSE arr[start]
        /\ start' = IF op["reader"] = "front" THEN start ELSE Following(start)
        /\ pc' = [pc EXCEPT !["reader"] = AfterAccess(op["reader"])]
        /\ UNCHANGED <<arr, end, avail, op, obj>>

(* Semaphore::release(): the counter under the mutex, then notify_one(). *)
Release(t) == LET s == Releases(op[t]) IN
    /\ pc[t] = "release"
    /\ avail' = [avail EXCEPT ![s] = @ + 1]
    /\ pc' = [pc EXCEPT ![t] = "notify"]
    /\ UNCHANGED <<arr, start, end, op, obj, result>>

Wakes(t, u) == pc[u] = "asleep" /\ Acquires(op[u]) = Releases(op[t])

(* Mutant of Notify: nobody is woken. *)
NotifyNobody(t) ==
    /\ pc[t] = "notify"
    /\ pc' = [pc EXCEPT ![t] = AfterNotify(op[t])]
    /\ UNCHANGED <<arr, start, end, avail, op, obj, result>>

Notify(t) ==
    /\ pc[t] = "notify"
    /\ pc' = [u \in Threads |-> IF u = t THEN AfterNotify(op[t])
                                ELSE IF Wakes(t, u) THEN "acquire"
                                ELSE pc[u]]
    /\ UNCHANGED <<arr, start, end, avail, op, obj, result>>

-----------------------------------------------------------------------------
(* The steps a thread takes inside a call. *)
Access(t) == (t = "writer" /\ Store) \/ (t = "reader" /\ Load)
Step(t) == Acquire(t) \/ Sleep(t) \/ Access(t) \/ Release(t) \/ Notify(t)

Next == \/ \E x \in Packets : Add(x)
        \/ Poll
        \/ \E c \in ReaderOps \ {"take"} : Call(c)
        \/ \E t \in Threads : Step(t) \/ SpuriousWakeup(t)

(* A thread inside a call is scheduled, and the client polls on every step,  *)
(* whatever calls it makes in between (it makes none, and Poll, once enabled, *)
(* then stays so: weak fairness would say the same).  Nothing obliges the    *)
(* socket to deliver, nor a spurious wakeup to happen.                       *)
Fairness == (\A t \in Threads : WF_vars(Step(t))) /\ SF_vars(Poll)

Spec == Init /\ [][Next]_vars
FairSpec == Spec /\ Fairness

-----------------------------------------------------------------------------
(* Every variable stays in its domain, the indices among the slots. *)
TypeOK == /\ arr \in [Slots -> Packets \cup {NoPacket}]
          /\ start \in Slots
          /\ end \in Slots
          /\ avail \in [{"write", "read"} -> 0 .. Size]
          /\ pc \in [Threads -> Locations]
          /\ op \in [Threads -> {"add", "take", "front", "pop"}]
          /\ obj \in Packets \cup {NoPacket}
          /\ result \in Packets \cup {NoPacket}

Holds(t, l) == IF pc[t] = l THEN 1 ELSE 0

(* Packets stored and not yet erased: the permissions of read, plus those in a caller's hands. *)
Count == avail["read"] + Holds("writer", "release")
            + Holds("reader", AfterAcquire(op["reader"]))

(* Slots free for the writer, counted the same way. *)
Free == avail["write"] + Holds("writer", "access")
            + (IF op["reader"] = "front" THEN 0 ELSE Holds("reader", "release"))

(* Slot of the k-th position counted from slot 0, going round once at most. *)
Wrapped(k) == IF k < Size THEN k ELSE k - Size

(* Queue::add and take never create or lose a permission, and end is always  *)
(* the slot after the last stored packet: the two halves of the class, the   *)
(* semaphores (lines 33-36, 67-70) and the indices (34-35, 68-69), agree.    *)
Accounting == /\ Count + Free = Size
              /\ end = Wrapped(start + Count)

(* The slot add() copies into (line 34) is never the one front() or take()   *)
(* reads (46, 68): neither mutex covers both threads, the semaphores must.   *)
NoDataRace == (pc["writer"] = "access" /\ pc["reader"] = "access") => end # start

(* A thread sleeps in acquire() while a permission is there only if the      *)
(* notify_one() that wakes it is about to come (semaphore.hpp:25-28).        *)
NoLostWakeup ==
    \A t \in Threads : (pc[t] = "asleep" /\ avail[Acquires(op[t])] > 0)
        => \E u \in Threads : pc[u] = "notify" /\ Wakes(u, t)

(* The two threads never wait for each other: one that waits for room and    *)
(* one that waits for a packet would both sleep in acquire() (line 16) with  *)
(* nobody left to call release().                                            *)
NeverBothAsleep == ~ \A t \in Threads : pc[t] = "asleep"

(* poll() tests empty() without the mutex (packetmanager.hpp:180) and takes  *)
(* later (181): the take it then makes never puts the thread to sleep.       *)
PollNeverBlocks == op["reader"] = "take" => pc["reader"] # "asleep"

(* The contents of the queue, oldest packet first. *)
Contents == [i \in 1 .. Count |-> arr[Wrapped(start + i - 1)]]

Fifo == INSTANCE BoundedFifo WITH fifo <- Contents, got <- result, Capacity <- Size

(* The queue is first-in first-out, overwrites no packet that was not taken, *)
(* and hands out each packet once: the promise of the comments of queue.hpp. *)
ImplementsFifo == Fifo!Spec

(* "If queue is full, block the calling thread until queue is not full and   *)
(* then add the object, unblocking the calling thread" (queue.hpp:27-29).    *)
AddReturns == pc["writer"] = "acquire" ~> pc["writer"] = "idle"

(* A packet that was stored eventually leaves the ring, taken by the polling  *)
(* thread or popped by it.                                                   *)
Drained == \A i \in Slots : (start = i /\ Count > 0) ~> (start # i)
=============================================================================
