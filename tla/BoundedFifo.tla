----------------------------- MODULE BoundedFifo -----------------------------
(***************************************************************************)
(* What the thread-safe queue of include/queue.hpp promises to the threads *)
(* that call it: a first-in first-out queue of at most Capacity packets.   *)
(* A call that cannot be served waits, that is, its action is not enabled. *)
(***************************************************************************)
EXTENDS Naturals, Sequences

CONSTANTS Packets, Capacity

VARIABLES fifo,   \* the packets that were added and not yet erased, oldest first
          got     \* what the last front() or take() returned

vars == <<fifo, got>>

Init == fifo = <<>> /\ got \notin Packets

Put(x) == /\ Len(fifo) < Capacity
          /\ fifo' = Append(fifo, x)
          /\ UNCHANGED got

Take == /\ fifo # <<>>
        /\ got' = Head(fifo)
        /\ fifo' = Tail(fifo)

Pop == /\ fifo # <<>>
       /\ fifo' = Tail(fifo)
       /\ UNCHANGED got

Front == /\ fifo # <<>>
         /\ got' = Head(fifo)
         /\ UNCHANGED fifo

Next == (\E x \in Packets : Put(x)) \/ Take \/ Pop \/ Front

Spec == Init /\ [][Next]_vars
=============================================================================
