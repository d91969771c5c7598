------------------------------ MODULE BoundedFIFO ------------------------------
(***************************************************************************)
(* What the buffer between the threads of a dropbox client promises: a    *)
(* queue of at most Capacity elements, handed out in the order in which   *)
(* they were put in, none lost and none handed out twice.                 *)
(***************************************************************************)
EXTENDS Naturals, Sequences

CONSTANTS Elem,      \* what may be queued
          Capacity   \* how many elements fit

VARIABLE queue

Init == queue = <<>>

Enqueue == /\ Len(queue) < Capacity
           /\ \E e \in Elem : queue' = Append(queue, e)

Dequeue == /\ queue # <<>>
           /\ queue' = Tail(queue)

Next == Enqueue \/ Dequeue

Spec == Init /\ [][Next]_queue
================================================================================
