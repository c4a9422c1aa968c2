---------------------------- MODULE BoundedQueue ----------------------------
(***************************************************************************)
(* What a ThreadState promises about its event queue: a first-in first-out *)
(* queue of at most Capacity values.  A refused enqueue and an empty       *)
(* dequeue are stuttering steps.                                           *)
(***************************************************************************)
EXTENDS Naturals, Sequences

CONSTANTS Values,    \* what the queue carries (EventData records)
          Capacity   \* kBufferSize of the implementation

VARIABLE queue

Init == queue = << >>

Put(v) == /\ Len(queue) < Capacity
          /\ queue' = Append(queue, v)

Get == /\ queue # << >>
       /\ queue' = Tail(queue)

Next == Get \/ \E v \in Values : Put(v)

Spec == Init /\ [][Next]_queue
=============================================================================
