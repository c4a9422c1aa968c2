----------------------------- MODULE EventStream -----------------------------
(***************************************************************************)
(* What a session promises its viewer: the events emitted while it is      *)
(* open, each once and in the order they were emitted.                     *)
(***************************************************************************)
EXTENDS Sequences

CONSTANTS Events, NoEvent

VARIABLES pending,   \* emitted and not seen by the viewer
          last       \* the last event the viewer has seen

Init == pending = << >> /\ last = NoEvent

Emit(ev) == pending' = Append(pending, ev) /\ UNCHANGED last

Deliver == /\ pending # << >>
           /\ last' = Head(pending)
           /\ pending' = Tail(pending)

Next == (\E ev \in Events : Emit(ev)) \/ Deliver

Spec == Init /\ [][Next]_<<pending, last>>
=============================================================================
