------------------------- MODULE MCSessionStream --------------------------
(* Model-checking instances of SessionStream: an event of every type, with *)
(* different values in all fields.  Strings 0 and 2 have the same bit in   *)
(* the table.  String 2 fills the buffer, and string 8 is longer than 16   *)
(* bits can say, by as much as does not fit the buffer.                    *)
EXTENDS SessionStream, TLC

Lengths   == 0 :> 3 @@ 1 :> 0 @@ 2 :> 29 @@ 8 :> 65596

SomeEvents ==
  {[type |-> "header", frequency |-> 1001, start |-> 1002],
   [type |-> "tick", when |-> 1003],
   [type |-> "region", line |-> 1004, name |-> 0, file |-> 8, start |-> 1005, end |-> 1006],
   [type |-> "counter_set", line |-> 1007, name |-> 1, file |-> 2, when |-> 1008,
    value |-> 1009],
   [type |-> "counter_add", name |-> 1, amount |-> 1010]}
=============================================================================
