------------------------------ MODULE Protocol ------------------------------
(***************************************************************************)
(* The binary protocol between the library and the viewer: the encoder of  *)
(* src/src/Protocol.cpp and the reader of src/tools/web/js/ysProtocol.js.  *)
(*                                                                         *)
(* Encoded data is a sequence of fields, each a value and its width in     *)
(* bytes; the two sides have to agree on the offsets.  A reader that looks *)
(* at an offset where no field of that width begins gets Garbage.  Values  *)
(* fit their fields.  A string is named by its handle.                     *)
(***************************************************************************)
EXTENDS Integers, Sequences

CONSTANTS StrLen,    \* strlen of the string with a handle
          Garbage    \* what is read across the limits of fields

F(value, width) == [value |-> value, width |-> width]

\* where the k-th field of data begins, and how long data is
Offset(data) == LET at[k \in 1 .. Len(data) + 1] ==
                      IF k = 1 THEN 0 ELSE at[k - 1] + data[k - 1].width
                IN  at
Size(data) == Offset(data)[Len(data) + 1]

-----------------------------------------------------------------------------
(* The encoder *)

\* EncodeEvent, given enough room
Encode(ev) ==
  CASE ev.type = "header"      -> <<F(1, 1), F(ev.frequency, 8), F(ev.start, 8)>>
    [] ev.type = "tick"        -> <<F(2, 1), F(ev.when, 8)>>
    [] ev.type = "region"      -> <<F(3, 1), F(ev.line, 4), F(ev.name, 4), F(ev.file, 4),
                                    F(ev.start, 8), F(ev.end, 8)>>
    [] ev.type = "counter_set" -> <<F(4, 1), F(ev.line, 4), F(ev.name, 4), F(ev.file, 4),
                                    F(ev.when, 8), F(ev.value, 8)>>
    [] ev.type = "string"      -> <<F(5, 1), F(ev.id, 4), F(ev.size, 2), F(ev.id, ev.size)>>
    [] ev.type = "counter_add" -> <<F(6, 1), F(ev.name, 4), F(ev.amount, 8)>>

\* for comparison: an amount of four bytes
EncodeSizeShort(ev) ==
  CASE ev.type = "header"                    -> 1 + 8 + 8
    [] ev.type = "tick"                      -> 1 + 8
    [] ev.type \in {"region", "counter_set"} -> 1 + 4 + 4 + 4 + 8 + 8
    [] ev.type = "string"                    -> 1 + 4 + 2 + ev.size
    [] ev.type = "counter_add"               -> 1 + 4 + 4

\* EncodeSize
EncodeSize(ev) ==
  CASE ev.type = "header"                    -> 1 + 8 + 8
    [] ev.type = "tick"                      -> 1 + 8
    [] ev.type \in {"region", "counter_set"} -> 1 + 4 + 4 + 4 + 8 + 8
    [] ev.type = "string"                    -> 1 + 4 + 2 + ev.size
    [] ev.type = "counter_add"               -> 1 + 4 + 8

\* what WriteSessionString makes of a string: the size has 16 bits
StringEvent(handle) ==
  [type |-> "string", id |-> handle, size |-> StrLen[handle] % 65536]

-----------------------------------------------------------------------------
(* The viewer's reader *)

\* the value that a DataView has at byte pos
Get(data, pos, width) ==
  LET fields == {k \in 1 .. Len(data) : /\ Offset(data)[k] = pos
                                        /\ data[k].width = width}
  IN  IF fields = {} THEN Garbage ELSE data[CHOOSE k \in fields : TRUE].value

\* YsEventReader.read at byte pos: the event and the position behind it; a
\* type it does not know ends the message
ReadEvent(data, pos) ==
  LET type     == Get(data, pos, 1)
      at(k, w) == Get(data, pos + k, w)
      length   == IF at(5, 2) = Garbage THEN 0 ELSE at(5, 2)
  IN  CASE type = 1 -> [next |-> pos + 17, event |->
             [type |-> "header", frequency |-> at(1, 8), start |-> at(9, 8)]]
        [] type = 2 -> [next |-> pos + 9, event |-> [type |-> "tick", when |-> at(1, 8)]]
        [] type = 3 -> [next |-> pos + 29, event |->
             [type |-> "region", line |-> at(1, 4), name |-> at(5, 4), file |-> at(9, 4),
              start |-> at(13, 8), end |-> at(21, 8)]]
        [] type = 4 -> [next |-> pos + 29, event |->
             [type |-> "counter_set", line |-> at(1, 4), name |-> at(5, 4), file |-> at(9, 4),
              when |-> at(13, 8), value |-> at(21, 8)]]
        [] type = 5 -> [next |-> pos + 7 + length, event |->
             [type |-> "string", id |-> at(1, 4), size |-> length, string |-> at(7, length)]]
        [] type = 6 -> [next |-> pos + 13, event |->
             [type |-> "counter_add", name |-> at(1, 4), amount |-> at(5, 8)]]
        [] OTHER    -> [next |-> Size(data), event |-> [type |-> "unknown"]]
=============================================================================
