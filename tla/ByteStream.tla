----------------------------- MODULE ByteStream -----------------------------
(***************************************************************************)
(* What a circular byte buffer promises to its one writer and one reader:  *)
(* a stream that holds at most Capacity bytes.  A write is taken whole or  *)
(* refused, and a read returns bytes from the front, in order and once.    *)
(* Refused writes and empty reads are stuttering steps.                    *)
(***************************************************************************)
EXTENDS Naturals, Sequences

CONSTANTS Bytes, Capacity

VARIABLES stream,   \* written and not yet read
          got       \* what the last read that returned anything returned

Init == stream = << >> /\ got = << >>

Write(d) == /\ Len(stream) + Len(d) <= Capacity
            /\ stream' = stream \o d
            /\ UNCHANGED got

Read(n) == /\ n <= Len(stream)
           /\ got' = SubSeq(stream, 1, n)
           /\ stream' = SubSeq(stream, n + 1, Len(stream))

Next == \/ \E n \in 0 .. Capacity : \E d \in [1 .. n -> Bytes] : Write(d)
        \/ \E n \in 0 .. Capacity : Read(n)

Spec == Init /\ [][Next]_<<stream, got>>
=============================================================================
