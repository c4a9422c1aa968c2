------------------------- MODULE MCCircularBuffer -------------------------
(* Model-checking instances of CircularBuffer.                             *)
EXTENDS CircularBuffer, TLC

\* the buffer does not look at the bytes it carries
ByteSymmetry == Permutations(Bytes)
=============================================================================
