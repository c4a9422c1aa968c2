--------------------------- MODULE CircularBuffer ---------------------------
(***************************************************************************)
(* The byte buffer of src/src/ConcurrentCircularBuffer.h between one       *)
(* thread calling TryWrite and one calling Read.  Loads and stores of the  *)
(* two positions, and each memcpy, are steps of their own.                 *)
(*                                                                         *)
(* log and consumed are history variables: every byte accepted so far, and *)
(* how many of them have been read.  No guard looks at them, except for    *)
(* the bound MaxBytes.                                                     *)
(***************************************************************************)
EXTENDS Integers, Sequences

CONSTANTS Bytes,      \* values of a byte
          Size,       \* kBufferSize
          Requests,   \* the sizes that are asked of TryWrite and of Read
          MaxBytes,   \* bound: no call of TryWrite starts that would go beyond it
          NoByte      \* content of a cell never written

ASSUME CircularAssumption == /\ Size \in Nat \ {0} /\ MaxBytes \in Nat
                             /\ Requests \subseteq Nat /\ NoByte \notin Bytes

VARIABLES write, read,   \* _write, _read
          buffer,        \* _buffer
          wpc, wtail, data,        \* TryWrite: control point, its tail, the data
          rpc, rtail, amount, out, \* Read: control point, its tail, amount, what is copied
          got,           \* what the last Read that found something returned
          log, consumed

shared    == <<write, read, buffer>>
writeVars == <<wpc, wtail, data>>
readVars  == <<rpc, rtail, amount, out, got>>
vars == <<shared, writeVars, readVars, log, consumed>>

Cells == 0 .. Size - 1

\* x & kBufferMask
Mask(x) == x % Size

Init ==
  /\ write = 0 /\ read = 0
  /\ buffer = [i \in Cells |-> NoByte]
  /\ wpc = "idle" /\ wtail = 0 /\ data = << >>
  /\ rpc = "idle" /\ rtail = 0 /\ amount = 0 /\ out = << >> /\ got = << >>
  /\ log = << >> /\ consumed = 0

-----------------------------------------------------------------------------
(* TryWrite *)

StartWrite(d) ==
  /\ wpc = "idle" /\ Len(log) + Len(d) <= MaxBytes
  /\ data' = d
  /\ wpc' = "load"
  /\ UNCHANGED <<shared, wtail, readVars, log, consumed>>

\* tail = _read.load()
WriteLoad ==
  /\ wpc = "load"
  /\ wtail' = read
  /\ wpc' = "check"
  /\ UNCHANGED <<shared, data, readVars, log, consumed>>

\* the writer's own position is head from here on: only TryWrite stores _write
Available == Size - Mask(write - wtail)

\* for comparison: a buffer may be filled to the last byte
WriteCheckFillsUp ==
  /\ wpc = "check"
  /\ wpc' = IF Len(data) <= Available THEN "copy" ELSE "idle"
  /\ UNCHANGED <<shared, wtail, data, readVars, log, consumed>>

\* head = _write.load(), and the comparison with what is available
WriteCheck ==
  /\ wpc = "check"
  /\ wpc' = IF Len(data) < Available THEN "copy" ELSE "idle"
  /\ UNCHANGED <<shared, wtail, data, readVars, log, consumed>>

\* bytes copied before the end of the array
WriteCount == IF Len(data) < Size - write THEN Len(data) ELSE Size - write

WriteCopy ==
  /\ wpc = "copy"
  /\ buffer' = [i \in Cells |-> IF i \in write .. write + WriteCount - 1
                                THEN data[i - write + 1] ELSE buffer[i]]
  /\ wpc' = "wrap"
  /\ UNCHANGED <<write, read, wtail, data, readVars, log, consumed>>

\* for comparison: the second part starts with the data again
WriteWrapRestarts ==
  /\ wpc = "wrap"
  /\ buffer' = [i \in Cells |-> IF i < Len(data) - WriteCount
                                THEN data[i + 1] ELSE buffer[i]]
  /\ wpc' = "publish"
  /\ UNCHANGED <<write, read, wtail, data, readVars, log, consumed>>

\* and the remaining ones at its beginning
WriteWrap ==
  /\ wpc = "wrap"
  /\ buffer' = [i \in Cells |-> IF i < Len(data) - WriteCount
                                THEN data[WriteCount + i + 1] ELSE buffer[i]]
  /\ wpc' = "publish"
  /\ UNCHANGED <<write, read, wtail, data, readVars, log, consumed>>

\* _write.store()
WritePublish ==
  /\ wpc = "publish"
  /\ write' = Mask(write + Len(data))
  /\ log' = log \o data
  /\ wpc' = "idle"
  /\ UNCHANGED <<read, buffer, wtail, data, readVars, consumed>>

-----------------------------------------------------------------------------
(* Read *)

\* Read(out, size) with the load of _write
StartRead(size) ==
  /\ rpc = "idle"
  /\ rtail' = write
  /\ amount' = size
  /\ rpc' = "check"
  /\ UNCHANGED <<shared, writeVars, out, got, log, consumed>>

Unread == Mask(rtail - read)

\* head = _read.load(): how many bytes there are, and how many will be read
ReadCheck ==
  /\ rpc = "check"
  /\ amount' = IF amount < Unread THEN amount ELSE Unread
  /\ rpc' = IF Unread > 0 THEN "copy" ELSE "idle"
  /\ UNCHANGED <<shared, writeVars, rtail, out, got, log, consumed>>

ReadCount == IF Size - read < amount THEN Size - read ELSE amount

ReadCopy ==
  /\ rpc = "copy"
  /\ out' = [k \in 1 .. ReadCount |-> buffer[read + k - 1]]
  /\ rpc' = "wrap"
  /\ UNCHANGED <<shared, writeVars, rtail, amount, got, log, consumed>>

ReadWrap ==
  /\ rpc = "wrap"
  /\ out' = [k \in 1 .. amount |-> IF k <= ReadCount THEN out[k]
                                   ELSE buffer[k - ReadCount - 1]]
  /\ rpc' = "advance"
  /\ UNCHANGED <<shared, writeVars, rtail, amount, got, log, consumed>>

\* for comparison: the position does not wrap
ReadAdvanceAll ==
  /\ rpc = "advance"
  /\ read' = rtail
  /\ consumed' = consumed + amount
  /\ got' = out
  /\ rpc' = "idle"
  /\ UNCHANGED <<write, buffer, writeVars, rtail, amount, out, log>>

\* _read.store()
ReadAdvance ==
  /\ rpc = "advance"
  /\ read' = Mask(read + amount)
  /\ consumed' = consumed + amount
  /\ got' = out
  /\ rpc' = "idle"
  /\ UNCHANGED <<write, buffer, writeVars, rtail, amount, out, log>>

-----------------------------------------------------------------------------
Data == UNION {[1 .. n -> Bytes] : n \in Requests}

Writer == WriteLoad \/ WriteCheck \/ WriteCopy \/ WriteWrap \/ WritePublish
Reader == ReadCheck \/ ReadCopy \/ ReadWrap \/ ReadAdvance

Next == \/ \E d \in Data : StartWrite(d)
        \/ Writer
        \/ \E size \in Requests : StartRead(size)
        \/ Reader

Spec == Init /\ [][Next]_vars

-----------------------------------------------------------------------------
(* Properties *)

\* The cells a memcpy of TryWrite, or of Read, still has to go through.
Writing == CASE wpc = "copy" -> {Mask(write + k) : k \in 0 .. Len(data) - 1}
             [] wpc = "wrap" -> {Mask(write + k) : k \in WriteCount .. Len(data) - 1}
             [] OTHER        -> {}
Reading == CASE rpc = "copy" -> {Mask(read + k) : k \in 0 .. amount - 1}
             [] rpc = "wrap" -> {Mask(read + k) : k \in ReadCount .. amount - 1}
             [] OTHER        -> {}

\* TryWrite and Read never copy to and from one cell at the same time, though
\* each decides by a position of the other that it loaded before.
CellExclusion == Writing \cap Reading = {}

TypeOK ==
  /\ write \in Cells /\ read \in Cells
  /\ buffer \in [Cells -> Bytes \cup {NoByte}]
  /\ wpc \in {"idle", "load", "check", "copy", "wrap", "publish"}
  /\ wtail \in Cells /\ data \in Seq(Bytes)
  /\ rpc \in {"idle", "check", "copy", "wrap", "advance"}
  /\ rtail \in Cells /\ amount \in Nat
  /\ out \in Seq(Bytes \cup {NoByte}) /\ got \in Seq(Bytes)
  /\ log \in Seq(Bytes) /\ consumed \in Nat

\* The positions are those of the bytes accepted and of the bytes read, never
\* a whole buffer apart, and the cells between them hold what was accepted.
Contents ==
  /\ consumed <= Len(log) /\ Len(log) - consumed < Size
  /\ write = Mask(Len(log)) /\ read = Mask(consumed)
  /\ \A t \in consumed .. Len(log) - 1 : buffer[Mask(t)] = log[t + 1]

\* What TryWrite knows: its tail is behind the reader's position by what was
\* read since, and its data fits behind the bytes that were unread then.
WriterKnows ==
  /\ wpc \in {"check", "copy", "wrap", "publish"} =>
       \E t \in 0 .. consumed :
         /\ wtail = Mask(t) /\ Len(log) - t < Size
         /\ wpc # "check" => Len(log) - t + Len(data) < Size
  /\ wpc \in {"wrap", "publish"} =>
       \A k \in 0 .. WriteCount - 1 : buffer[Mask(Len(log) + k)] = data[k + 1]
  /\ wpc = "publish" =>
       \A k \in WriteCount .. Len(data) - 1 : buffer[Mask(Len(log) + k)] = data[k + 1]

\* What Read knows: bytes up to its tail were accepted, and what it has copied
\* is what was accepted.
ReaderKnows ==
  /\ rpc # "idle" =>
       \E t \in consumed .. Len(log) :
         rtail = Mask(t) /\ (rpc # "check" => consumed + amount <= t)
  /\ rpc = "wrap" => Len(out) = ReadCount
  /\ rpc = "advance" => Len(out) = amount
  /\ rpc \in {"wrap", "advance"} =>
       \A k \in 1 .. Len(out) : out[k] = log[consumed + k]

\* The inductive invariant.
IInv == TypeOK /\ Contents /\ WriterKnows /\ ReaderKnows

\* The buffer is a stream of at most Size - 1 bytes: whole writes, nothing
\* lost, repeated or reordered around the end of the array, for whole calls of
\* TryWrite and Read.
Stream == INSTANCE ByteStream WITH
  stream <- SubSeq(log, consumed + 1, Len(log)), got <- got, Capacity <- Size - 1
ImplementsByteStream == Stream!Spec

=============================================================================
