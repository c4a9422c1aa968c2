------------------------ MODULE CircularBufferProofs -----------------------
(***************************************************************************)
(* Proofs about the byte buffer of src/src/ConcurrentCircularBuffer.h, for *)
(* any size of the buffer and any sizes of writes and reads.               *)
(*                                                                         *)
(* Byte number t of the stream lives in cell Mask(t).  Two bytes less than *)
(* a whole buffer apart never share a cell (MaskSame), and the bytes from  *)
(* the first unread one to the last one being written are less than a      *)
(* whole buffer (Fits): that is why the two copies never meet, although    *)
(* each thread decides by a position of the other that it loaded before.   *)
(***************************************************************************)
EXTENDS CircularBuffer, SequenceTheorems, TLAPS

\* Division with remainder, as Mask uses it.
LEMMA Euclid ==
  ASSUME NEW m \in Nat \ {0}, NEW x \in Int
  PROVE  /\ x \div m \in Int /\ x % m \in 0 .. m - 1
         /\ x = m * (x \div m) + (x % m)
  OBVIOUS

\* Zero is the only multiple of m strictly between -m and m.
LEMMA SmallMultiple ==
  ASSUME NEW m \in Nat \ {0}, NEW k \in Int, 0 - m < m * k, m * k < m
  PROVE  k = 0
<1>1. CASE k >= 1
  <2>1. m * k >= m
    BY <1>1
  <2> QED BY <2>1
<1>2. CASE k <= -1
  <2>1. m * k <= 0 - m
    BY <1>2
  <2> QED BY <2>1
<1> QED BY <1>1, <1>2

\* x & kBufferMask is an index of the buffer, and x without whole buffers.
LEMMA MaskType ==
  ASSUME NEW x \in Int
  PROVE  /\ Mask(x) \in Cells /\ Mask(x) \in Int
         /\ \E n \in Int : x = Size * n + Mask(x)
<1>1. Size \in Nat \ {0}
  BY CircularAssumption
<1>2. x \div Size \in Int /\ x % Size \in 0 .. Size - 1 /\ x = Size * (x \div Size) + (x % Size)
  BY <1>1, Euclid
<1>3. Mask(x) = x % Size
  BY DEF Mask
<1>4. Mask(x) \in Cells /\ Mask(x) \in Int
  BY <1>1, <1>2, <1>3 DEF Cells
<1>5. \E n \in Int : x = Size * n + Mask(x)
  <2>1. x \div Size \in Int
    BY <1>2
  <2>2. x = Size * (x \div Size) + Mask(x)
    BY <1>2, <1>3
  <2> QED BY <2>1, <2>2
<1> QED BY <1>4, <1>5

\* The mask of a number is the one remainder it has.
LEMMA MaskUnique ==
  ASSUME NEW x \in Int, NEW n \in Int, NEW r \in Cells, x = Size * n + r
  PROVE  Mask(x) = r
<1>1. Size \in Nat \ {0} /\ r \in 0 .. Size - 1 /\ Mask(x) \in 0 .. Size - 1
  BY CircularAssumption, MaskType DEF Cells
<1>2. PICK q \in Int : x = Size * q + Mask(x)
  BY MaskType
<1>3. Size * (n - q) = Mask(x) - r
  <2>1. Size * (n - q) = Size * n - Size * q
    BY <1>1, <1>2
  <2> QED BY <1>1, <1>2, <2>1
<1>4. n - q = 0
  BY <1>1, <1>2, <1>3, SmallMultiple
<1> QED BY <1>1, <1>2, <1>3, <1>4

\* Bytes in one cell are the same one, or a whole buffer apart.
LEMMA MaskSame ==
  ASSUME NEW x \in Int, NEW y \in Int, Mask(x) = Mask(y), x - y < Size, y - x < Size
  PROVE  x = y
<1>1. Size \in Nat \ {0} /\ Mask(x) \in Int
  BY CircularAssumption, MaskType
<1>2. PICK p \in Int : x = Size * p + Mask(x)
  BY MaskType
<1>3. PICK q \in Int : y = Size * q + Mask(y)
  BY MaskType
<1>4. Size * (p - q) = x - y
  <2>1. Size * (p - q) = Size * p - Size * q
    BY <1>1, <1>2, <1>3
  <2> QED BY <1>1, <1>2, <1>3, <2>1
<1>5. p - q = 0
  BY <1>1, <1>2, <1>3, <1>4, SmallMultiple
<1> QED BY <1>1, <1>2, <1>3, <1>4, <1>5

\* Positions may be masked before they are added to.
LEMMA MaskAdd ==
  ASSUME NEW x \in Int, NEW y \in Int
  PROVE  Mask(Mask(x) + y) = Mask(x + y)
<1>1. Size \in Nat \ {0} /\ Mask(x) + y \in Int
  BY CircularAssumption, MaskType
<1>2. PICK p \in Int : x = Size * p + Mask(x)
  BY MaskType
<1>3. PICK q \in Int : Mask(x) + y = Size * q + Mask(Mask(x) + y)
  BY <1>1, MaskType
<1>4. Mask(Mask(x) + y) \in Cells /\ Mask(Mask(x) + y) \in Int /\ Mask(x) \in Int
  BY <1>1, MaskType
<1>5. x + y = Size * (p + q) + Mask(Mask(x) + y)
  <2>1. Size * (p + q) = Size * p + Size * q
    BY <1>1, <1>2, <1>3
  <2> QED BY <1>1, <1>2, <1>3, <1>4, <2>1
<1> QED BY <1>4, <1>5, MaskUnique

\* The masked difference of two positions is how far apart they are.
LEMMA MaskDiff ==
  ASSUME NEW x \in Int, NEW y \in Int, y <= x, x - y < Size
  PROVE  Mask(Mask(x) - Mask(y)) = x - y
<1>1. Size \in Nat \ {0} /\ Mask(x) \in Int /\ Mask(y) \in Int
  BY CircularAssumption, MaskType
<1>2. PICK p \in Int : x = Size * p + Mask(x)
  BY MaskType
<1>3. PICK q \in Int : y = Size * q + Mask(y)
  BY MaskType
<1>4. Mask(x) - Mask(y) = Size * (q - p) + (x - y)
  <2>1. Size * (q - p) = Size * q - Size * p
    BY <1>1, <1>2, <1>3
  <2> QED BY <1>1, <1>2, <1>3, <2>1
<1>5. x - y \in Cells /\ q - p \in Int /\ Mask(x) - Mask(y) \in Int
  BY <1>1, <1>2, <1>3 DEF Cells
<1> QED BY <1>4, <1>5, MaskUnique

\* Where the k-th byte from position x is, before and behind the end of the
\* array.
LEMMA MaskSplit ==
  ASSUME NEW x \in Int, NEW k \in Nat, k < Size
  PROVE  /\ k < Size - Mask(x) => Mask(x + k) = Mask(x) + k
         /\ k >= Size - Mask(x) => Mask(x + k) = Mask(x) + k - Size
<1>1. Size \in Nat \ {0} /\ Mask(x) \in 0 .. Size - 1
  BY CircularAssumption, MaskType DEF Cells
<1>2. PICK p \in Int : x = Size * p + Mask(x)
  BY MaskType
<1>3. CASE k < Size - Mask(x)
  <2>1. Mask(x) + k \in Cells /\ x + k = Size * p + (Mask(x) + k) /\ x + k \in Int
    BY <1>1, <1>2, <1>3 DEF Cells
  <2>2. Mask(x + k) = Mask(x) + k
    BY <1>2, <2>1, MaskUnique
  <2> QED BY <1>1, <1>2, <1>3, <2>2
<1>4. CASE k >= Size - Mask(x)
  <2>1. Mask(x) + k - Size \in Cells /\ x + k \in Int /\ p + 1 \in Int
    BY <1>1, <1>2, <1>4 DEF Cells
  <2>2. Size * (p + 1) = Size * p + Size
    BY <1>1, <1>2
  <2>3. x + k = Size * (p + 1) + (Mask(x) + k - Size)
    BY <1>1, <1>2, <2>2
  <2>4. Mask(x + k) = Mask(x) + k - Size
    BY <2>1, <2>3, MaskUnique
  <2> QED BY <1>1, <1>2, <1>4, <2>4
<1> QED BY <1>1, <1>2, <1>3, <1>4

\* A function on 1 .. n is a sequence of length n.
LEMMA LengthOf ==
  ASSUME NEW S, NEW n \in Nat, NEW f \in [1 .. n -> S]
  PROVE  f \in Seq(S) /\ Len(f) = n
<1>1. f \in Seq(S)
  BY SeqDef
<1>2. Len(f) \in Nat /\ DOMAIN f = 1 .. Len(f) /\ DOMAIN f = 1 .. n
  BY <1>1, LenProperties
<1>3. Len(f) = n
  BY <1>2
<1> QED BY <1>1, <1>3

-----------------------------------------------------------------------------
(* Facts about a state that satisfies IInv *)

\* The numbers of the model are numbers, the first part of a copy is a part of
\* it, and what is unread is less than a buffer.
LEMMA Numbers ==
  ASSUME IInv
  PROVE  /\ Size \in Nat \ {0} /\ Len(log) \in Nat /\ Len(data) \in Nat /\ Len(out) \in Nat
         /\ consumed \in Nat /\ amount \in Nat
         /\ write \in 0 .. Size - 1 /\ read \in 0 .. Size - 1
         /\ WriteCount \in 0 .. Len(data) /\ ReadCount \in 0 .. amount
         /\ consumed <= Len(log) /\ Len(log) - consumed < Size
<1>1. Size \in Nat \ {0}
  BY CircularAssumption
<1>2. /\ Len(log) \in Nat /\ Len(data) \in Nat /\ Len(out) \in Nat
      /\ consumed \in Nat /\ amount \in Nat
      /\ write \in 0 .. Size - 1 /\ read \in 0 .. Size - 1
  BY LenProperties DEF IInv, TypeOK, Cells
<1>3. WriteCount \in 0 .. Len(data)
  BY <1>1, <1>2 DEF WriteCount
<1>4. ReadCount \in 0 .. amount
  BY <1>1, <1>2 DEF ReadCount
<1>5. consumed <= Len(log) /\ Len(log) - consumed < Size
  BY DEF IInv, Contents
<1> QED BY <1>1, <1>2, <1>3, <1>4, <1>5

\* Once TryWrite has compared, its data fits behind the unread bytes, however
\* many of them Read has taken since.
LEMMA Fits ==
  ASSUME IInv, wpc \in {"copy", "wrap", "publish"}
  PROVE  Len(log) - consumed + Len(data) < Size
<1>1. PICK t \in 0 .. consumed : Len(log) - t + Len(data) < Size
  BY DEF IInv, WriterKnows
<1> QED BY <1>1, Numbers

\* Once Read has compared, it takes bytes that were accepted, however many
\* were accepted since.
LEMMA Takes ==
  ASSUME IInv, rpc \in {"copy", "wrap", "advance"}
  PROVE  consumed + amount <= Len(log)
<1>1. PICK t \in consumed .. Len(log) : consumed + amount <= t
  BY DEF IInv, ReaderKnows
<1> QED BY <1>1, Numbers

\* No two of the bytes from the first unread one to the last one being written
\* share a cell.
LEMMA Apart ==
  ASSUME IInv, wpc \in {"copy", "wrap", "publish"},
         NEW s \in Int, consumed <= s, s < Len(log) + Len(data),
         NEW u \in Int, consumed <= u, u < Len(log) + Len(data),
         Mask(s) = Mask(u)
  PROVE  s = u
<1>1. s - u < Size /\ u - s < Size
  BY Numbers, Fits
<1> QED BY <1>1, MaskSame

\* The cells of the data: the first part goes up to the end of the array at
\* most, and the rest starts at its beginning.
LEMMA WriteCells ==
  ASSUME IInv, wpc \in {"copy", "wrap", "publish"}, NEW k \in 0 .. Len(data) - 1
  PROVE  /\ k < WriteCount => Mask(Len(log) + k) = write + k /\ write + k \in Cells
         /\ k >= WriteCount => Mask(Len(log) + k) = k - WriteCount /\ k - WriteCount \in Cells
<1>1. k \in Nat /\ k < Size /\ Len(log) \in Int
  BY Numbers, Fits
<1>2. write = Mask(Len(log))
  BY DEF IInv, Contents
<1>3. /\ k < Size - write => Mask(Len(log) + k) = write + k
      /\ k >= Size - write => Mask(Len(log) + k) = write + k - Size
  BY <1>1, <1>2, MaskSplit
<1>4. CASE k < WriteCount
  <2>1. k < Size - write
    BY <1>1, <1>4, Numbers DEF WriteCount
  <2> QED BY <1>1, <1>3, <1>4, <2>1, Numbers DEF Cells
<1>5. CASE k >= WriteCount
  <2>1. WriteCount = Size - write
    BY <1>1, <1>5, Numbers DEF WriteCount
  <2>2. Mask(Len(log) + k) = write + k - Size
    BY <1>1, <1>3, <1>5, <2>1, Numbers
  <2>a. WriteCount \in Nat /\ write \in Nat /\ Size \in Nat
    BY Numbers
  <2>b. k - WriteCount = write + k - Size /\ k - WriteCount \in Int /\ 0 <= k - WriteCount
    BY <1>1, <1>5, <2>1, <2>a
  <2>3. write + k - Size = k - WriteCount /\ k - WriteCount \in Cells
    BY <1>1, <2>a, <2>b DEF Cells
  <2>4. ~ (k < WriteCount)
    BY <1>1, <1>5, Numbers
  <2> QED BY <2>2, <2>3, <2>4
<1> QED BY <1>1, <1>4, <1>5, Numbers

\* The same for the bytes that Read takes.
LEMMA ReadCells ==
  ASSUME IInv, rpc \in {"copy", "wrap", "advance"}, NEW k \in 0 .. amount - 1
  PROVE  /\ k < ReadCount => Mask(consumed + k) = read + k /\ read + k \in Cells
         /\ k >= ReadCount => Mask(consumed + k) = k - ReadCount /\ k - ReadCount \in Cells
<1>1. k \in Nat /\ k < Size /\ consumed \in Int
  BY Numbers, Takes
<1>2. read = Mask(consumed)
  BY DEF IInv, Contents
<1>3. /\ k < Size - read => Mask(consumed + k) = read + k
      /\ k >= Size - read => Mask(consumed + k) = read + k - Size
  BY <1>1, <1>2, MaskSplit
<1>4. CASE k < ReadCount
  <2>1. k < Size - read
    BY <1>1, <1>4, Numbers DEF ReadCount
  <2> QED BY <1>1, <1>3, <1>4, <2>1, Numbers DEF Cells
<1>5. CASE k >= ReadCount
  <2>1. ReadCount = Size - read
    BY <1>1, <1>5, Numbers DEF ReadCount
  <2>2. Mask(consumed + k) = read + k - Size
    BY <1>1, <1>3, <1>5, <2>1, Numbers
  <2>a. ReadCount \in Nat /\ read \in Nat /\ Size \in Nat
    BY Numbers
  <2>b. k - ReadCount = read + k - Size /\ k - ReadCount \in Int /\ 0 <= k - ReadCount
    BY <1>1, <1>5, <2>1, <2>a
  <2>3. read + k - Size = k - ReadCount /\ k - ReadCount \in Cells
    BY <1>1, <2>a, <2>b DEF Cells
  <2>4. ~ (k < ReadCount)
    BY <1>1, <1>5, Numbers
  <2> QED BY <2>2, <2>3, <2>4
<1> QED BY <1>1, <1>4, <1>5, Numbers

\* A byte that Read takes is in its cell.
LEMMA Taken ==
  ASSUME IInv, rpc \in {"copy", "wrap", "advance"}, NEW k \in 0 .. amount - 1
  PROVE  /\ buffer[Mask(consumed + k)] = log[consumed + k + 1]
         /\ log[consumed + k + 1] \in Bytes
<1>1. consumed + k \in consumed .. Len(log) - 1
  BY Numbers, Takes
<1>2. consumed + k + 1 \in 1 .. Len(log) /\ log \in Seq(Bytes)
  BY <1>1, Numbers DEF IInv, TypeOK
<1>3. log[consumed + k + 1] \in Bytes
  BY <1>2, ElementOfSeq
<1> QED BY <1>1, <1>3 DEF IInv, Contents

-----------------------------------------------------------------------------
(* Every step keeps IInv *)

\* Before the first call both positions are 0 and nothing was accepted.
LEMMA InitIInv ==
  ASSUME Init
  PROVE  IInv
<1>1. 0 \in Cells /\ Mask(0) = 0
  <2>1. Size \in Nat \ {0}
    BY CircularAssumption
  <2>2. 0 \in Cells /\ 0 = Size * 0 + 0
    BY <2>1 DEF Cells
  <2> QED BY <2>2, MaskUnique
<1>2. Len(<< >>) = 0 /\ << >> \in Seq(Bytes) /\ << >> \in Seq(Bytes \cup {NoByte})
  BY EmptySeq
<1>3. TypeOK
  BY <1>1, <1>2 DEF Init, TypeOK
<1>4. Contents
  BY <1>1, <1>2, CircularAssumption DEF Init, Contents
<1>5. WriterKnows /\ ReaderKnows
  BY DEF Init, WriterKnows, ReaderKnows
<1> QED BY <1>3, <1>4, <1>5 DEF IInv

\* A call of TryWrite keeps the invariant: it only sets its own data.
LEMMA StartWriteKeeps ==
  ASSUME IInv, NEW d \in Data, StartWrite(d)
  PROVE  IInv'
<1>1. d \in Seq(Bytes)
  <2>1. PICK n \in Requests : d \in [1 .. n -> Bytes]
    BY DEF Data
  <2>2. n \in Nat
    BY CircularAssumption
  <2> QED BY <2>1, <2>2, SeqDef
<1>2. TypeOK'
  BY <1>1 DEF IInv, TypeOK, StartWrite, shared, readVars, Cells
<1>3. Contents'
  BY DEF IInv, Contents, StartWrite, shared, readVars, Cells, Mask
<1>4. WriterKnows'
  BY DEF WriterKnows, StartWrite
<1>5. ReaderKnows'
  BY DEF IInv, ReaderKnows, StartWrite, shared, readVars, Mask, ReadCount
<1> QED BY <1>2, <1>3, <1>4, <1>5 DEF IInv

\* The load of _read keeps the invariant: the tail is the reader's position.
LEMMA WriteLoadKeeps ==
  ASSUME IInv, WriteLoad
  PROVE  IInv'
<1>1. TypeOK'
  BY DEF IInv, TypeOK, WriteLoad, shared, readVars, Cells
<1>2. Contents'
  BY DEF IInv, Contents, WriteLoad, shared, readVars, Mask
<1>3. WriterKnows'
  <2>1. consumed \in 0 .. consumed /\ read = Mask(consumed) /\ Len(log) - consumed < Size
    BY Numbers DEF IInv, Contents
  <2>2. /\ wtail' = read /\ wpc' = "check" /\ consumed' = consumed /\ log' = log
    BY DEF WriteLoad
  <2>3. \E t \in 0 .. consumed' : wtail' = Mask(t) /\ Len(log') - t < Size
    BY <2>1, <2>2
  <2> QED BY <2>2, <2>3 DEF WriterKnows, Mask
<1>4. ReaderKnows'
  BY DEF IInv, ReaderKnows, WriteLoad, shared, readVars, Mask, ReadCount
<1> QED BY <1>1, <1>2, <1>3, <1>4 DEF IInv

\* The comparison keeps the invariant: what TryWrite takes for free is free.
LEMMA WriteCheckKeeps ==
  ASSUME IInv, WriteCheck
  PROVE  IInv'
<1>1. TypeOK'
  BY DEF IInv, TypeOK, WriteCheck, shared, readVars, Cells
<1>2. Contents'
  BY DEF IInv, Contents, WriteCheck, shared, readVars, Mask
<1>3. WriterKnows'
  <2>1. PICK t \in 0 .. consumed : wtail = Mask(t) /\ Len(log) - t < Size
    BY DEF IInv, WriterKnows, WriteCheck
  <2>2. t \in Int /\ Len(log) \in Int /\ t <= Len(log)
    BY Numbers
  <2>3. Available = Size - (Len(log) - t)
    <3>1. write = Mask(Len(log))
      BY DEF IInv, Contents
    <3> QED BY <2>1, <2>2, <3>1, MaskDiff DEF Available
  <2>4. CASE Len(data) < Available
    <3>1. Len(log) - t + Len(data) < Size
      BY <2>2, <2>3, <2>4, Numbers
    <3>2. /\ wpc' = "copy" /\ wtail' = wtail /\ consumed' = consumed
          /\ log' = log /\ data' = data
      BY <2>4 DEF WriteCheck
    <3> QED BY <2>1, <3>1, <3>2 DEF WriterKnows, Mask
  <2>5. CASE ~ (Len(data) < Available)
    BY <2>5 DEF WriterKnows, WriteCheck
  <2> QED BY <2>4, <2>5
<1>4. ReaderKnows'
  BY DEF IInv, ReaderKnows, WriteCheck, shared, readVars, Mask, ReadCount
<1> QED BY <1>1, <1>2, <1>3, <1>4 DEF IInv

\* The copy before the end of the array keeps the invariant: no unread byte is
\* in its way.
LEMMA WriteCopyKeeps ==
  ASSUME IInv, WriteCopy
  PROVE  IInv'
<1>0. /\ Len(log) \in Nat /\ Len(data) \in Nat /\ consumed \in Nat /\ consumed <= Len(log)
      /\ Size \in Nat /\ write \in Nat /\ WriteCount \in Nat /\ WriteCount <= Len(data)
  BY Numbers
<1>1. wpc = "copy" /\ wpc' = "wrap" /\ UNCHANGED <<write, read, wtail, data, readVars, log, consumed>>
  BY DEF WriteCopy
<1>2. /\ data \in Seq(Bytes) /\ buffer \in [Cells -> Bytes \cup {NoByte}]
  BY DEF IInv, TypeOK
<1>3. \A i \in Cells : buffer'[i] = IF i \in write .. write + WriteCount - 1
                                    THEN data[i - write + 1] ELSE buffer[i]
  BY DEF WriteCopy
<1>4. TypeOK'
  <2>1. \A i \in write .. write + WriteCount - 1 : data[i - write + 1] \in Bytes
    <3>1. TAKE i \in write .. write + WriteCount - 1
    <3>2. i - write + 1 \in 1 .. Len(data)
      BY Numbers
    <3> QED BY <1>2, <3>2, ElementOfSeq
  <2>2. buffer' \in [Cells -> Bytes \cup {NoByte}]
    BY <1>2, <2>1 DEF WriteCopy
  <2> QED BY <1>1, <2>2 DEF IInv, TypeOK, readVars, Cells
<1>5. Contents'
  <2>1. ASSUME NEW t \in consumed .. Len(log) - 1
        PROVE  buffer'[Mask(t)] = log[t + 1]
    <3>1. t \in Int /\ Mask(t) \in Cells /\ Mask(t) \in Int
      BY Numbers, MaskType
    <3>2. Mask(t) \notin write .. write + WriteCount - 1
      <4>1. SUFFICES ASSUME Mask(t) \in write .. write + WriteCount - 1
                     PROVE  FALSE
        OBVIOUS
      <4> DEFINE k == Mask(t) - write
      <4>2. k \in 0 .. Len(data) - 1 /\ k < WriteCount /\ Mask(t) = write + k
        BY <1>0, <3>1, <4>1
      <4>3. Mask(Len(log) + k) = Mask(t)
        BY <1>1, <4>2, WriteCells
      <4>4. /\ Len(log) + k \in Int /\ t < Len(log) /\ Len(log) <= Len(log) + k
            /\ consumed <= Len(log) + k /\ Len(log) + k < Len(log) + Len(data)
            /\ consumed <= t /\ t < Len(log) + Len(data)
        BY <1>0, <3>1, <4>2
      <4>5. Len(log) + k = t
        BY <1>1, <3>1, <4>3, <4>4, Apart
      <4> QED BY <3>1, <4>4, <4>5
    <3>3. buffer[Mask(t)] = log[t + 1]
      BY DEF IInv, Contents
    <3> QED BY <1>3, <3>1, <3>2, <3>3
  <2> QED BY <1>1, <2>1 DEF IInv, Contents, Mask
<1>6. WriterKnows'
  <2>1. ASSUME NEW k \in 0 .. WriteCount - 1
        PROVE  buffer'[Mask(Len(log) + k)] = data[k + 1]
    <3>1. k \in 0 .. Len(data) - 1 /\ k < WriteCount
      BY Numbers
    <3>2. Mask(Len(log) + k) = write + k /\ write + k \in Cells
      BY <1>1, <3>1, WriteCells
    <3>3. write + k \in write .. write + WriteCount - 1
      BY <1>0, <3>1
    <3>4. buffer'[write + k] = data[k + 1]
      <4>1. \A i \in Cells : i \in write .. write + WriteCount - 1 => buffer'[i] = data[i - write + 1]
        BY <1>3
      <4>2. PICK i \in Cells : i = write + k
        BY <3>2
      <4>3. buffer'[i] = data[i - write + 1]
        BY <3>3, <4>1, <4>2
      <4>4. i - write + 1 = k + 1
        BY <1>0, <3>1, <4>2
      <4> QED BY <4>2, <4>3, <4>4
    <3> QED BY <3>2, <3>4
  <2>2. WriteCount' = WriteCount
    BY <1>1 DEF WriteCount
  <2> QED BY <1>1, <2>1, <2>2 DEF IInv, WriterKnows, Mask
<1>7. ReaderKnows'
  BY <1>1 DEF IInv, ReaderKnows, readVars, Mask, ReadCount
<1> QED BY <1>4, <1>5, <1>6, <1>7 DEF IInv

\* So does the copy to the beginning of the array, and the first part stays
\* where it is.
LEMMA WriteWrapKeeps ==
  ASSUME IInv, WriteWrap
  PROVE  IInv'
<1>0. /\ Len(log) \in Nat /\ Len(data) \in Nat /\ consumed \in Nat /\ consumed <= Len(log)
      /\ Size \in Nat /\ write \in Nat /\ WriteCount \in Nat /\ WriteCount <= Len(data)
  BY Numbers
<1>1. wpc = "wrap" /\ wpc' = "publish" /\ UNCHANGED <<write, read, wtail, data, readVars, log, consumed>>
  BY DEF WriteWrap
<1>2. /\ data \in Seq(Bytes) /\ buffer \in [Cells -> Bytes \cup {NoByte}]
  BY DEF IInv, TypeOK
<1>3. \A i \in Cells : buffer'[i] = IF i < Len(data) - WriteCount
                                    THEN data[WriteCount + i + 1] ELSE buffer[i]
  BY DEF WriteWrap
<1>4. TypeOK'
  <2>1. \A i \in Cells : i < Len(data) - WriteCount => data[WriteCount + i + 1] \in Bytes
    <3>1. SUFFICES ASSUME NEW i \in Cells, i < Len(data) - WriteCount
                   PROVE  data[WriteCount + i + 1] \in Bytes
      OBVIOUS
    <3>2. WriteCount + i + 1 \in 1 .. Len(data)
      BY <3>1, Numbers DEF Cells
    <3> QED BY <1>2, <3>2, ElementOfSeq
  <2>2. buffer' \in [Cells -> Bytes \cup {NoByte}]
    BY <1>2, <2>1 DEF WriteWrap
  <2> QED BY <1>1, <2>2 DEF IInv, TypeOK, readVars, Cells
<1>5. ASSUME NEW s \in Int, consumed <= s, s < Len(log) + WriteCount
      PROVE  buffer'[Mask(s)] = buffer[Mask(s)]
  <2>1. Mask(s) \in Cells /\ Mask(s) \in Int
    BY MaskType
  <2>2. ~ (Mask(s) < Len(data) - WriteCount)
    <3>1. SUFFICES ASSUME Mask(s) < Len(data) - WriteCount
                   PROVE  FALSE
      OBVIOUS
    <3> DEFINE k == Mask(s) + WriteCount
    <3>2. k \in 0 .. Len(data) - 1 /\ k >= WriteCount /\ Mask(s) = k - WriteCount
      BY <1>0, <2>1, <3>1 DEF Cells
    <3>3. Mask(Len(log) + k) = Mask(s)
      BY <1>1, <3>2, WriteCells
    <3>4. /\ Len(log) + k \in Int /\ Len(log) + WriteCount <= Len(log) + k
          /\ consumed <= Len(log) + k /\ Len(log) + k < Len(log) + Len(data)
          /\ s < Len(log) + Len(data)
      BY <1>0, <1>5, <3>2
    <3>5. Len(log) + k = s
      BY <1>1, <1>5, <3>3, <3>4, Apart
    <3> QED BY <1>0, <1>5, <3>4, <3>5
  <2> QED BY <1>3, <2>1, <2>2
<1>6. Contents'
  <2>1. ASSUME NEW t \in consumed .. Len(log) - 1
        PROVE  buffer'[Mask(t)] = log[t + 1]
    <3>1. buffer'[Mask(t)] = buffer[Mask(t)]
      BY <1>5, Numbers
    <3> QED BY <3>1 DEF IInv, Contents
  <2> QED BY <1>1, <2>1 DEF IInv, Contents, Mask
<1>7. WriterKnows'
  <2>1. ASSUME NEW k \in 0 .. WriteCount - 1
        PROVE  buffer'[Mask(Len(log) + k)] = data[k + 1]
    <3>1. buffer'[Mask(Len(log) + k)] = buffer[Mask(Len(log) + k)]
      BY <1>5, Numbers
    <3> QED BY <1>1, <3>1 DEF IInv, WriterKnows
  <2>2. ASSUME NEW k \in WriteCount .. Len(data) - 1
        PROVE  buffer'[Mask(Len(log) + k)] = data[k + 1]
    <3>1. k \in 0 .. Len(data) - 1 /\ k >= WriteCount
      BY Numbers
    <3>2. Mask(Len(log) + k) = k - WriteCount /\ k - WriteCount \in Cells
      BY <1>1, <3>1, WriteCells
    <3>3. k - WriteCount < Len(data) - WriteCount /\ WriteCount + (k - WriteCount) + 1 = k + 1
      BY <3>1, Numbers
    <3> QED BY <1>3, <3>2, <3>3
  <2>3. WriteCount' = WriteCount
    BY <1>1 DEF WriteCount
  <2> QED BY <1>1, <2>1, <2>2, <2>3 DEF IInv, WriterKnows, Mask
<1>8. ReaderKnows'
  BY <1>1 DEF IInv, ReaderKnows, readVars, Mask, ReadCount
<1> QED BY <1>4, <1>6, <1>7, <1>8 DEF IInv

\* The store to _write keeps the invariant: the bytes it hands over are in
\* their cells.
LEMMA WritePublishKeeps ==
  ASSUME IInv, WritePublish
  PROVE  IInv'
<1>0. /\ Len(log) \in Nat /\ Len(data) \in Nat /\ consumed \in Nat /\ consumed <= Len(log)
      /\ Size \in Nat /\ WriteCount \in Nat /\ WriteCount <= Len(data)
  BY Numbers
<1>1. /\ wpc = "publish" /\ wpc' = "idle" /\ write' = Mask(write + Len(data)) /\ log' = log \o data
      /\ UNCHANGED <<read, buffer, wtail, data, readVars, consumed>>
  BY DEF WritePublish
<1>2. log \in Seq(Bytes) /\ data \in Seq(Bytes)
  BY DEF IInv, TypeOK
<1>3. /\ log' \in Seq(Bytes) /\ Len(log') = Len(log) + Len(data)
      /\ \A i \in 1 .. Len(log) + Len(data) :
           log'[i] = IF i <= Len(log) THEN log[i] ELSE data[i - Len(log)]
  BY <1>1, <1>2, ConcatProperties
<1>4. write' = Mask(Len(log')) /\ write' \in Cells
  <2>1. write = Mask(Len(log))
    BY DEF IInv, Contents
  <2>2. Mask(write + Len(data)) = Mask(Len(log) + Len(data))
    BY <1>0, <2>1, MaskAdd
  <2>3. Mask(Len(log) + Len(data)) \in Cells
    BY <1>0, MaskType
  <2> QED BY <1>1, <1>3, <2>2, <2>3
<1>5. TypeOK'
  BY <1>1, <1>3, <1>4 DEF IInv, TypeOK, readVars, Cells
<1>6. ASSUME NEW t \in consumed .. Len(log') - 1
      PROVE  buffer[Mask(t)] = log'[t + 1]
  <2>0. t \in Int /\ consumed <= t /\ t < Len(log) + Len(data)
    BY <1>0, <1>3
  <2>1. CASE t < Len(log)
    <3>1. t \in consumed .. Len(log) - 1 /\ t + 1 \in 1 .. Len(log) + Len(data) /\ t + 1 <= Len(log)
      BY <1>0, <2>0, <2>1
    <3>2. log'[t + 1] = log[t + 1]
      BY <1>3, <3>1
    <3> QED BY <3>1, <3>2 DEF IInv, Contents
  <2>2. CASE t >= Len(log)
    <3>1. PICK k \in 0 .. Len(data) - 1 : t = Len(log) + k
      <4>1. t - Len(log) \in 0 .. Len(data) - 1 /\ t = Len(log) + (t - Len(log))
        BY <1>0, <2>0, <2>2
      <4> QED BY <4>1
    <3>2. buffer[Mask(Len(log) + k)] = data[k + 1]
      <4>1. k \in 0 .. WriteCount - 1 \/ k \in WriteCount .. Len(data) - 1
        BY <1>0
      <4> QED BY <1>1, <4>1 DEF IInv, WriterKnows
    <3>3. t + 1 \in 1 .. Len(log) + Len(data) /\ ~ (t + 1 <= Len(log)) /\ t + 1 - Len(log) = k + 1
      BY <1>0, <2>0, <2>2, <3>1
    <3>4. log'[t + 1] = data[k + 1]
      BY <1>3, <3>3
    <3> QED BY <3>1, <3>2, <3>4
  <2> QED BY <1>0, <2>0, <2>1, <2>2
<1>7. Contents'
  <2>1. consumed <= Len(log') /\ Len(log') - consumed < Size
    BY <1>0, <1>1, <1>3, Fits
  <2>2. read = Mask(consumed)
    BY DEF IInv, Contents
  <2> QED BY <1>1, <1>4, <1>6, <2>1, <2>2 DEF Contents, Mask
<1>8. WriterKnows'
  BY <1>1 DEF WriterKnows
<1>9. ReaderKnows'
  <2>1. consumed .. Len(log) \subseteq consumed .. Len(log')
    BY <1>0, <1>3
  <2>2. rpc # "idle" => \E t \in consumed .. Len(log') :
                          rtail = Mask(t) /\ (rpc # "check" => consumed + amount <= t)
    BY <2>1 DEF IInv, ReaderKnows
  <2>3. ASSUME rpc \in {"wrap", "advance"}, NEW k \in 1 .. Len(out)
        PROVE  out[k] = log'[consumed + k]
    <3>1. Len(out) <= amount /\ amount \in Nat /\ Len(out) \in Nat
      BY <2>3, Numbers DEF IInv, ReaderKnows
    <3>2. consumed + amount <= Len(log)
      BY <2>3, Takes
    <3>3. consumed + k \in 1 .. Len(log) + Len(data) /\ consumed + k <= Len(log)
      BY <1>0, <3>1, <3>2
    <3>4. log'[consumed + k] = log[consumed + k]
      BY <1>3, <3>3
    <3> QED BY <2>3, <3>4 DEF IInv, ReaderKnows
  <2>4. ReadCount' = ReadCount
    BY <1>1 DEF ReadCount, readVars
  <2> QED BY <1>1, <2>2, <2>3, <2>4 DEF IInv, ReaderKnows, readVars, Mask
<1> QED BY <1>5, <1>7, <1>8, <1>9 DEF IInv

\* A call of Read keeps the invariant: its tail is the writer's position.
LEMMA StartReadKeeps ==
  ASSUME IInv, NEW size \in Requests, StartRead(size)
  PROVE  IInv'
<1>1. /\ rtail' = write /\ amount' = size /\ rpc' = "check"
      /\ UNCHANGED <<shared, writeVars, out, got, log, consumed>>
  BY DEF StartRead
<1>2. size \in Nat
  BY CircularAssumption
<1>3. TypeOK'
  BY <1>1, <1>2 DEF IInv, TypeOK, shared, writeVars, Cells
<1>4. Contents'
  BY <1>1 DEF IInv, Contents, shared, Mask
<1>5. WriterKnows'
  BY <1>1 DEF IInv, WriterKnows, shared, writeVars, Mask, WriteCount
<1>6. ReaderKnows'
  <2>1. Len(log) \in consumed .. Len(log)
    BY Numbers
  <2>2. write = Mask(Len(log))
    BY DEF IInv, Contents
  <2> QED BY <1>1, <2>1, <2>2 DEF ReaderKnows, Mask
<1> QED BY <1>3, <1>4, <1>5, <1>6 DEF IInv

\* The comparison keeps the invariant: what Read will take was accepted.
LEMMA ReadCheckKeeps ==
  ASSUME IInv, ReadCheck
  PROVE  IInv'
<1>1. /\ rpc = "check" /\ amount' = (IF amount < Unread THEN amount ELSE Unread)
      /\ rpc' = (IF Unread > 0 THEN "copy" ELSE "idle")
      /\ UNCHANGED <<shared, writeVars, rtail, out, got, log, consumed>>
  BY DEF ReadCheck
<1>2. PICK t \in consumed .. Len(log) : rtail = Mask(t)
  BY <1>1 DEF IInv, ReaderKnows
<1>3. t \in Nat /\ consumed \in Nat /\ consumed <= t /\ t - consumed < Size /\ amount \in Nat
  BY <1>2, Numbers
<1>4. Unread = t - consumed
  <2>1. read = Mask(consumed)
    BY DEF IInv, Contents
  <2> QED BY <1>2, <1>3, <2>1, MaskDiff DEF Unread
<1>5. amount' \in Nat /\ consumed + amount' <= t
  BY <1>1, <1>3, <1>4
<1>6. TypeOK'
  BY <1>1, <1>5 DEF IInv, TypeOK, shared, writeVars, Cells
<1>7. Contents'
  BY <1>1 DEF IInv, Contents, shared, Mask
<1>8. WriterKnows'
  BY <1>1 DEF IInv, WriterKnows, shared, writeVars, Mask, WriteCount
<1>9. ReaderKnows'
  <2>1. rpc' \in {"copy", "idle"}
    BY <1>1
  <2> QED BY <1>1, <1>2, <1>5, <2>1 DEF ReaderKnows, Mask
<1> QED BY <1>6, <1>7, <1>8, <1>9 DEF IInv

\* The copy before the end of the array keeps the invariant: what it copies is
\* what was accepted.
LEMMA ReadCopyKeeps ==
  ASSUME IInv, ReadCopy
  PROVE  IInv'
<1>0. /\ consumed \in Nat /\ amount \in Nat /\ read \in Nat
      /\ ReadCount \in Nat /\ ReadCount <= amount
  BY Numbers
<1>1. /\ rpc = "copy" /\ rpc' = "wrap" /\ out' = [k \in 1 .. ReadCount |-> buffer[read + k - 1]]
      /\ UNCHANGED <<shared, writeVars, rtail, amount, got, log, consumed>>
  BY DEF ReadCopy
<1>2. ASSUME NEW k \in 1 .. ReadCount
      PROVE  buffer[read + k - 1] = log[consumed + k] /\ log[consumed + k] \in Bytes
  <2>1. PICK j \in 0 .. amount - 1 : j = k - 1 /\ j < ReadCount
    BY <1>0
  <2>2. Mask(consumed + j) = read + j
    BY <1>1, <2>1, ReadCells
  <2>3. buffer[Mask(consumed + j)] = log[consumed + j + 1] /\ log[consumed + j + 1] \in Bytes
    BY <1>1, Taken
  <2>4. consumed + j + 1 = consumed + k /\ read + j = read + k - 1
    BY <1>0, <2>1
  <2> QED BY <2>2, <2>3, <2>4
<1>3. /\ out' \in Seq(Bytes \cup {NoByte}) /\ Len(out') = ReadCount
      /\ \A k \in 1 .. ReadCount : out'[k] = log[consumed + k]
  <2>1. out' \in [1 .. ReadCount -> Bytes \cup {NoByte}]
    BY <1>1, <1>2
  <2>2. out' \in Seq(Bytes \cup {NoByte}) /\ Len(out') = ReadCount
    BY <1>0, <2>1, LengthOf
  <2> QED BY <1>1, <1>2, <2>2
<1>4. ReadCount' = ReadCount
  BY <1>1 DEF ReadCount, shared
<1>5. TypeOK'
  BY <1>1, <1>3 DEF IInv, TypeOK, shared, writeVars, Cells
<1>6. Contents'
  BY <1>1 DEF IInv, Contents, shared, Mask
<1>7. WriterKnows'
  BY <1>1 DEF IInv, WriterKnows, shared, writeVars, Mask, WriteCount
<1>8. ReaderKnows'
  BY <1>1, <1>3, <1>4 DEF IInv, ReaderKnows, Mask
<1> QED BY <1>5, <1>6, <1>7, <1>8 DEF IInv

\* So does the copy from the beginning of the array.
LEMMA ReadWrapKeeps ==
  ASSUME IInv, ReadWrap
  PROVE  IInv'
<1>0. /\ consumed \in Nat /\ amount \in Nat /\ read \in Nat
      /\ ReadCount \in Nat /\ ReadCount <= amount
  BY Numbers
<1>1. /\ rpc = "wrap" /\ rpc' = "advance"
      /\ out' = [k \in 1 .. amount |-> IF k <= ReadCount THEN out[k] ELSE buffer[k - ReadCount - 1]]
      /\ UNCHANGED <<shared, writeVars, rtail, amount, got, log, consumed>>
  BY DEF ReadWrap
<1>2. ASSUME NEW k \in 1 .. amount
      PROVE  out'[k] = log[consumed + k] /\ log[consumed + k] \in Bytes
  <2>1. PICK j \in 0 .. amount - 1 : j = k - 1
    BY <1>0
  <2>2. consumed + j + 1 = consumed + k
    BY <1>0, <2>1
  <2>3. buffer[Mask(consumed + j)] = log[consumed + k] /\ log[consumed + k] \in Bytes
    BY <1>1, <2>2, Taken
  <2>4. CASE k <= ReadCount
    <3>1. out'[k] = out[k]
      BY <1>1, <2>4
    <3>2. out[k] = log[consumed + k]
      <4>1. k \in 1 .. Len(out)
        BY <1>0, <1>1, <2>4 DEF IInv, ReaderKnows
      <4> QED BY <1>1, <4>1 DEF IInv, ReaderKnows
    <3> QED BY <2>3, <3>1, <3>2
  <2>5. CASE ~ (k <= ReadCount)
    <3>1. out'[k] = buffer[k - ReadCount - 1]
      BY <1>1, <2>5
    <3>2. j >= ReadCount /\ j - ReadCount = k - ReadCount - 1
      BY <1>0, <2>1, <2>5
    <3>3. Mask(consumed + j) = j - ReadCount
      BY <1>1, <3>2, ReadCells
    <3> QED BY <2>3, <3>1, <3>2, <3>3
  <2> QED BY <2>4, <2>5
<1>3. /\ out' \in Seq(Bytes \cup {NoByte}) /\ Len(out') = amount
      /\ \A k \in 1 .. amount : out'[k] = log[consumed + k]
  <2>1. out' \in [1 .. amount -> Bytes \cup {NoByte}]
    BY <1>1, <1>2
  <2>2. out' \in Seq(Bytes \cup {NoByte}) /\ Len(out') = amount
    BY <1>0, <2>1, LengthOf
  <2> QED BY <1>2, <2>2
<1>5. TypeOK'
  BY <1>1, <1>3 DEF IInv, TypeOK, shared, writeVars, Cells
<1>6. Contents'
  BY <1>1 DEF IInv, Contents, shared, Mask
<1>7. WriterKnows'
  BY <1>1 DEF IInv, WriterKnows, shared, writeVars, Mask, WriteCount
<1>8. ReaderKnows'
  BY <1>1, <1>3 DEF IInv, ReaderKnows, Mask
<1> QED BY <1>5, <1>6, <1>7, <1>8 DEF IInv

\* The store to _read keeps the invariant: it takes exactly what was copied
\* out of what TryWrite may not touch.
LEMMA ReadAdvanceKeeps ==
  ASSUME IInv, ReadAdvance
  PROVE  IInv'
<1>0. /\ consumed \in Nat /\ amount \in Nat /\ Len(log) \in Nat /\ consumed <= Len(log)
      /\ Len(log) - consumed < Size /\ Size \in Nat /\ consumed + amount <= Len(log)
  BY Numbers, Takes DEF ReadAdvance
<1>1. /\ rpc = "advance" /\ rpc' = "idle" /\ read' = Mask(read + amount)
      /\ consumed' = consumed + amount /\ got' = out
      /\ UNCHANGED <<write, buffer, writeVars, rtail, amount, out, log>>
  BY DEF ReadAdvance
<1>2. read' = Mask(consumed') /\ read' \in Cells
  <2>1. read = Mask(consumed)
    BY DEF IInv, Contents
  <2>2. Mask(read + amount) = Mask(consumed + amount) /\ Mask(consumed + amount) \in Cells
    BY <1>0, <2>1, MaskAdd, MaskType
  <2> QED BY <1>1, <2>2
<1>3. got' \in Seq(Bytes)
  <2>1. Len(out) = amount /\ out \in Seq(Bytes \cup {NoByte})
    BY <1>1 DEF IInv, ReaderKnows, TypeOK
  <2>2. ASSUME NEW k \in 1 .. Len(out)
        PROVE  out[k] \in Bytes
    <3>1. PICK j \in 0 .. amount - 1 : j = k - 1
      BY <1>0, <2>1
    <3>2. consumed + j + 1 = consumed + k
      BY <1>0, <2>1, <3>1
    <3>3. log[consumed + k] \in Bytes
      BY <1>1, <3>2, Taken
    <3>4. out[k] = log[consumed + k]
      BY <1>1 DEF IInv, ReaderKnows
    <3> QED BY <3>3, <3>4
  <2>3. out \in [1 .. Len(out) -> Bytes] /\ Len(out) \in Nat
    BY <2>1, <2>2, LenProperties
  <2> QED BY <1>1, <2>3, SeqDef
<1>4. TypeOK'
  BY <1>0, <1>1, <1>2, <1>3 DEF IInv, TypeOK, writeVars, Cells
<1>5. Contents'
  <2>1. consumed' <= Len(log) /\ Len(log) - consumed' < Size
    BY <1>0, <1>1
  <2>2. consumed' .. Len(log) - 1 \subseteq consumed .. Len(log) - 1
    BY <1>0, <1>1
  <2> QED BY <1>1, <1>2, <2>1, <2>2 DEF IInv, Contents, Mask
<1>6. WriterKnows'
  <2>1. 0 .. consumed \subseteq 0 .. consumed'
    BY <1>0, <1>1
  <2>2. WriteCount' = WriteCount
    BY <1>1 DEF WriteCount, writeVars
  <2> QED BY <1>1, <2>1, <2>2 DEF IInv, WriterKnows, writeVars, Mask
<1>7. ReaderKnows'
  BY <1>1 DEF ReaderKnows
<1> QED BY <1>4, <1>5, <1>6, <1>7 DEF IInv

\* Every step of the program, whatever the threads do, keeps the invariant.
LEMMA NextKeeps ==
  ASSUME IInv, [Next]_vars
  PROVE  IInv'
<1>1. CASE \E d \in Data : StartWrite(d)
  BY <1>1, StartWriteKeeps
<1>2. CASE Writer
  BY <1>2, WriteLoadKeeps, WriteCheckKeeps, WriteCopyKeeps, WriteWrapKeeps, WritePublishKeeps
     DEF Writer
<1>3. CASE \E size \in Requests : StartRead(size)
  BY <1>3, StartReadKeeps
<1>4. CASE Reader
  BY <1>4, ReadCheckKeeps, ReadCopyKeeps, ReadWrapKeeps, ReadAdvanceKeeps DEF Reader
<1>5. CASE UNCHANGED vars
  BY <1>5 DEF vars, shared, writeVars, readVars, IInv, TypeOK, Contents, WriterKnows,
        ReaderKnows, Cells, Mask, WriteCount, ReadCount
<1> QED BY <1>1, <1>2, <1>3, <1>4, <1>5 DEF Next

-----------------------------------------------------------------------------
(* The theorems *)

\* The positions always are those of the bytes accepted and read, and the cells
\* between them hold what was accepted, in its order.
THEOREM Invariance == Spec => []IInv
<1>1. Init => IInv
  BY InitIInv
<1>2. IInv /\ [Next]_vars => IInv'
  BY NextKeeps
<1> QED BY <1>1, <1>2, PTL DEF Spec

\* TryWrite and Read never copy to and from one cell at the same time.
THEOREM Exclusion == Spec => []CellExclusion
<1>1. IInv => CellExclusion
  <2>1. SUFFICES ASSUME IInv, NEW c \in Writing, c \in Reading
                 PROVE  FALSE
    BY DEF CellExclusion
  <2>2. /\ Len(log) \in Nat /\ Len(data) \in Nat /\ consumed \in Nat /\ amount \in Nat
        /\ WriteCount \in Nat /\ ReadCount \in Nat
    BY <2>1, Numbers
  <2>3. wpc \in {"copy", "wrap"} /\ \E k \in 0 .. Len(data) - 1 : c = Mask(write + k)
    <3>1. CASE wpc = "copy"
      BY <2>1, <3>1 DEF Writing
    <3>2. CASE wpc = "wrap"
      <4>1. WriteCount .. Len(data) - 1 \subseteq 0 .. Len(data) - 1
        BY <2>2
      <4> QED BY <2>1, <3>2, <4>1 DEF Writing
    <3>3. CASE wpc # "copy" /\ wpc # "wrap"
      BY <2>1, <3>3 DEF Writing
    <3> QED BY <3>1, <3>2, <3>3
  <2>4. rpc \in {"copy", "wrap"} /\ \E k \in 0 .. amount - 1 : c = Mask(read + k)
    <3>1. CASE rpc = "copy"
      BY <2>1, <3>1 DEF Reading
    <3>2. CASE rpc = "wrap"
      <4>1. ReadCount .. amount - 1 \subseteq 0 .. amount - 1
        BY <2>2
      <4> QED BY <2>1, <3>2, <4>1 DEF Reading
    <3>3. CASE rpc # "copy" /\ rpc # "wrap"
      BY <2>1, <3>3 DEF Reading
    <3> QED BY <3>1, <3>2, <3>3
  <2>5. PICK k \in 0 .. Len(data) - 1 : c = Mask(write + k)
    BY <2>3
  <2>6. PICK j \in 0 .. amount - 1 : c = Mask(read + j)
    BY <2>4
  <2>7. c = Mask(Len(log) + k) /\ c = Mask(consumed + j)
    <3>1. write = Mask(Len(log)) /\ read = Mask(consumed)
      BY <2>1 DEF IInv, Contents
    <3> QED BY <2>2, <2>5, <2>6, <3>1, MaskAdd
  <2>8. /\ Len(log) + k \in Int /\ consumed + j \in Int
        /\ consumed <= consumed + j /\ consumed + j < Len(log) /\ Len(log) <= Len(log) + k
        /\ Len(log) + k < Len(log) + Len(data)
    <3>1. consumed + amount <= Len(log)
      BY <2>1, <2>4, Takes
    <3> QED BY <2>2, <3>1
  <2>9. /\ consumed <= Len(log) + k /\ consumed + j < Len(log) + Len(data)
    BY <2>2, <2>8
  <2>10. Len(log) + k = consumed + j
    BY <2>1, <2>3, <2>7, <2>8, <2>9, Apart
  <2> QED BY <2>8, <2>10
<1> QED BY <1>1, Invariance, PTL

\* What is unread when more is accepted.
LEMMA SubSeqConcat ==
  ASSUME NEW S, NEW s \in Seq(S), NEW t \in Seq(S), NEW d \in Nat, d <= Len(s)
  PROVE  SubSeq(s \o t, d + 1, Len(s \o t)) = SubSeq(s, d + 1, Len(s)) \o t
<1> DEFINE l == SubSeq(s \o t, d + 1, Len(s \o t))
           m == SubSeq(s, d + 1, Len(s))
<1>1. l \in Seq(S) /\ Len(l) = Len(s) + Len(t) - d
  OBVIOUS
<1>2. m \in Seq(S) /\ Len(m) = Len(s) - d
  OBVIOUS
<1>3. \A i \in 1 .. Len(s) + Len(t) - d : l[i] = (m \o t)[i]
  OBVIOUS
<1>4. m \o t \in Seq(S) /\ Len(m \o t) = Len(s) + Len(t) - d
  BY <1>2
<1> HIDE DEF l, m
<1>5. l = m \o t
  BY <1>1, <1>3, <1>4, SeqEqual
<1> QED BY <1>5 DEF l, m

\* What is unread when some of it is read, and what was read then.
LEMMA SubSeqSplit ==
  ASSUME NEW S, NEW s \in Seq(S), NEW d \in Nat, NEW n \in Nat, d + n <= Len(s)
  PROVE  LET u == SubSeq(s, d + 1, Len(s))
         IN  /\ u \in Seq(S) /\ Len(u) = Len(s) - d
             /\ \A i \in 1 .. n : SubSeq(u, 1, n)[i] = s[d + i]
             /\ SubSeq(u, 1, n) \in Seq(S) /\ Len(SubSeq(u, 1, n)) = n
             /\ SubSeq(u, n + 1, Len(u)) = SubSeq(s, d + n + 1, Len(s))
<1> DEFINE u == SubSeq(s, d + 1, Len(s))
           a == SubSeq(u, 1, n)
           b == SubSeq(u, n + 1, Len(u))
           e == SubSeq(s, d + n + 1, Len(s))
<1>1. u \in Seq(S) /\ Len(u) = Len(s) - d /\ \A i \in 1 .. Len(s) - d : u[i] = s[d + i]
  OBVIOUS
<1>2. e \in Seq(S) /\ Len(e) = Len(s) - d - n /\ \A i \in 1 .. Len(s) - d - n : e[i] = s[d + n + i]
  OBVIOUS
<1> HIDE DEF u, e
<1>3. a \in Seq(S) /\ Len(a) = n /\ \A i \in 1 .. n : a[i] = u[i]
  BY <1>1
<1>4. b \in Seq(S) /\ Len(b) = Len(s) - d - n /\ \A i \in 1 .. Len(s) - d - n : b[i] = u[n + i]
  <2>1. Len(u) \in Int /\ n + 1 \in Int /\ Len(s) \in Nat
    BY <1>1
  <2>2. \A i \in n + 1 .. Len(u) : u[i] \in S
    <3>1. n + 1 .. Len(u) \subseteq 1 .. Len(u)
      BY <2>1
    <3> QED BY <1>1, <3>1, ElementOfSeq
  <2>3. /\ b \in Seq(S) /\ Len(b) = (IF n + 1 <= Len(u) THEN Len(u) - (n + 1) + 1 ELSE 0)
        /\ \A i \in 1 .. Len(u) - (n + 1) + 1 : b[i] = u[n + 1 + i - 1]
    BY <2>1, <2>2, SubSeqProperties
  <2> HIDE DEF b
  <2>4. Len(b) = Len(s) - d - n
    <3>1. CASE n + 1 <= Len(u)
      <4>1. Len(u) - (n + 1) + 1 = Len(s) - d - n
        BY <1>1, <2>1
      <4> QED BY <2>3, <3>1, <4>1
    <3>2. CASE ~ (n + 1 <= Len(u))
      <4>1. Len(s) - d - n = 0
        <5>1. Len(u) \in Int /\ Len(u) = Len(s) - d /\ d + n <= Len(s)
          BY <1>1, <2>1
        <5>2. Len(u) <= n
          BY <3>2, <5>1
        <5> QED BY <2>1, <5>1, <5>2
      <4> QED BY <2>3, <3>2, <4>1
    <3> QED BY <3>1, <3>2
  <2>5. ASSUME NEW i \in 1 .. Len(s) - d - n
        PROVE  b[i] = u[n + i]
    <3>1. i \in 1 .. Len(u) - (n + 1) + 1 /\ n + 1 + i - 1 = n + i
      BY <1>1, <2>1
    <3> QED BY <2>3, <3>1
  <2> QED BY <2>3, <2>4, <2>5
<1> HIDE DEF a, b
<1>5. \A i \in 1 .. Len(s) - d - n : b[i] = e[i]
  BY <1>1, <1>2, <1>4
<1>6. b = e
  BY <1>2, <1>4, <1>5, SeqEqual
<1>7. \A i \in 1 .. n : a[i] = s[d + i]
  BY <1>1, <1>3
<1> QED BY <1>1, <1>3, <1>6, <1>7 DEF u, a, b, e

\* Seen from outside, the buffer is a stream of at most Size - 1 bytes: the
\* store to _write is the Write of a whole request, the store to _read the
\* Read, and every other step of the code is invisible.
THEOREM Refinement == Spec => ImplementsByteStream
<1>1. Init => Stream!Init
  BY DEF Init, Stream!Init
<1>2. IInv /\ [Next]_vars => [Stream!Next]_<<SubSeq(log, consumed + 1, Len(log)), got>>
  <2> SUFFICES ASSUME IInv, [Next]_vars
               PROVE  Stream!Next \/ UNCHANGED <<SubSeq(log, consumed + 1, Len(log)), got>>
    OBVIOUS
  <2>0. /\ log \in Seq(Bytes) /\ Len(log) \in Nat /\ consumed \in Nat /\ consumed <= Len(log)
        /\ data \in Seq(Bytes) /\ Len(data) \in Nat /\ amount \in Nat /\ Size \in Nat
        /\ Len(log) - consumed < Size
    BY Numbers DEF IInv, TypeOK
  <2> DEFINE stream == SubSeq(log, consumed + 1, Len(log))
  <2>1. stream \in Seq(Bytes) /\ Len(stream) = Len(log) - consumed
    BY <2>0
  <2>2. CASE WritePublish
    <3>1. log' = log \o data /\ consumed' = consumed /\ got' = got
      BY <2>2 DEF WritePublish, readVars
    <3>2. stream' = stream \o data
      BY <2>0, <3>1, SubSeqConcat
    <3>3. Len(log) - consumed + Len(data) < Size
      BY <2>2, Fits DEF WritePublish
    <3>4. Len(stream) + Len(data) <= Size - 1 /\ Len(data) \in 0 .. Size - 1
      BY <2>0, <2>1, <3>3
    <3>5. data \in [1 .. Len(data) -> Bytes]
      BY <2>0, LenProperties
    <3>6. Stream!Write(data)
      BY <3>1, <3>2, <3>4 DEF Stream!Write
    <3> QED BY <3>4, <3>5, <3>6 DEF Stream!Next
  <2>3. CASE ReadAdvance
    <3>1. log' = log /\ consumed' = consumed + amount /\ got' = out /\ rpc = "advance"
      BY <2>3 DEF ReadAdvance
    <3>2. consumed + amount <= Len(log)
      BY <3>1, Takes
    <3>3. /\ SubSeq(stream, 1, amount) \in Seq(Bytes) /\ Len(SubSeq(stream, 1, amount)) = amount
          /\ \A i \in 1 .. amount : SubSeq(stream, 1, amount)[i] = log[consumed + i]
          /\ SubSeq(stream, amount + 1, Len(stream)) = SubSeq(log, consumed + amount + 1, Len(log))
      BY <2>0, <3>2, SubSeqSplit
    <3>4. stream' = SubSeq(stream, amount + 1, Len(stream))
      BY <3>1, <3>3
    <3>5. out \in Seq(Bytes \cup {NoByte}) /\ Len(out) = amount
          /\ \A i \in 1 .. amount : out[i] = log[consumed + i]
      BY <3>1 DEF IInv, TypeOK, ReaderKnows
    <3>6. SubSeq(stream, 1, amount) \in Seq(Bytes \cup {NoByte})
      <4> DEFINE first == SubSeq(stream, 1, amount)
      <4>1. first \in Seq(Bytes)
        BY <3>3
      <4> HIDE DEF first
      <4>2. first \in [1 .. Len(first) -> Bytes \cup {NoByte}] /\ Len(first) \in Nat
        BY <4>1, LenProperties
      <4>3. first \in Seq(Bytes \cup {NoByte})
        BY <4>2, LengthOf
      <4> QED BY <4>3 DEF first
    <3> HIDE DEF stream
    <3>7. got' = SubSeq(stream, 1, amount)
      <4> DEFINE first == SubSeq(stream, 1, amount)
      <4>1. first \in Seq(Bytes \cup {NoByte}) /\ Len(first) = Len(out)
            /\ \A i \in 1 .. Len(out) : out[i] = first[i]
        BY <3>3, <3>5, <3>6
      <4> HIDE DEF first
      <4>2. out = first
        BY <3>5, <4>1, SeqEqual
      <4> QED BY <3>1, <4>2 DEF first
    <3>8. amount <= Len(stream) /\ amount \in 0 .. Size - 1
      BY <2>0, <2>1, <3>2
    <3>9. Stream!Read(amount)
      BY <3>4, <3>7, <3>8 DEF Stream!Read, stream
    <3> QED BY <3>8, <3>9 DEF Stream!Next
  <2>4. CASE UNCHANGED <<log, consumed, got>>
    BY <2>4
  <2>5. ASSUME ~ WritePublish, ~ ReadAdvance
        PROVE  UNCHANGED <<log, consumed, got>>
    BY <2>5 DEF Next, vars, Writer, Reader, StartWrite, WriteLoad, WriteCheck, WriteCopy,
          WriteWrap, StartRead, ReadCheck, ReadCopy, ReadWrap, shared, writeVars, readVars
  <2> QED BY <2>2, <2>3, <2>4, <2>5
<1> QED BY <1>1, <1>2, Invariance, PTL DEF Spec, ImplementsByteStream, Stream!Spec
=============================================================================
