------------------------ MODULE WebbyConnectionProofs ------------------------
(***************************************************************************)
(* What webby reads and writes on one connection.                          *)
(*                                                                         *)
(* WebsocketFrames: the socket is in the mode that its two users need;     *)
(* frames are found where they begin and their payloads are read unmasked, *)
(* until a handler asks for more than its frame or the buffer holds the    *)
(* beginning of the next one; and a client understands the messages that   *)
(* it is sent.                                                             *)
(*                                                                         *)
(* WebbyResponse: the client gets the bytes of bodies in order, and takes  *)
(* a response for complete when all of it was written.  The invariant says *)
(* that what is pending, on the wire and in the I/O buffer, is what leads  *)
(* the client piece by piece from where it is to where the server is.      *)
(***************************************************************************)
EXTENDS WebsocketFrames, WebbyResponse, SequenceTheorems, Induction

-----------------------------------------------------------------------------
(* The mode of the socket *)

\* Frames handled and messages written are what MakeBlocking was called for.
Users == (IF pc = "frame" THEN 1 ELSE 0) + (IF writing THEN 1 ELSE 0)

\* blocking_count counts them, and the mode follows it.
ModeInv == /\ pc \in {"idle", "frame"} /\ writing \in BOOLEAN
           /\ sock.count = Users
           /\ sock.blocking <=> (pc = "frame" \/ writing)

\* Asking for a blocking socket counts up, and it blocks if it is the first one or did before.
LEMMA Blocking ==
  ASSUME NEW s
  PROVE  /\ MakeBlocking(s).count = s.count + 1
         /\ MakeBlocking(s).blocking <=> (s.count = 0 \/ s.blocking)
  BY Zenon DEF MakeBlocking

\* The last one ends it.
LEMMA Nonblocking ==
  ASSUME NEW s
  PROVE  /\ MakeNonblocking(s).count = s.count - 1
         /\ MakeNonblocking(s).blocking <=> (s.count # 1 /\ s.blocking)
         /\ [MakeNonblocking(s) EXCEPT !.count = 0].count = 0
         /\ [MakeNonblocking(s) EXCEPT !.count = 0].blocking <=> (s.count # 1 /\ s.blocking)
<1>1. /\ MakeNonblocking(s).count = s.count - 1
      /\ MakeNonblocking(s).blocking <=> (s.count # 1 /\ s.blocking)
  BY Zenon DEF MakeNonblocking
<1>2. /\ [MakeNonblocking(s) EXCEPT !.count = 0].count = 0
      /\ [MakeNonblocking(s) EXCEPT !.count = 0].blocking <=> MakeNonblocking(s).blocking
  BY DEF MakeNonblocking
<1> QED BY <1>1, <1>2, Zenon

\* Nobody has asked for a blocking socket at first.
LEMMA InitMode == Init => ModeInv
<1> SUFFICES ASSUME Init PROVE ModeInv
  OBVIOUS
<1>1. pc = "idle" /\ writing = FALSE /\ sock.count = 0
  BY DEF Init
<1>2. ~sock.blocking
  BY Zenon DEF Init
<1>3. Users = 0
  BY <1>1 DEF Users
<1>4. pc # "frame"
  BY <1>1
<1> QED BY <1>1, <1>2, <1>3, <1>4, Zenon DEF ModeInv

\* Every step that makes or ends a user adjusts the count, and the mode with it.
LEMMA NextMode == ModeInv /\ [Next]_vars => ModeInv'
<1> SUFFICES ASSUME ModeInv, [Next]_vars PROVE ModeInv'
  OBVIOUS
<1>0. /\ sock.count = 0 <=> (pc # "frame" /\ ~writing)
      /\ sock.count = 1 <=> ((pc = "frame" /\ ~writing) \/ (pc # "frame" /\ writing))
  BY DEF ModeInv, Users
<1>s. ASSUME UNCHANGED <<pc, writing, sock>> PROVE ModeInv'
  BY <1>s DEF ModeInv, Users
<1>1. ASSUME NEW f \in Frames, SendFrame(f) PROVE ModeInv'
  BY <1>1, <1>s DEF SendFrame, outVars
<1>2. ASSUME NEW n \in 0 .. BufSize, ReadFrame(n) \/ ReadAstray(n) PROVE ModeInv'
  <2>1. pc = "idle" /\ writing = FALSE /\ writing' = writing
    BY <1>2 DEF ReadFrame, ReadAstray, FillBuffer, outVars, ModeInv
  <2>2. CASE pc' = pc /\ sock' = sock
    BY <2>1, <2>2, <1>s
  <2>3. CASE pc' = "frame" /\ sock' = MakeBlocking(sock)
    <3>1. sock'.count = Users'
      BY <2>1, <2>3, Blocking DEF ModeInv, Users
    <3>2. sock'.blocking
      BY <1>0, <2>1, <2>3, Blocking, Zenon
    <3> QED BY <2>1, <2>3, <3>1, <3>2, Zenon DEF ModeInv
  <2> QED BY <1>2, <2>2, <2>3, Zenon DEF ReadFrame, ReadAstray, NoHeaderYet, TakeFrame
<1>3. ASSUME NEW n \in Reads, HandlerRead(n) PROVE ModeInv'
  BY <1>3, <1>s DEF HandlerRead, outVars
<1>r. ASSUME WebbyRead PROVE ModeInv'
  BY <1>r, <1>s DEF WebbyRead, outVars
<1>4. ASSUME FrameDone PROVE ModeInv'
  <2>1. /\ pc = "frame" /\ ~writing /\ pc' = "idle" /\ writing' = writing
        /\ sock' = [MakeNonblocking(sock) EXCEPT !.count = 0]
    BY <1>4 DEF FrameDone, outVars
  <2>2. Users' = 0 /\ pc' # "frame"
    BY <2>1 DEF Users
  <2> QED BY <1>0, <2>1, <2>2, Nonblocking, Zenon DEF ModeInv
<1>5. ASSUME NEW op \in {1, 2}, BeginSocketFrame(op) PROVE ModeInv'
  <2>1. ~writing /\ writing' = TRUE /\ pc' = pc /\ sock' = MakeBlocking(sock)
    BY <1>5 DEF BeginSocketFrame, inVars
  <2>2. sock'.count = Users'
    BY <2>1, Blocking DEF ModeInv, Users
  <2>3. sock'.blocking
    BY <1>0, <2>1, Blocking, Zenon DEF ModeInv
  <2> QED BY <2>1, <2>2, <2>3, Zenon DEF ModeInv
<1>6. ASSUME NEW n \in Sizes, Write(n) PROVE ModeInv'
  BY <1>6, <1>s DEF Write, inVars
<1>7. ASSUME EndSocketFrame PROVE ModeInv'
  <2>1. writing /\ writing' = FALSE /\ pc' = pc /\ sock' = MakeNonblocking(sock)
    BY <1>7 DEF EndSocketFrame, inVars
  <2>2. sock'.count = Users'
    BY <2>1, Nonblocking DEF ModeInv, Users
  <2>3. sock'.blocking <=> pc = "frame"
    BY <1>0, <2>1, Nonblocking, Zenon DEF ModeInv
  <2> QED BY <2>1, <2>2, <2>3, Zenon DEF ModeInv
<1>8. ASSUME Receive PROVE ModeInv'
  BY <1>8, <1>s DEF Receive, inVars, outVars
<1>9. CASE UNCHANGED vars
  BY <1>9, <1>s DEF vars, inVars, outVars
<1> QED BY <1>1, <1>2, <1>3, <1>r, <1>4, <1>5, <1>6, <1>7, <1>8, <1>9, Zenon DEF Next

\* The socket blocks exactly while a frame is handled or a message written,
\* whatever clients send, and however the two overlap.
THEOREM Mode == Spec => []ModeFits
<1>1. ModeInv => ModeFits
  BY DEF ModeInv, ModeFits, Users
<1> QED BY <1>1, InitMode, NextMode, PTL DEF Spec

-----------------------------------------------------------------------------
(* Sequences *)

\* x is s with t behind it, element by element.
Joins(x, s, t) == /\ Len(x) = Len(s) + Len(t)
                  /\ \A i \in 1 .. Len(s) : x[i] = s[i]
                  /\ \A i \in 1 .. Len(t) : x[Len(s) + i] = t[i]

\* What s and t are together.
LEMMA Joined ==
  ASSUME NEW S, NEW s \in Seq(S), NEW t \in Seq(S)
  PROVE  s \o t \in Seq(S) /\ Joins(s \o t, s, t)
<1> DEFINE x == s \o t
<1>1. /\ x \in Seq(S) /\ Len(x) = Len(s) + Len(t)
      /\ \A i \in 1 .. Len(s) + Len(t) : x[i] = IF i <= Len(s) THEN s[i] ELSE t[i - Len(s)]
  BY ConcatProperties
<1> HIDE DEF x
<1>2. Len(s) \in Nat /\ Len(t) \in Nat
  OBVIOUS
<1>3. ASSUME NEW i \in 1 .. Len(s) PROVE x[i] = s[i]
  <2>1. i \in 1 .. Len(s) + Len(t) /\ i <= Len(s)
    BY <1>2
  <2> QED BY <1>1, <2>1
<1>4. ASSUME NEW i \in 1 .. Len(t) PROVE x[Len(s) + i] = t[i]
  <2>1. Len(s) + i \in 1 .. Len(s) + Len(t) /\ ~(Len(s) + i <= Len(s)) /\ (Len(s) + i) - Len(s) = i
    BY <1>2
  <2> QED BY <1>1, <2>1
<1> QED BY <1>1, <1>3, <1>4 DEF x, Joins

\* The n elements of s behind the first m.
LEMMA Cut ==
  ASSUME NEW S, NEW s \in Seq(S), NEW m \in Nat, NEW n \in Nat, m + n <= Len(s)
  PROVE  /\ SubSeq(s, m + 1, m + n) \in Seq(S) /\ Len(SubSeq(s, m + 1, m + n)) = n
         /\ \A i \in 1 .. n : SubSeq(s, m + 1, m + n)[i] = s[m + i]
<1> DEFINE x == SubSeq(s, m + 1, m + n)
<1>1. \A i \in m + 1 .. m + n : s[i] \in S
  <2>1. \A i \in m + 1 .. m + n : i \in 1 .. Len(s)
    OBVIOUS
  <2> QED BY <2>1
<1>2. m + 1 \in Int /\ m + n \in Int
  OBVIOUS
<1>3. /\ x \in Seq(S) /\ Len(x) = IF m + 1 <= m + n THEN (m + n) - (m + 1) + 1 ELSE 0
      /\ \A i \in 1 .. (m + n) - (m + 1) + 1 : x[i] = s[(m + 1) + i - 1]
  BY <1>1, <1>2, SubSeqProperties
<1> HIDE DEF x
<1>4. Len(x) = n
  BY <1>3
<1>5. ASSUME NEW i \in 1 .. n PROVE x[i] = s[m + i]
  <2>1. i \in 1 .. (m + n) - (m + 1) + 1 /\ (m + 1) + i - 1 = m + i
    OBVIOUS
  <2> QED BY <1>3, <2>1
<1> QED BY <1>3, <1>4, <1>5 DEF x

\* When they are those of t, they are t.
LEMMA CutIs ==
  ASSUME NEW S, NEW s \in Seq(S), NEW m \in Nat, NEW t \in Seq(S), m + Len(t) <= Len(s),
         \A i \in 1 .. Len(t) : s[m + i] = t[i]
  PROVE  SubSeq(s, m + 1, m + Len(t)) = t
<1> DEFINE x == SubSeq(s, m + 1, m + Len(t))
<1>1. Len(t) \in Nat
  OBVIOUS
<1>2. x \in Seq(S) /\ Len(x) = Len(t) /\ \A i \in 1 .. Len(t) : x[i] = s[m + i]
  BY <1>1, Cut
<1> HIDE DEF x
<1>3. \A i \in 1 .. Len(x) : x[i] = t[i]
  BY <1>2
<1>4. x = t
  BY <1>2, <1>3, SeqEqual
<1> QED BY <1>4 DEF x

-----------------------------------------------------------------------------
(* Bytes *)

\* Bytes, and pieces of payloads: a name with one or two numbers.
Byte == ({"is", "data"} \X Nat) \cup ({"key", "hidden", "plain"} \X Nat \X Nat)

\* The number that bytes make is what comes of taking them one after the other.
LEMMA NumberTakes ==
  ASSUME NEW bytes, Len(bytes) \in Nat, \A i \in 1 .. Len(bytes) : bytes[i][2] \in Nat
  PROVE  \E f \in [0 .. Len(bytes) -> Nat] :
           /\ f[0] = 0 /\ Number(bytes) = f[Len(bytes)]
           /\ \A i \in 1 .. Len(bytes) : f[i] = f[i - 1] * 256 + bytes[i][2]
<1> DEFINE N == Len(bytes)
           h == [n \in Nat |-> [x \in Nat |-> IF n \in 1 .. N THEN x * 256 + bytes[n][2] ELSE x]]
           Good(f) == f = [i \in 0 .. N |-> IF i = 0 THEN 0 ELSE f[i - 1] * 256 + bytes[i][2]]
           number == CHOOSE f : Good(f)
<1>1. h \in [Nat -> [Nat -> Nat]]
  OBVIOUS
<1>2. Recursions(Nat, 0, h, N) # {}
  <2> HIDE DEF h
  <2> QED BY <1>1, RecursionsExist
<1>3. PICK f \in [0 .. N -> Nat] : f[0] = 0 /\ \A n \in 1 .. N : f[n] = h[n][f[n - 1]]
  <2> HIDE DEF h
  <2> QED BY <1>2 DEF Recursions
<1>4. ASSUME NEW n \in 1 .. N PROVE f[n] = f[n - 1] * 256 + bytes[n][2]
  <2>1. n \in Nat /\ n - 1 \in 0 .. N
    OBVIOUS
  <2> QED BY <1>3, <2>1
<1>5. Good(f)
  <2> DEFINE g == [i \in 0 .. N |-> IF i = 0 THEN 0 ELSE f[i - 1] * 256 + bytes[i][2]]
  <2>1. ASSUME NEW i \in 0 .. N PROVE f[i] = g[i]
    <3>1. i = 0 \/ i \in 1 .. N
      OBVIOUS
    <3> QED BY <1>3, <1>4, <3>1
  <2>2. f = g
    <3> HIDE DEF g
    <3>1. g = [i \in 0 .. N |-> g[i]]
      BY DEF g
    <3> QED BY <1>3, <2>1, <3>1
  <2> QED BY <2>2
<1>6. Good(number)
  <2> HIDE DEF Good
  <2> QED BY <1>5
<1>7. Number(bytes) = number[N]
  BY DEF Number
<1>8. number[0] = 0 /\ \A i \in 1 .. N : number[i] = number[i - 1] * 256 + bytes[i][2]
  <2> HIDE DEF number
  <2>1. 0 \in 0 .. N /\ \A i \in 1 .. N : i \in 0 .. N /\ i # 0
    OBVIOUS
  <2> QED BY <1>6, <2>1
<1>9. number = f
  <2> DEFINE T == {n \in Nat : n \in 0 .. N => number[n] = f[n]}
  <2> HIDE DEF number
  <2>1. 0 \in T
    BY <1>3, <1>8
  <2>2. ASSUME NEW n \in Nat, n \in T PROVE n + 1 \in T
    <3> SUFFICES ASSUME n + 1 \in 0 .. N PROVE number[n + 1] = f[n + 1]
      OBVIOUS
    <3>1. n + 1 \in 1 .. N /\ (n + 1) - 1 = n /\ number[n] = f[n]
      BY <2>2
    <3> QED BY <1>4, <1>8, <3>1
  <2>3. Nat \subseteq T
    <3> HIDE DEF T
    <3> QED BY <2>1, <2>2, SetInduction
  <2>4. \A n \in 0 .. N : number[n] = f[n]
    BY <2>3
  <2>5. number = [n \in 0 .. N |-> number[n]]
    BY <1>6
  <2> QED BY <1>3, <2>4, <2>5
<1> QED BY <1>3, <1>4, <1>7, <1>9

\* A number is made of its low byte and of the rest.
LEMMA LowByte ==
  ASSUME NEW n \in Nat
  PROVE  n \div 256 \in Nat /\ n % 256 \in Nat /\ ((n \div 256) * 256) + (n % 256) = n
  BY SMT

\* What two bytes make.
LEMMA TwoBytes ==
  ASSUME NEW b, Len(b) = 2, b[1][2] \in Nat, b[2][2] \in Nat
  PROVE  Number(b) = (b[1][2] * 256) + b[2][2]
<1> DEFINE n1 == b[1][2]
           n2 == b[2][2]
<1>1. b[1][2] = n1 /\ b[2][2] = n2 /\ n1 \in Nat /\ n2 \in Nat
  OBVIOUS
<1> HIDE DEF n1, n2
<1>2. \A i \in 1 .. Len(b) : b[i][2] \in Nat
  <2> SUFFICES ASSUME NEW i \in 1 .. Len(b) PROVE b[i][2] \in Nat
    OBVIOUS
  <2>1. i = 1 \/ i = 2
    OBVIOUS
  <2> QED BY <1>1, <2>1
<1>3. PICK f \in [0 .. Len(b) -> Nat] : /\ f[0] = 0 /\ Number(b) = f[Len(b)]
                                        /\ \A i \in 1 .. Len(b) : f[i] = f[i - 1] * 256 + b[i][2]
  <2>1. Len(b) \in Nat
    OBVIOUS
  <2>2. \E f \in [0 .. Len(b) -> Nat] : /\ f[0] = 0 /\ Number(b) = f[Len(b)]
                                      /\ \A i \in 1 .. Len(b) : f[i] = f[i - 1] * 256 + b[i][2]
    BY <1>2, <2>1, NumberTakes, Zenon
  <2> QED BY <2>2
<1>4. f[1] = n1
  BY <1>1, <1>3
<1>5. f[2] = (n1 * 256) + n2
  BY <1>1, <1>3, <1>4
<1> QED BY <1>1, <1>3, <1>5

\* What eight bytes make that begin with zeros.
LEMMA EightBytes ==
  ASSUME NEW b, Len(b) = 8, b[1][2] = 0, b[2][2] = 0, b[3][2] = 0, b[4][2] = 0,
         b[5][2] \in Nat, b[6][2] \in Nat, b[7][2] \in Nat, b[8][2] \in Nat
  PROVE  Number(b) = (((((b[5][2] * 256) + b[6][2]) * 256) + b[7][2]) * 256) + b[8][2]
<1> DEFINE n5 == b[5][2]
           n6 == b[6][2]
           n7 == b[7][2]
           n8 == b[8][2]
<1>1. /\ b[1][2] = 0 /\ b[2][2] = 0 /\ b[3][2] = 0 /\ b[4][2] = 0
      /\ b[5][2] = n5 /\ b[6][2] = n6 /\ b[7][2] = n7 /\ b[8][2] = n8
      /\ n5 \in Nat /\ n6 \in Nat /\ n7 \in Nat /\ n8 \in Nat
  OBVIOUS
<1> HIDE DEF n5, n6, n7, n8
<1>2. \A i \in 1 .. Len(b) : b[i][2] \in Nat
  <2> SUFFICES ASSUME NEW i \in 1 .. Len(b) PROVE b[i][2] \in Nat
    OBVIOUS
  <2>1. i = 1 \/ i = 2 \/ i = 3 \/ i = 4 \/ i = 5 \/ i = 6 \/ i = 7 \/ i = 8
    OBVIOUS
  <2> QED BY <1>1, <2>1
<1>3. PICK f \in [0 .. Len(b) -> Nat] : /\ f[0] = 0 /\ Number(b) = f[Len(b)]
                                        /\ \A i \in 1 .. Len(b) : f[i] = f[i - 1] * 256 + b[i][2]
  <2>1. Len(b) \in Nat
    OBVIOUS
  <2>2. \E f \in [0 .. Len(b) -> Nat] : /\ f[0] = 0 /\ Number(b) = f[Len(b)]
                                      /\ \A i \in 1 .. Len(b) : f[i] = f[i - 1] * 256 + b[i][2]
    BY <1>2, <2>1, NumberTakes, Zenon
  <2> QED BY <2>2
<1>4. f[1] = 0
  BY <1>1, <1>3
<1>5. f[2] = 0
  BY <1>1, <1>3, <1>4
<1>6. f[3] = 0
  BY <1>1, <1>3, <1>5
<1>7. f[4] = 0
  BY <1>1, <1>3, <1>6
<1>8. f[5] = n5
  BY <1>1, <1>3, <1>7
<1>9. f[6] = (n5 * 256) + n6
  BY <1>1, <1>3, <1>8
<1>10. f[7] = (((n5 * 256) + n6) * 256) + n7
  BY <1>1, <1>3, <1>9
<1>11. f[8] = (((((n5 * 256) + n6) * 256) + n7) * 256) + n8
  BY <1>1, <1>3, <1>10
<1> QED BY <1>1, <1>3, <1>11

\* The bytes of a length that two bytes hold.
LEMMA ShortLength ==
  ASSUME NEW n \in Nat, n < 65536
  PROVE  /\ n \div 256 \in Nat /\ (n \div 256) % 256 = n \div 256 /\ n % 256 \in Nat
         /\ ((n \div 256) * 256) + (n % 256) = n
  BY SMT

\* The bytes of a length that an int holds.
LEMMA LongLength ==
  ASSUME NEW n \in Lengths
  PROVE  /\ n \in Nat /\ n \div 16777216 \in Nat /\ (n \div 16777216) % 256 = n \div 16777216
         /\ (n \div 65536) % 256 \in Nat /\ (n \div 256) % 256 \in Nat /\ n % 256 \in Nat
         /\ (((((((n \div 16777216) * 256) + ((n \div 65536) % 256)) * 256)
               + ((n \div 256) % 256)) * 256) + (n % 256)) = n
<1> DEFINE n3 == n \div 16777216
           n2 == n \div 65536
           n1 == n \div 256
<1>1. n \in Nat /\ n <= 2147483647
  BY SMT DEF Lengths
<1>2. n3 \in Nat /\ n3 < 256 /\ n2 \in Nat /\ n1 \in Nat
  BY <1>1, SMT
<1>3. n2 = n1 \div 256
  BY <1>1, SMT
<1>4. n3 = n2 \div 256
  BY <1>1, SMT
<1> HIDE DEF n1, n2, n3
<1>5. n3 % 256 = n3
  BY <1>2, SMT
<1>6. /\ n2 % 256 \in Nat /\ n1 % 256 \in Nat /\ n % 256 \in Nat
      /\ (n3 * 256) + (n2 % 256) = n2
  BY <1>1, <1>2, <1>4, LowByte, SMT
<1>7. (n2 * 256) + (n1 % 256) = n1
  BY <1>2, <1>3, LowByte, SMT
<1>8. (n1 * 256) + (n % 256) = n
  BY <1>1, LowByte, SMT DEF n1
<1>9. ((((((n3 * 256) + (n2 % 256)) * 256) + (n1 % 256)) * 256) + (n % 256)) = n
  BY <1>6, <1>7, <1>8, SMT
<1> QED BY <1>1, <1>2, <1>5, <1>6, <1>9, SMT DEF n1, n2, n3

-----------------------------------------------------------------------------
(* Headers *)

\* How many bytes follow the second one to tell the length n,
More(n) == IF n < 126 THEN 0 ELSE IF n < 65536 THEN 2 ELSE 8

\* what the second one says,
Code(n) == IF n < 126 THEN n ELSE IF n < 65536 THEN 126 ELSE 127

\* and what the others do.
Extra(n) ==
  IF n < 126 THEN << >>
  ELSE IF n < 65536 THEN <<Is(n \div 256), Is(n % 256)>>
  ELSE <<Is(0), Is(0), Is(0), Is(0), Is(n \div 16777216),
         Is((n \div 65536) % 256), Is((n \div 256) % 256), Is(n % 256)>>

\* A number's byte is a byte.
LEMMA IsByte == \A n \in Nat : Is(n) \in Byte /\ Is(n)[2] = n
<1> SUFFICES ASSUME NEW n \in Nat PROVE Is(n) \in Byte /\ Is(n)[2] = n
  OBVIOUS
<1>1. <<"is", n>> \in {"is", "data"} \X Nat
  OBVIOUS
<1>2. Is(n) \in Byte
  BY <1>1, Zenon DEF Is, Byte
<1> QED BY <1>2 DEF Is

\* The bytes that tell a length make it.
LEMMA ExtraTells ==
  ASSUME NEW n \in Lengths
  PROVE  /\ n \in Nat /\ More(n) \in {0, 2, 8} /\ Code(n) \in 0 .. 127
         /\ Extra(n) \in Seq(Byte) /\ Len(Extra(n)) = More(n)
         /\ n < 126 => Code(n) = n /\ More(n) = 0
         /\ n >= 126 => Number(Extra(n)) = n
         /\ \A b : b[2] % 128 = Code(n) => LengthBytes(b) = More(n)
<1>1. n \in Nat
  BY LongLength
<1>2. CASE n < 126
  <2>1. Code(n) = n /\ More(n) = 0 /\ Extra(n) = << >>
    BY <1>1, <1>2, SMT DEF More, Code, Extra
  <2>2. n # 126 /\ n # 127 /\ n \in 0 .. 127 /\ ~(n >= 126)
    BY <1>1, <1>2, SMT
  <2>4. \A b : b[2] % 128 = Code(n) => LengthBytes(b) = More(n)
    BY <2>1, <2>2, SMT DEF LengthBytes
  <2>3. << >> \in Seq(Byte) /\ Len(<< >>) = 0
    BY SMT
  <2> QED BY <1>1, <2>1, <2>2, <2>3, <2>4, SMT
<1>3. CASE n >= 126 /\ n < 65536
  <2> DEFINE a == n \div 256
             c == n % 256
  <2>1. a \in Nat /\ c \in Nat /\ (a * 256) + c = n
    BY <1>1, <1>3, ShortLength, SMT
  <2>2. Extra(n) = <<Is(a), Is(c)>> /\ More(n) = 2 /\ Code(n) = 126
    BY <1>1, <1>3, SMT DEF More, Code, Extra
  <2> HIDE DEF a, c
  <2>3. Is(a) \in Byte /\ Is(c) \in Byte
    BY <2>1, IsByte
  <2>4. Extra(n) \in Seq(Byte) /\ Len(Extra(n)) = 2 /\ Extra(n)[1] = Is(a) /\ Extra(n)[2] = Is(c)
    BY <2>2, <2>3, SMT
  <2>5. Number(Extra(n)) = n
    <3>1. Extra(n)[1][2] = a /\ Extra(n)[2][2] = c
      BY <2>1, <2>4, IsByte, SMT
    <3> QED BY <2>1, <2>4, <3>1, TwoBytes, SMT
  <2>6. \A b : b[2] % 128 = Code(n) => LengthBytes(b) = More(n)
    BY <2>2, SMT DEF LengthBytes
  <2> QED BY <1>1, <1>3, <2>2, <2>4, <2>5, <2>6, SMT
<1>4. CASE n >= 65536
  <2> DEFINE a == n \div 16777216
             c == (n \div 65536) % 256
             d == (n \div 256) % 256
             e == n % 256
  <2>1. a \in Nat /\ c \in Nat /\ d \in Nat /\ e \in Nat
        /\ (((((a * 256) + c) * 256) + d) * 256) + e = n
    BY LongLength, SMT
  <2>2. /\ Extra(n) = <<Is(0), Is(0), Is(0), Is(0), Is(a), Is(c), Is(d), Is(e)>>
        /\ More(n) = 8 /\ Code(n) = 127
    BY <1>1, <1>4, SMT DEF More, Code, Extra
  <2> HIDE DEF a, c, d, e
  <2>3. Is(0) \in Byte /\ Is(a) \in Byte /\ Is(c) \in Byte /\ Is(d) \in Byte /\ Is(e) \in Byte
    BY <2>1, IsByte
  <2>4. /\ Extra(n) \in Seq(Byte) /\ Len(Extra(n)) = 8
        /\ Extra(n)[1] = Is(0) /\ Extra(n)[2] = Is(0) /\ Extra(n)[3] = Is(0) /\ Extra(n)[4] = Is(0)
        /\ Extra(n)[5] = Is(a) /\ Extra(n)[6] = Is(c) /\ Extra(n)[7] = Is(d) /\ Extra(n)[8] = Is(e)
    BY <2>2, <2>3, SMT
  <2>5. Number(Extra(n)) = (((((a * 256) + c) * 256) + d) * 256) + e
    <3>1. /\ Extra(n)[1][2] = 0 /\ Extra(n)[2][2] = 0 /\ Extra(n)[3][2] = 0 /\ Extra(n)[4][2] = 0
          /\ Extra(n)[5][2] = a /\ Extra(n)[6][2] = c /\ Extra(n)[7][2] = d /\ Extra(n)[8][2] = e
      BY <2>1, <2>4, IsByte, SMT
    <3>2. /\ Extra(n)[5][2] \in Nat /\ Extra(n)[6][2] \in Nat /\ Extra(n)[7][2] \in Nat
          /\ Extra(n)[8][2] \in Nat
      BY <2>1, <3>1, SMT
    <3>3. Len(Extra(n)) = 8
      BY <2>4, Zenon
    <3>4. Number(Extra(n)) = (((((Extra(n)[5][2] * 256) + Extra(n)[6][2]) * 256)
                               + Extra(n)[7][2]) * 256) + Extra(n)[8][2]
      BY <3>1, <3>2, <3>3, EightBytes
    <3> QED BY <3>1, <3>4, Zenon
  <2>6. Number(Extra(n)) = n
    BY <2>1, <2>5, SMT
  <2>7. ~(n < 126)
    BY <1>1, <1>4, SMT
  <2>8. \A b : b[2] % 128 = Code(n) => LengthBytes(b) = More(n)
    BY <2>2, SMT DEF LengthBytes
  <2> QED BY <1>1, <2>2, <2>4, <2>6, <2>7, <2>8, SMT
<1> QED BY <1>1, <1>2, <1>3, <1>4, SMT

\* What a byte and the bytes behind it are together.
LEMMA Prepended ==
  ASSUME NEW a \in Byte, NEW s \in Seq(Byte)
  PROVE  /\ <<a>> \o s \in Seq(Byte) /\ Len(<<a>> \o s) = Len(s) + 1
         /\ (<<a>> \o s)[1] = a /\ \A i \in 1 .. Len(s) : (<<a>> \o s)[i + 1] = s[i]
<1>1. <<a>> \in Seq(Byte) /\ Len(<<a>>) = 1 /\ <<a>>[1] = a
  OBVIOUS
<1>2. /\ <<a>> \o s \in Seq(Byte) /\ Len(<<a>> \o s) = 1 + Len(s)
      /\ \A i \in 1 .. 1 + Len(s) : (<<a>> \o s)[i] = IF i <= 1 THEN <<a>>[1] ELSE s[i - 1]
  <2> DEFINE p == <<a>>
  <2>1. p \in Seq(Byte) /\ Len(p) = 1 /\ p[1] = a
    BY <1>1
  <2> HIDE DEF p
  <2>2. /\ p \o s \in Seq(Byte) /\ Len(p \o s) = Len(p) + Len(s)
        /\ \A i \in 1 .. Len(p) + Len(s) : (p \o s)[i] = IF i <= Len(p) THEN p[i] ELSE s[i - Len(p)]
    BY <2>1, ConcatProperties
  <2>3. \A i \in 1 .. 1 + Len(s) : i <= 1 => i = 1
    OBVIOUS
  <2>4. /\ p \o s \in Seq(Byte) /\ Len(p \o s) = 1 + Len(s)
        /\ \A i \in 1 .. 1 + Len(s) : (p \o s)[i] = IF i <= 1 THEN p[1] ELSE s[i - 1]
    BY <2>1, <2>2, <2>3
  <2> QED BY <2>4 DEF p
<1>3. Len(s) \in Nat
  OBVIOUS
<1>4. \A i \in 1 .. Len(s) : i + 1 \in 1 .. 1 + Len(s) /\ ~(i + 1 <= 1) /\ (i + 1) - 1 = i
  BY <1>3
<1>5. \A i \in 1 .. Len(s) : (<<a>> \o s)[i + 1] = s[i]
  <2> DEFINE q == <<a>> \o s
  <2>1. \A i \in 1 .. 1 + Len(s) : q[i] = IF i <= 1 THEN <<a>>[1] ELSE s[i - 1]
    BY <1>2
  <2> HIDE DEF q
  <2>2. \A i \in 1 .. Len(s) : q[i + 1] = s[i]
    BY <1>4, <2>1
  <2> QED BY <2>2 DEF q
<1>6. (<<a>> \o s)[1] = a
  <2> DEFINE q == <<a>> \o s
  <2>1. \A i \in 1 .. 1 + Len(s) : q[i] = IF i <= 1 THEN <<a>>[1] ELSE s[i - 1]
    BY <1>2
  <2> HIDE DEF q
  <2>2. q[1] = <<a>>[1]
    BY <1>3, <2>1
  <2> QED BY <1>1, <2>2 DEF q
<1> QED BY <1>2, <1>3, <1>5, <1>6

\* A header h of a frame of n bytes, with these first two bytes, and nothing else said.
Heads(h, first, second, n) ==
  /\ h \in Seq(Byte) /\ Len(h) = 2 + More(n) /\ h[1] = first /\ h[2] = second
  /\ \A i \in 1 .. More(n) : h[2 + i] = Extra(n)[i]

\* Tuples of the bytes of a length, after the byte b.
LEMMA LengthTuples ==
  ASSUME NEW b \in Byte, NEW n \in Lengths, NEW t,
         \/ n < 126 /\ t = <<b>>
         \/ n >= 126 /\ n < 65536 /\ t = <<b, Is(n \div 256), Is(n % 256)>>
         \/ n >= 65536 /\ t = <<b, Is(0), Is(0), Is(0), Is(0), Is(n \div 16777216),
                                Is((n \div 65536) % 256), Is((n \div 256) % 256), Is(n % 256)>>
  PROVE  /\ t \in Seq(Byte) /\ Len(t) = 1 + More(n) /\ t[1] = b
         /\ \A i \in 1 .. More(n) : t[i + 1] = Extra(n)[i]
<1>1. n \in Nat
  BY LongLength
<1>2. CASE n < 126 /\ t = <<b>>
  <2>1. More(n) = 0
    BY <1>1, <1>2, SMT DEF More
  <2> QED BY <1>2, <2>1, SMT
<1>3. CASE n >= 126 /\ n < 65536 /\ t = <<b, Is(n \div 256), Is(n % 256)>>
  <2> DEFINE a == n \div 256
             c == n % 256
  <2>1. a \in Nat /\ c \in Nat
    BY <1>1, LowByte, SMT
  <2>2. Extra(n) = <<Is(a), Is(c)>> /\ More(n) = 2 /\ t = <<b, Is(a), Is(c)>>
    BY <1>1, <1>3, SMT DEF More, Extra
  <2> HIDE DEF a, c
  <2>3. Is(a) \in Byte /\ Is(c) \in Byte
    BY <2>1, IsByte
  <2>4. \A i \in 1 .. 2 : i = 1 \/ i = 2
    BY SMT
  <2> QED BY <2>2, <2>3, <2>4, SMT
<1>4. CASE n >= 65536 /\ t = <<b, Is(0), Is(0), Is(0), Is(0), Is(n \div 16777216),
                               Is((n \div 65536) % 256), Is((n \div 256) % 256), Is(n % 256)>>
  <2> DEFINE a == n \div 16777216
             c == (n \div 65536) % 256
             d == (n \div 256) % 256
             e == n % 256
  <2>1. a \in Nat /\ c \in Nat /\ d \in Nat /\ e \in Nat
    BY LongLength, SMT
  <2>2. /\ Extra(n) = <<Is(0), Is(0), Is(0), Is(0), Is(a), Is(c), Is(d), Is(e)>>
        /\ t = <<b, Is(0), Is(0), Is(0), Is(0), Is(a), Is(c), Is(d), Is(e)>>
        /\ More(n) = 8
    BY <1>1, <1>4, SMT DEF More, Extra
  <2> HIDE DEF a, c, d, e
  <2>3. Is(0) \in Byte /\ Is(a) \in Byte /\ Is(c) \in Byte /\ Is(d) \in Byte /\ Is(e) \in Byte
    BY <2>1, IsByte
  <2>4. t \in Seq(Byte) /\ Len(t) = 1 + More(n) /\ t[1] = b
    BY <2>2, <2>3, SMT
  <2>5. ASSUME NEW i \in 1 .. More(n) PROVE t[i + 1] = Extra(n)[i]
    <3>1. i = 1 \/ i = 2 \/ i = 3 \/ i = 4 \/ i = 5 \/ i = 6 \/ i = 7 \/ i = 8
      BY <2>2, SMT
    <3> QED BY <2>2, <3>1, SMT
  <2> QED BY <2>4, <2>5
<1> QED BY <1>2, <1>3, <1>4, SMT

\* A byte and such a tuple are a header.
LEMMA HeadsMade ==
  ASSUME NEW n \in Lengths, NEW a \in Byte, NEW b \in Byte, NEW t \in Seq(Byte),
         Len(t) = 1 + More(n), t[1] = b, \A i \in 1 .. More(n) : t[i + 1] = Extra(n)[i]
  PROVE  Heads(<<a>> \o t, a, b, n)
<1> DEFINE h == <<a>> \o t
<1>1. More(n) \in Nat
  BY ExtraTells
<1>2. h \in Seq(Byte) /\ Len(h) = Len(t) + 1 /\ h[1] = a /\ \A i \in 1 .. Len(t) : h[i + 1] = t[i]
  BY Prepended
<1> HIDE DEF h
<1>3. h[2] = b
  BY <1>1, <1>2
<1>4. ASSUME NEW i \in 1 .. More(n) PROVE h[2 + i] = Extra(n)[i]
  <2>1. i + 1 \in 1 .. Len(t) /\ (i + 1) + 1 = 2 + i
    BY <1>1, <1>2
  <2> QED BY <1>1, <1>2, <2>1
<1>5. Heads(h, a, b, n)
  BY <1>1, <1>2, <1>3, <1>4 DEF Heads
<1> QED BY <1>5 DEF h

\* The server's headers are that.
LEMMA ServerHeads ==
  ASSUME NEW op \in Nat, NEW n \in Lengths, NEW fin \in BOOLEAN
  PROVE  Heads(MakeHeader(op, n, fin), Is((IF fin THEN 128 ELSE 0) + op), Is(Code(n)), n)
<1> DEFINE first == Is((IF fin THEN 128 ELSE 0) + op)
           b == Is(Code(n))
           t == IF n < 126 THEN <<b>>
                ELSE IF n < 65536 THEN <<b, Is(n \div 256), Is(n % 256)>>
                ELSE <<b, Is(0), Is(0), Is(0), Is(0), Is(n \div 16777216),
                       Is((n \div 65536) % 256), Is((n \div 256) % 256), Is(n % 256)>>
<1>1. n \in Nat /\ Code(n) \in Nat
  <2>1. n \in Nat /\ Code(n) \in 0 .. 127
    BY ExtraTells, Zenon
  <2> QED BY <2>1
<1>2. first \in Byte /\ b \in Byte
  <2>1. (IF fin THEN 128 ELSE 0) + op \in Nat
    OBVIOUS
  <2> QED BY <1>1, <2>1, IsByte
<1>3. MakeHeader(op, n, fin) = <<first>> \o t
  <2>1. n < 126 => Code(n) = n
    BY SMT DEF Code
  <2>2. n >= 126 /\ n < 65536 => Code(n) = 126 /\ (n \div 256) % 256 = n \div 256
    BY <1>1, ShortLength, SMT DEF Code
  <2>3. n >= 65536 => Code(n) = 127 /\ (n \div 16777216) % 256 = n \div 16777216
    BY <1>1, LongLength, SMT DEF Code
  <2> QED BY <1>1, <2>1, <2>2, <2>3, SMT DEF MakeHeader
<1>4. \/ n < 126 /\ t = <<b>>
      \/ n >= 126 /\ n < 65536 /\ t = <<b, Is(n \div 256), Is(n % 256)>>
      \/ n >= 65536 /\ t = <<b, Is(0), Is(0), Is(0), Is(0), Is(n \div 16777216),
                             Is((n \div 65536) % 256), Is((n \div 256) % 256), Is(n % 256)>>
  BY <1>1, SMT
<1> HIDE DEF t, first, b
<1>5. /\ t \in Seq(Byte) /\ Len(t) = 1 + More(n) /\ t[1] = b
      /\ \A i \in 1 .. More(n) : t[i + 1] = Extra(n)[i]
  BY <1>2, <1>4, LengthTuples, SMT
<1>6. Heads(<<first>> \o t, first, b, n)
  BY <1>2, <1>5, HeadsMade
<1> QED BY <1>3, <1>6 DEF first, b

\* The frames of clients, and the keys that are with them.
Framing == [opcode : {1, 2, 9}, length : Lengths, masked : BOOLEAN]
Mark(f) == IF f.masked THEN 128 ELSE 0
Key(k, f) == IF f.masked THEN [i \in 1 .. 4 |-> <<"key", k, i - 1>>] ELSE << >>

\* A key is four bytes, if there is one.
LEMMA KeyBytes ==
  ASSUME NEW k \in Nat, NEW f \in Framing
  PROVE  Key(k, f) \in Seq(Byte) /\ Len(Key(k, f)) = IF f.masked THEN 4 ELSE 0
<1>1. \A i \in 1 .. 4 : <<"key", k, i - 1>> \in Byte
  <2> SUFFICES ASSUME NEW i \in 1 .. 4 PROVE <<"key", k, i - 1>> \in Byte
    OBVIOUS
  <2>1. "key" \in {"key", "hidden", "plain"} /\ i - 1 \in Nat
    OBVIOUS
  <2>2. <<"key", k, i - 1>> \in {"key", "hidden", "plain"} \X Nat \X Nat
    BY <2>1
  <2> QED BY <2>2, Zenon DEF Byte
<1> QED BY <1>1 DEF Key

\* A payload is as many bytes as the frame says.
LEMMA PayloadBytes ==
  ASSUME NEW k \in Nat, NEW f \in Framing
  PROVE  /\ f.length \in Nat /\ Payload(k, f) \in Seq(Byte) /\ Len(Payload(k, f)) = f.length
         /\ \A p \in 1 .. f.length :
              Payload(k, f)[p] = IF f.masked THEN <<"hidden", k, p - 1>> ELSE <<"plain", k, p - 1>>
<1>1. f.length \in Nat
  BY SMT DEF Framing, Lengths
<1>2. \A p \in 1 .. f.length : <<"hidden", k, p - 1>> \in Byte /\ <<"plain", k, p - 1>> \in Byte
  <2> SUFFICES ASSUME NEW p \in 1 .. f.length
               PROVE  <<"hidden", k, p - 1>> \in Byte /\ <<"plain", k, p - 1>> \in Byte
    OBVIOUS
  <2>1. p - 1 \in Nat
    BY <1>1
  <2>2. /\ <<"hidden", k, p - 1>> \in {"key", "hidden", "plain"} \X Nat \X Nat
        /\ <<"plain", k, p - 1>> \in {"key", "hidden", "plain"} \X Nat \X Nat
    BY <2>1
  <2> QED BY <2>2, Zenon DEF Byte
<1>3. CASE f.masked
  <2>1. Payload(k, f) = [p \in 1 .. f.length |-> <<"hidden", k, p - 1>>]
    BY <1>3 DEF Payload
  <2>2. /\ Payload(k, f) \in Seq(Byte) /\ Len(Payload(k, f)) = f.length
        /\ \A p \in 1 .. f.length : Payload(k, f)[p] = <<"hidden", k, p - 1>>
    <3> DEFINE n == f.length
               z == [p \in 1 .. n |-> <<"hidden", k, p - 1>>]
    <3>1. n \in Nat /\ \A p \in 1 .. n : <<"hidden", k, p - 1>> \in Byte
      BY <1>1, <1>2
    <3> HIDE DEF n
    <3>2. z \in Seq(Byte) /\ Len(z) = n /\ \A p \in 1 .. n : z[p] = <<"hidden", k, p - 1>>
      BY <3>1
    <3> QED BY <2>1, <3>2, Zenon DEF n
  <2> QED BY <1>1, <1>3, <2>2, Zenon
<1>4. CASE ~f.masked
  <2>1. Payload(k, f) = [p \in 1 .. f.length |-> <<"plain", k, p - 1>>]
    BY <1>4 DEF Payload, PlainBytes
  <2>2. /\ Payload(k, f) \in Seq(Byte) /\ Len(Payload(k, f)) = f.length
        /\ \A p \in 1 .. f.length : Payload(k, f)[p] = <<"plain", k, p - 1>>
    <3> DEFINE n == f.length
               z == [p \in 1 .. n |-> <<"plain", k, p - 1>>]
    <3>1. n \in Nat /\ \A p \in 1 .. n : <<"plain", k, p - 1>> \in Byte
      BY <1>1, <1>2
    <3> HIDE DEF n
    <3>2. z \in Seq(Byte) /\ Len(z) = n /\ \A p \in 1 .. n : z[p] = <<"plain", k, p - 1>>
      BY <3>1
    <3> QED BY <2>1, <3>2, Zenon DEF n
  <2> QED BY <1>1, <1>4, <2>2, Zenon
<1> QED BY <1>3, <1>4

\* The clients' headers are headers, with the key at the end.
LEMMA ClientHeads ==
  ASSUME NEW k \in Nat, NEW f \in Framing
  PROVE  \E h : /\ Heads(h, Is(128 + f.opcode), Is(Mark(f) + Code(f.length)), f.length)
                /\ FrameHeader(k, f) = h \o Key(k, f)
<1> DEFINE n == f.length
           first == Is(128 + f.opcode)
           b == Is(Mark(f) + Code(n))
           t == IF n < 126 THEN <<b>>
                ELSE IF n < 65536 THEN <<b, Is(n \div 256), Is(n % 256)>>
                ELSE <<b, Is(0), Is(0), Is(0), Is(0), Is(n \div 16777216),
                       Is((n \div 65536) % 256), Is((n \div 256) % 256), Is(n % 256)>>
<1>1. n \in Lengths /\ n \in Nat /\ Code(n) \in Nat /\ Mark(f) \in Nat
  <2>1. n \in Lengths /\ Mark(f) \in Nat
    BY Zenon DEF Framing, Mark
  <2>2. n \in Nat /\ Code(n) \in 0 .. 127
    BY <2>1, ExtraTells, Zenon
  <2> QED BY <2>1, <2>2
<1>2. first \in Byte /\ b \in Byte
  <2>1. 128 + f.opcode \in Nat /\ Mark(f) + Code(n) \in Nat
    BY <1>1 DEF Framing
  <2> QED BY <2>1, IsByte
<1>3. FrameHeader(k, f) = (<<first>> \o t) \o Key(k, f)
  <2>1. n < 126 => Code(n) = n
    BY SMT DEF Code
  <2>2. n >= 126 /\ n < 65536 => Code(n) = 126
    BY <1>1, SMT DEF Code
  <2>3. n >= 65536 => Code(n) = 127
    BY <1>1, SMT DEF Code
  <2> DEFINE s == <<first>> \o t
  <2>4. FrameHeader(k, f) =
          (<<first>> \o (IF n < 126 THEN <<Is(Mark(f) + n)>>
                         ELSE IF n < 65536
                         THEN <<Is(Mark(f) + 126), Is(n \div 256), Is(n % 256)>>
                         ELSE <<Is(Mark(f) + 127), Is(0), Is(0), Is(0), Is(0), Is(n \div 16777216),
                                Is((n \div 65536) % 256), Is((n \div 256) % 256), Is(n % 256)>>))
          \o Key(k, f)
    BY SMT DEF FrameHeader, Mark, Key
  <2>5. t = IF n < 126 THEN <<Is(Mark(f) + n)>>
            ELSE IF n < 65536
            THEN <<Is(Mark(f) + 126), Is(n \div 256), Is(n % 256)>>
            ELSE <<Is(Mark(f) + 127), Is(0), Is(0), Is(0), Is(0), Is(n \div 16777216),
                   Is((n \div 65536) % 256), Is((n \div 256) % 256), Is(n % 256)>>
    BY <1>1, <2>1, <2>2, <2>3, SMT
  <2> HIDE DEF t, n, first
  <2> QED BY <2>4, <2>5, SMT
<1>4. \/ n < 126 /\ t = <<b>>
      \/ n >= 126 /\ n < 65536 /\ t = <<b, Is(n \div 256), Is(n % 256)>>
      \/ n >= 65536 /\ t = <<b, Is(0), Is(0), Is(0), Is(0), Is(n \div 16777216),
                             Is((n \div 65536) % 256), Is((n \div 256) % 256), Is(n % 256)>>
  BY <1>1, SMT
<1> HIDE DEF t, first, b
<1>5. /\ t \in Seq(Byte) /\ Len(t) = 1 + More(n) /\ t[1] = b
      /\ \A i \in 1 .. More(n) : t[i + 1] = Extra(n)[i]
  BY <1>1, <1>2, <1>4, LengthTuples, SMT
<1>6. Heads(<<first>> \o t, first, b, n)
  BY <1>1, <1>2, <1>5, HeadsMade
<1> QED BY <1>3, <1>6 DEF first, b

\* Where things are in a frame: x of n bytes of payload, with a header h.
FrameShape(k, f, h, x, n) ==
  /\ h \in Seq(Byte) /\ Len(h) = 2 + More(n) + Len(Key(k, f))
  /\ x \in Seq(Byte) /\ Len(x) = Len(h) + n
  /\ x[1] = Is(128 + f.opcode) /\ x[2] = Is(Mark(f) + Code(n))
  /\ \A i \in 1 .. More(n) : x[2 + i] = Extra(n)[i]
  /\ \A i \in 1 .. Len(Key(k, f)) : x[2 + More(n) + i] = Key(k, f)[i]
  /\ \A i \in 1 .. n : x[Len(h) + i] = Payload(k, f)[i]

\* The frames of clients have it.
LEMMA FrameParts ==
  ASSUME NEW k \in Nat, NEW f \in Framing
  PROVE  FrameShape(k, f, FrameHeader(k, f), FrameBytes(k, f), f.length)
<1> DEFINE h == FrameHeader(k, f)
           n == f.length
           m == More(n)
           x == FrameBytes(k, f)
           y == Key(k, f)
           z == Payload(k, f)
<1>1. PICK g : Heads(g, Is(128 + f.opcode), Is(Mark(f) + Code(n)), n) /\ h = g \o y
  BY ClientHeads, Zenon
<1>2. y \in Seq(Byte)
  BY KeyBytes, Zenon
<1>3. n \in Nat /\ z \in Seq(Byte) /\ Len(z) = n
  BY PayloadBytes, Zenon
<1>4. m \in Nat
  BY <1>3, SMT DEF More
<1>5. x = h \o z
  BY Zenon DEF FrameBytes
<1>6. /\ g \in Seq(Byte) /\ Len(g) = 2 + m /\ g[1] = Is(128 + f.opcode)
      /\ g[2] = Is(Mark(f) + Code(n)) /\ \A i \in 1 .. m : g[2 + i] = Extra(n)[i]
  BY <1>1, Zenon DEF Heads
<1> HIDE DEF y, z, x, h, n, m
<1>7. /\ h \in Seq(Byte) /\ Len(h) = Len(g) + Len(y)
      /\ \A i \in 1 .. Len(g) : h[i] = g[i]
      /\ \A i \in 1 .. Len(y) : h[Len(g) + i] = y[i]
  <2>1. h \in Seq(Byte) /\ Joins(h, g, y)
    BY <1>1, <1>2, <1>6, Joined
  <2> QED BY <2>1 DEF Joins
<1>8. /\ x \in Seq(Byte) /\ Len(x) = Len(h) + n
      /\ \A i \in 1 .. Len(h) : x[i] = h[i]
      /\ \A i \in 1 .. n : x[Len(h) + i] = z[i]
  <2>1. /\ x \in Seq(Byte) /\ Len(x) = Len(h) + Len(z)
        /\ \A i \in 1 .. Len(h) : x[i] = h[i]
        /\ \A i \in 1 .. Len(z) : x[Len(h) + i] = z[i]
    <3>1. h \in Seq(Byte) /\ z \in Seq(Byte)
      BY <1>3, <1>7
    <3>2. x \in Seq(Byte) /\ Joins(x, h, z)
      BY <1>5, <3>1, Joined
    <3> QED BY <3>2 DEF Joins
  <2> QED BY <1>3, <2>1, Zenon
<1>9. Len(y) \in Nat /\ Len(h) = 2 + m + Len(y)
  BY <1>2, <1>6, <1>7
<1>10. ASSUME NEW i \in 1 .. Len(g) PROVE x[i] = g[i]
  <2>1. i \in 1 .. Len(h)
    BY <1>4, <1>6, <1>9
  <2> QED BY <1>7, <1>8, <2>1
<1>11. x[1] = g[1] /\ x[2] = g[2]
  BY <1>4, <1>6, <1>10
<1>12. \A i \in 1 .. m : x[2 + i] = Extra(n)[i]
  <2>1. \A i \in 1 .. m : 2 + i \in 1 .. Len(g)
    BY <1>4, <1>6
  <2> QED BY <1>6, <1>10, <2>1
<1>13. ASSUME NEW i \in 1 .. Len(y) PROVE x[2 + m + i] = y[i]
  <2>1. 2 + m + i \in 1 .. Len(h) /\ 2 + m + i = Len(g) + i
    BY <1>4, <1>6, <1>9
  <2> QED BY <1>7, <1>8, <2>1
<1> QED BY <1>6, <1>7, <1>8, <1>9, <1>11, <1>12, <1>13, Zenon DEF FrameShape, x, h, n, y, z, m

\* b is a beginning of x, or goes on behind it.
Begins(x, b) == \A i \in 1 .. Len(b) : i <= Len(x) => b[i] = x[i]

\* What is there of the header of a frame is found, and read as it was meant.
LEMMA PrefixScanned ==
  ASSUME NEW k \in Nat, NEW f \in Framing, NEW b \in Seq(Byte),
         Begins(FrameBytes(k, f), b), Scans(b)
  PROVE  /\ HeaderSize(b) = Len(FrameHeader(k, f)) /\ Len(b) >= Len(FrameHeader(k, f))
         /\ Scanned(b) = [opcode |-> f.opcode, length |-> f.length, key |-> Key(k, f)]
<1> DEFINE n == f.length
           c == Code(n)
           m == More(n)
           h == FrameHeader(k, f)
           x == FrameBytes(k, f)
           y == Key(k, f)
           e == Extra(n)
<1>1. /\ Len(h) = 2 + m + Len(y) /\ Len(x) = Len(h) + n
      /\ x[1] = Is(128 + f.opcode) /\ x[2] = Is(Mark(f) + c)
      /\ \A i \in 1 .. m : x[2 + i] = e[i]
      /\ \A i \in 1 .. Len(y) : x[2 + m + i] = y[i]
  <2>1. FrameShape(k, f, h, x, n)
    BY FrameParts, Zenon
  <2> QED BY <2>1, Zenon DEF FrameShape
<1>2. /\ n \in Nat /\ m \in {0, 2, 8} /\ c \in 0 .. 127 /\ e \in Seq(Byte) /\ Len(e) = m
      /\ n < 126 => c = n /\ m = 0
      /\ n >= 126 => Number(e) = n
      /\ \A a : a[2] % 128 = c => LengthBytes(a) = m
  <2>1. n \in Lengths
    BY Zenon DEF Framing
  <2> QED BY <2>1, ExtraTells, Zenon
<1>3. y \in Seq(Byte) /\ Len(y) = IF f.masked THEN 4 ELSE 0
  BY KeyBytes, Zenon
<1>4. f.opcode \in {1, 2, 9} /\ f.masked \in BOOLEAN
  BY Zenon DEF Framing
<1>5. n >= 126 => m # 0
  BY <1>2, SMT DEF More
<1>6. \A i \in 1 .. Len(b) : i <= Len(x) => b[i] = x[i]
  BY Zenon DEF Begins
<1>7. Len(b) \in Nat /\ Len(b) >= 2
  BY DEF Scans
<1> HIDE DEF n, h, x, y, c, m, e
<1>l. Len(y) \in Nat /\ Len(h) = 2 + m + Len(y) /\ Len(h) <= Len(x) /\ Len(x) >= 2
  BY <1>1, <1>2, <1>3
<1>8. b[1] = x[1] /\ b[2] = x[2]
  BY <1>6, <1>7, <1>l
<1>9. b[1][2] = 128 + f.opcode /\ b[2][2] = Mark(f) + c
  BY <1>1, <1>8 DEF Is
<1>c. c \in 0 .. 127
  BY <1>2, Zenon
<1>10. /\ f.masked => b[2][2] = 128 + c
       /\ ~f.masked => b[2][2] = c
  <2>1. 0 + c = c
    BY <1>c, SMT
  <2> QED BY <1>9, <2>1, Zenon DEF Mark
<1>11. b[2][2] % 128 = c
  <2>1. \A a \in 0 .. 127 : (128 + a) % 128 = a /\ a % 128 = a
    BY SMT
  <2> QED BY <1>c, <1>10, <2>1, Zenon
<1>12. b[1][2] % 16 = f.opcode
  <2>1. \A a \in {1, 2, 9} : (128 + a) % 16 = a
    BY SMT
  <2> QED BY <1>4, <1>9, <2>1, Zenon
<1>13. LengthBytes(b[2]) = m
  BY <1>2, <1>11, Zenon
<1>14. (IF Bit(b[2]) THEN 4 ELSE 0) = Len(y)
  <2>1. \A a \in 0 .. 127 : 128 + a >= 128 /\ ~(a >= 128)
    BY SMT
  <2>2. Bit(b[2]) <=> f.masked
    BY <1>c, <1>10, <2>1, Zenon DEF Bit
  <2> QED BY <1>3, <2>2, Zenon
<1>15. HeaderSize(b) = Len(h)
  BY <1>1, <1>13, <1>14, Zenon DEF HeaderSize
<1>16. Len(b) >= Len(h)
  BY <1>15 DEF Scans
<1>17. 2 + m \in Nat /\ Len(y) \in Nat /\ Len(h) = (2 + m) + Len(y) /\ (2 + m) + 1 = 3 + m
  BY <1>1, <1>2, <1>3
<1>18. SubSeq(b, 3 + m, Len(h)) = y
  <2>1. \A i \in 1 .. Len(y) : b[(2 + m) + i] = y[i]
    <3> SUFFICES ASSUME NEW i \in 1 .. Len(y) PROVE b[(2 + m) + i] = y[i]
      OBVIOUS
    <3>1. (2 + m) + i \in 1 .. Len(b) /\ (2 + m) + i <= Len(x) /\ (2 + m) + i = 2 + m + i
      <4> DEFINE p == 2 + m
                 q == Len(y)
      <4>1. /\ p \in Nat /\ q \in Nat /\ i \in 1 .. q /\ Len(b) >= p + q /\ Len(b) \in Nat
            /\ p + q <= Len(x)
        BY <1>7, <1>16, <1>17, <1>l, Zenon
      <4>3. Len(x) \in Nat
        BY <1>1, <1>2, <1>l
      <4> HIDE DEF p, q
      <4>2. p + i \in 1 .. Len(b) /\ p + i <= Len(x)
        BY <4>1, <4>3
      <4> QED BY <4>2, Zenon DEF p
    <3> QED BY <1>1, <1>6, <3>1
  <2>2. SubSeq(b, (2 + m) + 1, (2 + m) + Len(y)) = y
    <3>1. (2 + m) + Len(y) <= Len(b)
      BY <1>7, <1>16, <1>17
    <3> QED BY <1>3, <1>17, <2>1, <3>1, CutIs
  <2> QED BY <1>17, <2>2, Zenon
<1>19. SubSeq(b, 3, 2 + m) = e
  <2>1. \A i \in 1 .. Len(e) : b[2 + i] = e[i]
    <3> SUFFICES ASSUME NEW i \in 1 .. Len(e) PROVE b[2 + i] = e[i]
      OBVIOUS
    <3>1. 2 + i \in 1 .. Len(b) /\ 2 + i <= Len(x) /\ i \in 1 .. m
      BY <1>1, <1>2, <1>7, <1>16, <1>17
    <3> QED BY <1>1, <1>6, <3>1
  <2>2. SubSeq(b, 2 + 1, 2 + Len(e)) = e
    <3>1. 2 + Len(e) <= Len(b) /\ 2 \in Nat
      BY <1>2, <1>7, <1>16, <1>17
    <3> QED BY <1>2, <2>1, <3>1, CutIs
  <2> QED BY <1>2, <2>2
<1>20. (IF m = 0 THEN c ELSE Number(e)) = n
  <2>1. CASE n < 126
    BY <1>2, <2>1
  <2>2. CASE ~(n < 126)
    <3>1. n >= 126
      BY <1>2, <2>2
    <3> QED BY <1>2, <1>5, <3>1
  <2> QED BY <2>1, <2>2
<1>21. Scanned(b) = [opcode |-> f.opcode, length |-> n, key |-> y]
  <2>1. Scanned(b) = [opcode |-> f.opcode, length |-> IF m = 0 THEN c ELSE Number(e), key |-> y]
    BY <1>11, <1>12, <1>13, <1>15, <1>18, <1>19, Zenon DEF Scanned
  <2> QED BY <1>20, <2>1, Zenon
<1> QED BY <1>15, <1>16, <1>21, Zenon DEF n, h, y

-----------------------------------------------------------------------------
(* What is behind a place in s, with t behind it *)

After(s, m, t) == SubSeq(s, m + 1, Len(s)) \o t

\* Its elements,
AfterShape(x, s, m, t) == /\ Len(x) = (Len(s) - m) + Len(t)
                          /\ \A i \in 1 .. Len(s) - m : x[i] = s[m + i]
                          /\ \A i \in 1 .. Len(t) : x[(Len(s) - m) + i] = t[i]

\* wherever the place is.
LEMMA AfterIs ==
  ASSUME NEW S, NEW s \in Seq(S), NEW t \in Seq(S), NEW m \in Nat, m <= Len(s)
  PROVE  After(s, m, t) \in Seq(S) /\ AfterShape(After(s, m, t), s, m, t)
<1> DEFINE n == Len(s) - m
           x == SubSeq(s, m + 1, m + n)
<1>1. n \in Nat /\ m + n = Len(s)
  OBVIOUS
<1>2. After(s, m, t) = x \o t
  BY <1>1 DEF After
<1> HIDE DEF n
<1>3. x \in Seq(S) /\ Len(x) = n /\ \A i \in 1 .. n : x[i] = s[m + i]
  <2>1. m + n <= Len(s)
    BY <1>1
  <2> QED BY <1>1, <2>1, Cut
<1> HIDE DEF x
<1>4. x \o t \in Seq(S) /\ Joins(x \o t, x, t)
  <2>1. x \in Seq(S)
    BY <1>3
  <2> QED BY <2>1, Joined
<1> DEFINE y == x \o t
<1>5. /\ Len(y) = n + Len(t)
      /\ \A i \in 1 .. n : y[i] = s[m + i]
      /\ \A i \in 1 .. Len(t) : y[n + i] = t[i]
  <2> HIDE DEF y
  <2>1. Joins(y, x, t)
    BY <1>4 DEF y
  <2> QED BY <1>3, <2>1 DEF Joins
<1>6. AfterShape(y, s, m, t)
  <2> HIDE DEF y
  <2> QED BY <1>5 DEF AfterShape, n
<1> QED BY <1>2, <1>4, <1>6, Zenon

\* y is x without its first n elements.
Drops(x, n, y) == Len(y) = Len(x) - n /\ \A i \in 1 .. Len(y) : y[i] = x[n + i]

\* Only one sequence is.
LEMMA DropsOne ==
  ASSUME NEW S, NEW x \in Seq(S), NEW n \in Nat, n <= Len(x), NEW y \in Seq(S), NEW z \in Seq(S),
         Drops(x, n, y), Drops(x, n, z)
  PROVE  y = z
<1>1. Len(y) = Len(z) /\ \A i \in 1 .. Len(y) : y[i] = z[i]
  BY DEF Drops
<1> QED BY <1>1, SeqEqual

\* Going on from the place in s,
LEMMA AfterGoesOn ==
  ASSUME NEW S, NEW s \in Seq(S), NEW t \in Seq(S), NEW m \in Nat, NEW n \in Nat, m + n <= Len(s)
  PROVE  Drops(After(s, m, t), n, After(s, m + n, t))
<1> DEFINE x == After(s, m, t)
           y == After(s, m + n, t)
<1>1. /\ x \in Seq(S) /\ Len(x) = (Len(s) - m) + Len(t)
      /\ \A i \in 1 .. Len(s) - m : x[i] = s[m + i]
      /\ \A i \in 1 .. Len(t) : x[(Len(s) - m) + i] = t[i]
  <2>1. m <= Len(s)
    OBVIOUS
  <2>2. x \in Seq(S) /\ AfterShape(x, s, m, t)
    BY <2>1, AfterIs
  <2> QED BY <2>2, Zenon DEF AfterShape
<1>2. /\ y \in Seq(S) /\ Len(y) = (Len(s) - (m + n)) + Len(t)
      /\ \A i \in 1 .. Len(s) - (m + n) : y[i] = s[(m + n) + i]
      /\ \A i \in 1 .. Len(t) : y[(Len(s) - (m + n)) + i] = t[i]
  <2>1. m + n \in Nat
    OBVIOUS
  <2>2. y \in Seq(S) /\ AfterShape(y, s, m + n, t)
    BY <2>1, AfterIs
  <2> QED BY <2>2, Zenon DEF AfterShape
<1> HIDE DEF x, y
<1>3. Len(s) \in Nat /\ Len(t) \in Nat
  OBVIOUS
<1>4. ASSUME NEW i \in 1 .. Len(y) PROVE y[i] = x[n + i]
  <2>1. CASE i <= Len(s) - (m + n)
    <3>1. i \in 1 .. Len(s) - (m + n) /\ n + i \in 1 .. Len(s) - m /\ m + (n + i) = (m + n) + i
      BY <1>3, <2>1
    <3>2. y[i] = s[(m + n) + i]
      BY <1>2, <3>1
    <3>3. x[n + i] = s[m + (n + i)]
      BY <1>1, <3>1
    <3> QED BY <3>1, <3>2, <3>3
  <2>2. CASE i > Len(s) - (m + n)
    <3> DEFINE j == i - (Len(s) - (m + n))
    <3>1. j \in 1 .. Len(t) /\ i = (Len(s) - (m + n)) + j /\ n + i = (Len(s) - m) + j
      BY <1>2, <1>3, <2>2
    <3> HIDE DEF j
    <3> QED BY <1>1, <1>2, <3>1
  <2>3. i \in Int /\ Len(s) - (m + n) \in Int
    BY <1>3
  <2> QED BY <2>1, <2>2, <2>3
<1>5. Len(y) = Len(x) - n
  <2>1. Len(x) = (Len(s) - m) + Len(t) /\ Len(y) = (Len(s) - (m + n)) + Len(t)
    BY <1>1, <1>2, Zenon
  <2> QED BY <1>3, <2>1
<1>6. Drops(x, n, y)
  BY <1>4, <1>5, Zenon DEF Drops
<1> QED BY <1>6 DEF x, y

\* or past s, into t.
LEMMA AfterGoesPast ==
  ASSUME NEW S, NEW s \in Seq(S), NEW t \in Seq(S), NEW m \in Nat, NEW n \in Nat, m <= Len(s),
         NEW k \in Nat, k <= Len(t), n = (Len(s) - m) + k
  PROVE  Drops(After(s, m, t), n, SubSeq(t, k + 1, Len(t)))
<1> DEFINE x == After(s, m, t)
           l == Len(t) - k
           y == SubSeq(t, k + 1, k + l)
<1>1. /\ x \in Seq(S) /\ Len(x) = (Len(s) - m) + Len(t)
      /\ \A i \in 1 .. Len(t) : x[(Len(s) - m) + i] = t[i]
  <2>1. x \in Seq(S) /\ AfterShape(x, s, m, t)
    BY AfterIs
  <2> QED BY <2>1, Zenon DEF AfterShape
<1>2. l \in Nat /\ k + l = Len(t) /\ Len(t) \in Nat /\ Len(s) \in Nat
  OBVIOUS
<1> HIDE DEF x, l
<1>3. y \in Seq(S) /\ Len(y) = l /\ \A i \in 1 .. l : y[i] = t[k + i]
  <2>1. k + l <= Len(t)
    BY <1>2
  <2> QED BY <1>2, <2>1, Cut
<1> HIDE DEF y
<1>4. ASSUME NEW i \in 1 .. Len(y) PROVE y[i] = x[n + i]
  <2>1. i \in 1 .. l /\ k + i \in 1 .. Len(t) /\ n + i = (Len(s) - m) + (k + i)
    BY <1>2, <1>3
  <2> QED BY <1>1, <1>3, <2>1
<1>5. Len(y) = Len(x) - n
  BY <1>1, <1>2, <1>3
<1>6. Drops(x, n, y)
  BY <1>4, <1>5 DEF Drops
<1> QED BY <1>2, <1>6 DEF x, y

\* x is the first n elements of a.
Fronts(x, n, a) == Len(x) = n /\ \A i \in 1 .. n : x[i] = a[i]

\* What is taken from s, and when that is not enough from t, is the beginning.
LEMMA FrontTaken ==
  ASSUME NEW S, NEW s \in Seq(S), NEW t \in Seq(S), NEW m \in Nat, m <= Len(s),
         NEW n \in Nat, NEW k \in Nat, k <= n, m + k <= Len(s), n - k <= Len(t),
         k = n \/ m + k = Len(s)
  PROVE  Fronts(SubSeq(s, m + 1, m + k) \o SubSeq(t, 1, n - k), n, After(s, m, t))
<1> DEFINE l == n - k
           y == SubSeq(s, m + 1, m + k)
           z == SubSeq(t, 0 + 1, 0 + l)
           a == After(s, m, t)
<1>1. /\ a \in Seq(S) /\ \A i \in 1 .. Len(s) - m : a[i] = s[m + i]
      /\ \A i \in 1 .. Len(t) : a[(Len(s) - m) + i] = t[i]
  <2>1. a \in Seq(S) /\ AfterShape(a, s, m, t)
    BY AfterIs
  <2> QED BY <2>1, Zenon DEF AfterShape
<1>2. l \in Nat /\ l <= Len(t) /\ Len(t) \in Nat /\ Len(s) \in Nat
  OBVIOUS
<1>3. y \in Seq(S) /\ Len(y) = k /\ \A i \in 1 .. k : y[i] = s[m + i]
  BY Cut
<1>4. n - k = 0 + l /\ n = k + l
  OBVIOUS
<1> HIDE DEF l
<1>11. 0 + l = l
  BY <1>2
<1>5. z \in Seq(S) /\ Len(z) = l /\ \A i \in 1 .. l : z[i] = t[0 + i]
  <2>1. 0 \in Nat /\ 0 + l <= Len(t)
    BY <1>2
  <2> QED BY <1>2, <2>1, Cut
<1> HIDE DEF y, z, a
<1>6. /\ y \o z \in Seq(S) /\ Len(y \o z) = Len(y) + Len(z)
      /\ \A i \in 1 .. Len(y) : (y \o z)[i] = y[i]
      /\ \A i \in 1 .. Len(z) : (y \o z)[Len(y) + i] = z[i]
  <2>1. y \in Seq(S) /\ z \in Seq(S)
    BY <1>3, <1>5, Zenon
  <2>2. y \o z \in Seq(S) /\ Joins(y \o z, y, z)
    BY <2>1, Joined
  <2> QED BY <2>2, Zenon DEF Joins
<1> DEFINE x == y \o z
<1>7. Len(x) = n /\ x \in Seq(S)
  BY <1>3, <1>4, <1>5, <1>6
<1>8. /\ \A i \in 1 .. k : x[i] = y[i]
      /\ \A i \in 1 .. l : x[k + i] = z[i]
  BY <1>3, <1>5, <1>6
<1> HIDE DEF x
<1>9. ASSUME NEW i \in 1 .. n PROVE x[i] = a[i]
  <2>1. CASE i <= k
    <3>1. i \in 1 .. k /\ i \in 1 .. Len(s) - m
      BY <1>2, <2>1
    <3> QED BY <1>1, <1>3, <1>8, <3>1
  <2>2. CASE i > k
    <3> DEFINE j == i - k
    <3>1. /\ j \in 1 .. l /\ j \in 1 .. Len(t) /\ i = k + j /\ 0 + j = j
          /\ Len(s) - m = k
      BY <1>2, <1>4, <2>2
    <3> HIDE DEF j
    <3>2. x[i] = t[j]
      BY <1>5, <1>8, <3>1
    <3>3. a[i] = t[j]
      BY <1>1, <3>1
    <3> QED BY <3>2, <3>3
  <2> QED BY <2>1, <2>2
<1>10. SubSeq(s, m + 1, m + k) \o SubSeq(t, 1, n - k) = x
  <2>1. 0 + 1 = 1
    OBVIOUS
  <2> QED BY <1>4, <1>11, <2>1, Zenon DEF x, y, z
<1> QED BY <1>7, <1>9, <1>10, Zenon DEF a, Fronts

-----------------------------------------------------------------------------
(* Sequences one behind the other *)

\* What FlattenSeq makes of the first n of them, for every n up to all.
Flattened(q, f) == /\ f[0] = << >> /\ FlattenSeq(q) = f[Len(q)]
                   /\ \A i \in 1 .. Len(q) : f[i] = f[i - 1] \o q[i]

\* It takes them one after the other.
LEMMA FlattenTakes ==
  ASSUME NEW S, NEW q \in Seq(Seq(S))
  PROVE  \E f \in [0 .. Len(q) -> Seq(S)] : Flattened(q, f)
<1> DEFINE N == Len(q)
           T == Seq(S)
           h == [n \in Nat |-> [x \in T |-> IF n \in 1 .. N THEN x \o q[n] ELSE x]]
           Good(g) == g = [i \in 1 .. N |-> IF i = 1 THEN q[i] ELSE g[i - 1] \o q[i]]
           flatten == CHOOSE g : Good(g)
<1>0. N \in Nat /\ << >> \in T /\ \A i \in 1 .. N : q[i] \in T
  BY EmptySeq
<1>1. h \in [Nat -> [T -> T]]
  <2>1. \A x, y \in T : x \o y \in T
    BY Joined
  <2> HIDE DEF T, N
  <2>2. \A n \in Nat : \A x \in T : (IF n \in 1 .. N THEN x \o q[n] ELSE x) \in T
    BY <1>0, <2>1
  <2> QED BY <2>2
<1> HIDE DEF T
<1>2. PICK f \in [0 .. N -> T] : f[0] = << >> /\ \A n \in 1 .. N : f[n] = h[n][f[n - 1]]
  <2>1. Recursions(T, << >>, h, N) # {}
    <3> HIDE DEF h
    <3> QED BY <1>0, <1>1, RecursionsExist
  <2> HIDE DEF h
  <2> QED BY <2>1 DEF Recursions
<1> HIDE DEF N
<1>3. ASSUME NEW n \in 1 .. N PROVE f[n] = f[n - 1] \o q[n]
  <2>1. n \in Nat /\ n - 1 \in 0 .. N
    BY <1>0
  <2> QED BY <1>2, <2>1
<1>4. CASE N = 0
  <2>1. q = << >> /\ FlattenSeq(q) = q
    BY <1>4 DEF FlattenSeq, N
  <2>2. Flattened(q, f)
    BY <1>2, <1>3, <1>4, <2>1, Zenon DEF Flattened, N
  <2> QED BY <2>2, Zenon DEF N, T
<1>5. CASE N # 0
  <2> DEFINE g == [i \in 1 .. N |-> f[i]]
  <2>1. Good(g)
    <3>1. ASSUME NEW i \in 1 .. N PROVE f[i] = IF i = 1 THEN q[i] ELSE g[i - 1] \o q[i]
      <4>1. CASE i = 1
        <5>1. f[1] = << >> \o q[1]
          BY <1>0, <1>2, <1>3, <4>1
        <5>2. q[1] \in Seq(S)
          BY <1>0, <4>1 DEF T
        <5>3. << >> \o q[1] = q[1]
          BY <5>2, ConcatEmptySeq
        <5> QED BY <4>1, <5>1, <5>3
      <4>2. CASE i # 1
        <5>1. i - 1 \in 1 .. N
          BY <1>0, <4>2
        <5>2. g[i - 1] = f[i - 1]
          BY <5>1
        <5> QED BY <1>3, <4>2, <5>2
      <4> QED BY <4>1, <4>2
    <3> QED BY <3>1, Zenon
  <2>2. Good(flatten)
    <3> HIDE DEF Good
    <3> QED BY <2>1
  <2>3. FlattenSeq(q) = flatten[N]
    BY <1>5, Zenon DEF FlattenSeq, flatten, N
  <2> HIDE DEF flatten
  <2>4. flatten[1] = q[1] /\ \A i \in 1 .. N : i # 1 => flatten[i] = flatten[i - 1] \o q[i]
    <3>1. ASSUME NEW i \in 1 .. N
          PROVE  flatten[i] = IF i = 1 THEN q[i] ELSE flatten[i - 1] \o q[i]
      BY <2>2, Zenon
    <3>2. 1 \in 1 .. N
      BY <1>0, <1>5
    <3> QED BY <3>1, <3>2, Zenon
  <2> DEFINE U == {n \in Nat : n \in 1 .. N => flatten[n] = f[n]}
  <2>5. 0 \in U
    OBVIOUS
  <2>6. ASSUME NEW n \in Nat, n \in U PROVE n + 1 \in U
    <3> SUFFICES ASSUME n + 1 \in 1 .. N PROVE flatten[n + 1] = f[n + 1]
      OBVIOUS
    <3>1. CASE n = 0
      <4>1. flatten[1] = q[1] /\ g[1] = q[1] /\ g[1] = f[1]
        BY <1>0, <1>5, <2>1, <2>4
      <4> QED BY <3>1, <4>1
    <3>2. CASE n # 0
      <4>1. n \in 1 .. N /\ (n + 1) - 1 = n /\ n + 1 # 1
        BY <1>0, <3>2
      <4>2. flatten[n] = f[n]
        BY <2>6, <4>1
      <4> QED BY <1>3, <2>4, <4>1, <4>2
    <3> QED BY <3>1, <3>2
  <2>7. Nat \subseteq U
    <3> HIDE DEF U
    <3> QED BY <2>5, <2>6, SetInduction
  <2>8. flatten[N] = f[N]
    BY <1>0, <1>5, <2>7
  <2>9. Flattened(q, f)
    BY <1>2, <1>3, <2>3, <2>8, Zenon DEF Flattened, N
  <2> QED BY <2>9, Zenon DEF N, T
<1> QED BY <1>4, <1>5

\* One more at the end comes behind all.
LEMMA FlattenLast ==
  ASSUME NEW S, NEW q \in Seq(Seq(S)), NEW r \in Seq(Seq(S)), Len(r) = Len(q) + 1,
         \A i \in 1 .. Len(q) : r[i] = q[i]
  PROVE  /\ FlattenSeq(q) \in Seq(S) /\ FlattenSeq(r) \in Seq(S)
         /\ FlattenSeq(r) = FlattenSeq(q) \o r[Len(r)]
<1> DEFINE N == Len(q)
<1>0. N \in Nat /\ Len(r) = N + 1
  OBVIOUS
<1>1. PICK f \in [0 .. N -> Seq(S)] : Flattened(q, f)
  BY FlattenTakes
<1>2. PICK g \in [0 .. N + 1 -> Seq(S)] : Flattened(r, g)
  <2>1. \E g \in [0 .. Len(r) -> Seq(S)] : Flattened(r, g)
    BY FlattenTakes
  <2> QED BY <1>0, <2>1
<1> DEFINE U == {n \in Nat : n <= N => g[n] = f[n]}
<1>3. 0 \in U
  BY <1>1, <1>2 DEF Flattened
<1>4. ASSUME NEW n \in Nat, n \in U PROVE n + 1 \in U
  <2> SUFFICES ASSUME n + 1 <= N PROVE g[n + 1] = f[n + 1]
    OBVIOUS
  <2>1. n + 1 \in 1 .. N /\ n + 1 \in 1 .. N + 1 /\ (n + 1) - 1 = n /\ n <= N
    BY <1>0
  <2>2. g[n + 1] = g[n] \o r[n + 1]
    BY <1>0, <1>2, <2>1 DEF Flattened
  <2>3. f[n + 1] = f[n] \o q[n + 1]
    BY <1>0, <1>1, <2>1 DEF Flattened
  <2>4. g[n] = f[n]
    BY <1>4, <2>1
  <2> QED BY <2>1, <2>2, <2>3, <2>4
<1>5. Nat \subseteq U
  <2> HIDE DEF U
  <2> QED BY <1>3, <1>4, SetInduction
<1>e. N \in U
  <2> HIDE DEF U
  <2> QED BY <1>0, <1>5
<1> HIDE DEF N
<1>6. g[N] = f[N] /\ N + 1 \in 1 .. N + 1 /\ (N + 1) - 1 = N /\ N \in 0 .. N /\ N + 1 \in 0 .. N + 1
  BY <1>0, <1>e
<1>7. g[N + 1] = g[N] \o r[N + 1]
  BY <1>0, <1>2, <1>6 DEF Flattened
<1>8. FlattenSeq(q) = f[N] /\ FlattenSeq(r) = g[N + 1]
  BY <1>0, <1>1, <1>2 DEF Flattened, N
<1>9. f[N] \in Seq(S) /\ g[N + 1] \in Seq(S)
  BY <1>6
<1> QED BY <1>0, <1>6, <1>7, <1>8, <1>9

\* The first one comes before the others.
LEMMA FlattenFirst ==
  ASSUME NEW S, NEW q \in Seq(Seq(S)), NEW r \in Seq(Seq(S)), Len(q) = Len(r) + 1,
         \A i \in 1 .. Len(r) : r[i] = q[i + 1]
  PROVE  FlattenSeq(r) \in Seq(S) /\ FlattenSeq(q) = q[1] \o FlattenSeq(r)
<1> DEFINE N == Len(r)
<1>0. N \in Nat /\ Len(q) = N + 1 /\ \A i \in 1 .. N + 1 : q[i] \in Seq(S)
  OBVIOUS
<1>1. PICK f \in [0 .. N -> Seq(S)] : Flattened(r, f)
  BY FlattenTakes
<1>2. PICK g \in [0 .. N + 1 -> Seq(S)] : Flattened(q, g)
  <2>1. \E g \in [0 .. Len(q) -> Seq(S)] : Flattened(q, g)
    BY FlattenTakes
  <2> QED BY <1>0, <2>1
<1> HIDE DEF N
<1> DEFINE Good(n) == n <= N => \A m \in Nat : m = n + 1 => g[m] = q[1] \o f[n]
           U == {n \in Nat : Good(n)}
<1>q. q[1] \in Seq(S)
  BY <1>0
<1>3. 0 \in U
  <2>1. g[1] = << >> \o q[1] /\ f[0] = << >>
    <3>1. 1 \in 1 .. Len(q) /\ 1 - 1 = 0
      BY <1>0
    <3> QED BY <1>1, <1>2, <3>1 DEF Flattened
  <2>2. << >> \o q[1] = q[1] /\ q[1] \o << >> = q[1]
    BY <1>q, ConcatEmptySeq
  <2>3. g[1] = q[1] \o f[0]
    BY <2>1, <2>2, Zenon
  <2>4. \A m \in Nat : m = 0 + 1 => m = 1
    OBVIOUS
  <2>5. Good(0)
    BY <2>3, <2>4, Zenon
  <2>6. 0 \in Nat
    OBVIOUS
  <2> QED BY <2>5, <2>6, Zenon
<1>4. ASSUME NEW n \in Nat, n \in U PROVE n + 1 \in U
  <2>a. n + 1 \in Nat
    OBVIOUS
  <2>0. Good(n)
    BY <1>4, Zenon
  <2> SUFFICES ASSUME n + 1 <= N PROVE g[(n + 1) + 1] = q[1] \o f[n + 1]
    BY <2>a, Zenon
  <2>1. n + 1 \in 1 .. N /\ (n + 1) + 1 \in 1 .. N + 1 /\ (n + 1) - 1 = n /\ n <= N
        /\ ((n + 1) + 1) - 1 = n + 1 /\ n \in 0 .. N
    BY <1>0
  <2>2. g[(n + 1) + 1] = g[n + 1] \o q[(n + 1) + 1]
    BY <1>0, <1>2, <2>1 DEF Flattened
  <2>3. f[n + 1] = f[n] \o r[n + 1]
    BY <1>1, <2>1 DEF Flattened, N
  <2>4. r[n + 1] = q[(n + 1) + 1]
    BY <2>1 DEF N
  <2>5. g[n + 1] = q[1] \o f[n]
    BY <2>0, <2>1, <2>a, Zenon
  <2>6. f[n] \in Seq(S) /\ q[(n + 1) + 1] \in Seq(S)
    BY <1>0, <2>1
  <2>7. (q[1] \o f[n]) \o q[(n + 1) + 1] = q[1] \o (f[n] \o q[(n + 1) + 1])
    <3> DEFINE x == q[1]
               y == f[n]
               z == q[(n + 1) + 1]
    <3>1. x \in Seq(S) /\ y \in Seq(S) /\ z \in Seq(S)
      BY <1>q, <2>6
    <3> HIDE DEF x, y, z
    <3>2. (x \o y) \o z = x \o (y \o z)
      BY ONLY <3>1, ConcatAssociative
    <3> QED BY <3>2 DEF x, y, z
  <2> QED BY <2>2, <2>3, <2>4, <2>5, <2>7, Zenon
<1>5. N \in U
  <2>1. Nat \subseteq U
    <3> HIDE DEF U
    <3> QED BY <1>3, <1>4, SetInduction
  <2> HIDE DEF U
  <2> QED BY <1>0, <2>1
<1>6. g[N + 1] = q[1] \o f[N] /\ f[N] \in Seq(S)
  <2>1. N <= N /\ N \in 0 .. N /\ N + 1 \in Nat
    BY <1>0
  <2>2. g[N + 1] = q[1] \o f[N]
    BY <1>5, <2>1, Zenon
  <2> QED BY <2>1, <2>2
<1>7. FlattenSeq(r) = f[N] /\ FlattenSeq(q) = g[N + 1]
  BY <1>0, <1>1, <1>2 DEF Flattened, N
<1> QED BY <1>6, <1>7

-----------------------------------------------------------------------------
(* Frames that arrive *)

\* The frames that are sent and not taken, and what they are together.
Untaken(s, n) == [k \in 1 .. Len(s) - n |-> FrameBytes(n + k, s[n + k])]
Coming(s, n)  == FlattenSeq(Untaken(s, n))

\* The first d bytes of the payload of the k-th frame.
Plain(k, d) == [p \in 1 .. d |-> <<"plain", k, p - 1>>]

\* The k-th frame f is handled: it was read as fr, of d bytes handed over as
\* tk; b, of which l bytes are left, and w hold the others, and next behind them.
Handled(k, f, fr, b, l, w, d, tk, next) ==
  /\ l \in Nat /\ d \in Nat /\ l <= Len(b) /\ d <= f.length
  /\ fr = [opcode |-> f.opcode, length |-> f.length, key |-> Key(k, f)]
  /\ After(b, Len(b) - l, w) = After(Payload(k, f), d, next)
  /\ tk = Plain(k, d)

\* All of the frames that are sent and not taken is in what is buffered and on
\* the wire; the handler does not ask for more than its frame.
FramesInv ==
  /\ sent \in Seq(Framing) /\ calls \in Nat /\ calls <= Len(sent)
  /\ wire \in Seq(Byte) /\ buf \in Seq(Byte) /\ pc \in {"idle", "frame"} /\ asked \in Nat
  /\ pc = "idle" => asked = 0 /\ buf \o wire = Coming(sent, calls)
  /\ pc = "frame" =>
       /\ calls >= 1 /\ asked <= frame.length - done
       /\ Handled(calls, sent[calls], frame, buf, left, wire, done, taken, Coming(sent, calls))

\* The frames are sequences of bytes.
LEMMA UntakenBytes ==
  ASSUME NEW s \in Seq(Framing), NEW n \in Nat, n <= Len(s)
  PROVE  /\ Untaken(s, n) \in Seq(Seq(Byte)) /\ Len(Untaken(s, n)) = Len(s) - n
         /\ \A k \in 1 .. Len(s) - n : /\ Untaken(s, n)[k] = FrameBytes(n + k, s[n + k])
                                       /\ n + k \in Nat /\ s[n + k] \in Framing
<1> DEFINE N == Len(s) - n
<1>1. N \in Nat
  OBVIOUS
<1>2. ASSUME NEW k \in 1 .. N PROVE n + k \in Nat /\ s[n + k] \in Framing
  OBVIOUS
<1> HIDE DEF N
<1>3. ASSUME NEW k \in 1 .. N PROVE FrameBytes(n + k, s[n + k]) \in Seq(Byte)
  <2> DEFINE p == n + k
             f == s[p]
  <2>1. p \in Nat /\ f \in Framing
    BY <1>2
  <2> HIDE DEF p, f
  <2>2. FrameShape(p, f, FrameHeader(p, f), FrameBytes(p, f), f.length)
    BY <2>1, FrameParts, Zenon
  <2>3. FrameBytes(p, f) \in Seq(Byte)
    BY <2>2, Zenon DEF FrameShape
  <2> QED BY <2>3 DEF p, f
<1>4. Untaken(s, n) = [k \in 1 .. N |-> FrameBytes(n + k, s[n + k])]
  BY DEF Untaken, N
<1>5. Untaken(s, n) \in Seq(Seq(Byte)) /\ Len(Untaken(s, n)) = N
  BY <1>1, <1>3, <1>4
<1>6. \A k \in 1 .. N : Untaken(s, n)[k] = FrameBytes(n + k, s[n + k])
  BY <1>4
<1> QED BY <1>2, <1>5, <1>6, Zenon DEF N

\* Nothing is to come when all frames are taken; otherwise it is the next frame
\* and the ones behind it.
LEMMA ComingBytes ==
  ASSUME NEW s \in Seq(Framing), NEW n \in Nat, n <= Len(s)
  PROVE  /\ Coming(s, n) \in Seq(Byte)
         /\ n = Len(s) => Coming(s, n) = << >>
         /\ n < Len(s) => /\ n + 1 <= Len(s) /\ s[n + 1] \in Framing
                          /\ Coming(s, n + 1) \in Seq(Byte)
                          /\ Coming(s, n) = FrameBytes(n + 1, s[n + 1]) \o Coming(s, n + 1)
<1>1. ASSUME n = Len(s) PROVE Coming(s, n) = << >> /\ << >> \in Seq(Byte)
  <2>1. Len(s) - n = 0
    BY <1>1
  <2>2. Len(Untaken(s, n)) = 0 /\ Untaken(s, n) \in Seq(Seq(Byte))
    BY <2>1, UntakenBytes
  <2>3. Untaken(s, n) = << >> /\ FlattenSeq(Untaken(s, n)) = Untaken(s, n)
    BY <2>2 DEF FlattenSeq
  <2> QED BY <2>3, EmptySeq DEF Coming
<1>2. ASSUME n < Len(s)
      PROVE  /\ n + 1 <= Len(s) /\ s[n + 1] \in Framing
             /\ Coming(s, n + 1) \in Seq(Byte)
             /\ Coming(s, n) = FrameBytes(n + 1, s[n + 1]) \o Coming(s, n + 1)
             /\ FrameBytes(n + 1, s[n + 1]) \in Seq(Byte)
  <2> DEFINE q == Untaken(s, n)
             r == Untaken(s, n + 1)
             N == Len(s) - n
             M == Len(s) - (n + 1)
  <2>1. n + 1 \in Nat /\ n + 1 <= Len(s) /\ N \in Nat /\ M \in Nat /\ N = M + 1 /\ 1 \in 1 .. N
    BY <1>2
  <2>2. /\ q \in Seq(Seq(Byte)) /\ Len(q) = N
        /\ \A k \in 1 .. N : q[k] = FrameBytes(n + k, s[n + k]) /\ s[n + k] \in Framing
    BY UntakenBytes, Zenon
  <2>3. /\ r \in Seq(Seq(Byte)) /\ Len(r) = M
        /\ \A k \in 1 .. M : r[k] = FrameBytes((n + 1) + k, s[(n + 1) + k])
    BY <2>1, UntakenBytes, Zenon
  <2> HIDE DEF q, r, N, M
  <2>4. \A k \in 1 .. Len(r) : r[k] = q[k + 1]
    <3> SUFFICES ASSUME NEW k \in 1 .. M PROVE r[k] = q[k + 1]
      BY <2>3
    <3>1. k + 1 \in 1 .. N /\ (n + 1) + k = n + (k + 1)
      BY <2>1
    <3>2. q[k + 1] = FrameBytes(n + (k + 1), s[n + (k + 1)])
      BY <2>2, <3>1
    <3> QED BY <2>3, <3>1, <3>2
  <2>5. Len(q) = Len(r) + 1
    BY <2>1, <2>2, <2>3
  <2>6. FlattenSeq(r) \in Seq(Byte) /\ FlattenSeq(q) = q[1] \o FlattenSeq(r)
    BY <2>2, <2>3, <2>4, <2>5, FlattenFirst
  <2>7. q[1] = FrameBytes(n + 1, s[n + 1]) /\ s[n + 1] \in Framing /\ q[1] \in Seq(Byte)
    BY <2>1, <2>2
  <2> QED BY <2>1, <2>6, <2>7, Zenon DEF Coming, q, r
<1>3. CASE n = Len(s)
  <2>1. ~(n < Len(s))
    BY <1>3
  <2> QED BY <1>1, <1>3, <2>1, Zenon
<1>4. CASE n # Len(s)
  <2>1. n < Len(s)
    BY <1>4
  <2> DEFINE x == FrameBytes(n + 1, s[n + 1])
             y == Coming(s, n + 1)
  <2>2. x \in Seq(Byte) /\ y \in Seq(Byte) /\ Coming(s, n) = x \o y
    BY <1>2, <2>1, Zenon
  <2> HIDE DEF x, y
  <2>3. Coming(s, n) \in Seq(Byte)
    BY <2>2, Joined
  <2> QED BY <1>2, <1>4, <2>3, Zenon
<1> QED BY <1>3, <1>4

\* A frame more comes behind the others.
LEMMA ComingLonger ==
  ASSUME NEW s \in Seq(Framing), NEW n \in Nat, n <= Len(s), NEW f \in Framing
  PROVE  Coming(Append(s, f), n) = Coming(s, n) \o FrameBytes(Len(s) + 1, f)
<1> DEFINE t == Append(s, f)
           q == Untaken(s, n)
           r == Untaken(t, n)
           N == Len(s) - n
<1>1. /\ t \in Seq(Framing) /\ Len(t) = Len(s) + 1 /\ t[Len(s) + 1] = f
      /\ \A i \in 1 .. Len(s) : t[i] = s[i]
  OBVIOUS
<1> HIDE DEF t
<1>2. N \in Nat /\ n <= Len(t) /\ Len(t) - n = N + 1 /\ n + (N + 1) = Len(s) + 1
  BY <1>1
<1>3. /\ q \in Seq(Seq(Byte)) /\ Len(q) = N
      /\ \A k \in 1 .. N : q[k] = FrameBytes(n + k, s[n + k])
  BY UntakenBytes, Zenon
<1>4. /\ r \in Seq(Seq(Byte)) /\ Len(r) = N + 1
      /\ \A k \in 1 .. N + 1 : r[k] = FrameBytes(n + k, t[n + k])
  <2>1. /\ r \in Seq(Seq(Byte)) /\ Len(r) = Len(t) - n
        /\ \A k \in 1 .. Len(t) - n : r[k] = FrameBytes(n + k, t[n + k])
    BY <1>1, <1>2, UntakenBytes, Zenon
  <2> QED BY <1>2, <2>1, Zenon
<1>5. ASSUME NEW k \in 1 .. N PROVE r[k] = q[k]
  <2>1. k \in 1 .. N + 1 /\ n + k \in 1 .. Len(s)
    BY <1>2
  <2>2. t[n + k] = s[n + k]
    BY <1>1, <2>1
  <2> QED BY <1>3, <1>4, <2>1, <2>2, Zenon
<1> HIDE DEF q, r, N
<1>6. r[N + 1] = FrameBytes(Len(s) + 1, f)
  <2>1. N + 1 \in 1 .. N + 1
    BY <1>2
  <2>2. r[N + 1] = FrameBytes(n + (N + 1), t[n + (N + 1)])
    BY <1>4, <2>1, Zenon
  <2> QED BY <1>1, <1>2, <2>2
<1>7. FlattenSeq(r) = FlattenSeq(q) \o r[Len(r)]
  <2>1. Len(r) = Len(q) + 1 /\ \A i \in 1 .. Len(q) : r[i] = q[i]
    BY <1>3, <1>4, <1>5
  <2> QED BY <1>3, <1>4, <2>1, FlattenLast
<1>8. Len(r) = N + 1
  BY <1>4
<1> QED BY <1>6, <1>7, <1>8, Zenon DEF Coming, q, r, t

\* What comes behind t comes behind all.
LEMMA AfterLonger ==
  ASSUME NEW S, NEW s \in Seq(S), NEW m \in Nat, m <= Len(s), NEW t \in Seq(S), NEW x \in Seq(S)
  PROVE  After(s, m, t \o x) = After(s, m, t) \o x
<1> DEFINE n == Len(s) - m
           y == SubSeq(s, m + 1, m + n)
<1>1. n \in Nat /\ m + n = Len(s)
  OBVIOUS
<1> HIDE DEF n
<1>2. y \in Seq(S)
  <2>1. m + n <= Len(s)
    BY <1>1
  <2> QED BY <1>1, <2>1, Cut
<1>3. After(s, m, t \o x) = y \o (t \o x) /\ After(s, m, t) = y \o t
  BY <1>1 DEF After
<1> HIDE DEF y
<1>4. (y \o t) \o x = y \o (t \o x)
  BY <1>2, ConcatAssociative
<1> QED BY <1>3, <1>4

\* What is buffered and what is on the wire stay the same together when a part moves.
LEMMA Received ==
  ASSUME NEW b \in Seq(Byte), NEW w \in Seq(Byte), NEW n \in Nat, n <= Len(w)
  PROVE  /\ SubSeq(w, 1, n) \in Seq(Byte) /\ SubSeq(w, n + 1, Len(w)) \in Seq(Byte)
         /\ b \o SubSeq(w, 1, n) \in Seq(Byte)
         /\ (b \o SubSeq(w, 1, n)) \o SubSeq(w, n + 1, Len(w)) = b \o w
<1> DEFINE l == Len(w) - n
           y == SubSeq(w, 0 + 1, 0 + n)
           z == SubSeq(w, n + 1, n + l)
<1>1. l \in Nat /\ n + l = Len(w) /\ 0 + 1 = 1 /\ 0 + n = n /\ 0 \in Nat
  OBVIOUS
<1> HIDE DEF l
<1>2. y \in Seq(Byte) /\ Len(y) = n /\ \A i \in 1 .. n : y[i] = w[0 + i]
  BY <1>1, Cut
<1>3. z \in Seq(Byte) /\ Len(z) = l /\ \A i \in 1 .. l : z[i] = w[n + i]
  <2>1. n + l <= Len(w)
    BY <1>1
  <2> QED BY <1>1, <2>1, Cut
<1>4. SubSeq(w, 1, n) = y /\ SubSeq(w, n + 1, Len(w)) = z
  BY <1>1, Zenon
<1> HIDE DEF y, z
<1>5. y \o z \in Seq(Byte) /\ Joins(y \o z, y, z)
  BY <1>2, <1>3, Joined
<1> DEFINE v == y \o z
<1>6. Len(v) = Len(w)
  <2> HIDE DEF v
  <2>1. Joins(v, y, z)
    BY <1>5 DEF v
  <2> QED BY <1>1, <1>2, <1>3, <2>1 DEF Joins
<1>7. ASSUME NEW i \in 1 .. Len(w) PROVE v[i] = w[i]
  <2> HIDE DEF v
  <2>1. Joins(v, y, z)
    BY <1>5 DEF v
  <2>2. CASE i <= n
    <3>1. i \in 1 .. n /\ 0 + i = i
      BY <2>2
    <3> QED BY <1>2, <2>1, <3>1 DEF Joins
  <2>3. CASE i > n
    <3> DEFINE j == i - n
    <3>1. j \in 1 .. l /\ i = n + j
      BY <1>1, <2>3
    <3> HIDE DEF j
    <3> QED BY <1>2, <1>3, <2>1, <3>1 DEF Joins
  <2> QED BY <2>2, <2>3
<1>8. v = w
  <2>1. v \in Seq(Byte)
    BY <1>5
  <2> HIDE DEF v
  <2> QED BY <1>6, <1>7, <2>1, SeqEqual
<1>9. (b \o y) \o z = b \o (y \o z) /\ b \o y \in Seq(Byte)
  <2>1. y \in Seq(Byte) /\ z \in Seq(Byte)
    BY <1>2, <1>3, Zenon
  <2> QED BY <2>1, Joined, ConcatAssociative
<1> QED BY <1>2, <1>3, <1>4, <1>8, <1>9, Zenon

\* The same bytes in other groups.
LEMMA Grouped ==
  ASSUME NEW x \in Seq(Byte), NEW y \in Seq(Byte), NEW z \in Seq(Byte)
  PROVE  (x \o y) \o z = x \o (y \o z)
  BY ConcatAssociative

\* A header is found: what is behind it is the payload, and the next frames.
LEMMA HeaderFound ==
  ASSUME NEW k \in Nat, NEW f \in Framing, NEW b \in Seq(Byte), NEW w \in Seq(Byte),
         NEW next \in Seq(Byte), b \o w = FrameBytes(k, f) \o next, Scans(b)
  PROVE  Handled(k, f, Scanned(b), b, Len(b) - HeaderSize(b), w, 0, << >>, next)
<1> DEFINE x == FrameBytes(k, f)
           h == FrameHeader(k, f)
           n == f.length
           P == Payload(k, f)
           z == b \o w
           m == Len(h)
<1>1. h \in Seq(Byte) /\ m \in Nat /\ x \in Seq(Byte)
  <2>1. FrameShape(k, f, h, x, n)
    BY FrameParts, Zenon
  <2>2. h \in Seq(Byte) /\ x \in Seq(Byte)
    BY <2>1, Zenon DEF FrameShape
  <2> QED BY <2>2
<1>2. n \in Nat /\ P \in Seq(Byte) /\ Len(P) = n
  BY PayloadBytes, Zenon
<1>3. z \in Seq(Byte) /\ Joins(z, b, w) /\ Joins(z, x, next)
  <2>1. z \in Seq(Byte) /\ Joins(z, b, w)
    BY Joined
  <2>2. Joins(x \o next, x, next)
    <3> HIDE DEF x
    <3> QED BY <1>1, Joined
  <2>3. z = x \o next
    OBVIOUS
  <2> QED BY <2>1, <2>2, <2>3, Zenon
<1>4. x = h \o P
  BY Zenon DEF FrameBytes
<1>z. z = x \o next
  OBVIOUS
<1> HIDE DEF x, P, n, z, h
<1>5. Begins(x, b)
  <2>1. \A i \in 1 .. Len(b) : z[i] = b[i]
    BY <1>3, Zenon DEF Joins
  <2>2. \A i \in 1 .. Len(x) : z[i] = x[i]
    BY <1>3, Zenon DEF Joins
  <2>3. \A i \in 1 .. Len(b) : i <= Len(x) => i \in 1 .. Len(x)
    BY <1>1
  <2> QED BY <2>1, <2>2, <2>3 DEF Begins
<1>6. /\ HeaderSize(b) = m /\ Len(b) >= m
      /\ Scanned(b) = [opcode |-> f.opcode, length |-> f.length, key |-> Key(k, f)]
  BY <1>5, PrefixScanned, Zenon DEF x, h
<1> HIDE DEF m
<1> DEFINE l == Len(b) - m
<1>7. /\ l \in Nat /\ l <= Len(b) /\ Len(b) - l = m /\ m <= Len(b) /\ 0 + m = m /\ 0 \in Nat
      /\ 0 <= Len(b)
  <2>1. Len(b) \in Nat
    OBVIOUS
  <2> QED BY <1>1, <1>6, <2>1
<1>8. After(b, m, w) \in Seq(Byte) /\ Drops(z, m, After(b, m, w))
  <2>1. After(b, m, w) \in Seq(Byte)
    BY <1>1, <1>7, AfterIs
  <2>2. Drops(After(b, 0, w), m, After(b, 0 + m, w))
    BY <1>1, <1>7, AfterGoesOn
  <2>3. After(b, 0, w) = z
    <3>1. SubSeq(b, 0 + 1, Len(b)) = b
      <4>1. 0 + 1 = 1
        OBVIOUS
      <4> QED BY <4>1, SubSeqFull
    <3> QED BY <3>1, Zenon DEF After, z
  <2> QED BY <1>7, <2>1, <2>2, <2>3, Zenon
<1>9. P \o next \in Seq(Byte) /\ Drops(z, m, P \o next)
  <2> DEFINE y == P \o next
  <2>1. y \in Seq(Byte)
    BY <1>2, Joined
  <2>2. z = h \o y
    <3>0. h \in Seq(Byte) /\ P \in Seq(Byte) /\ next \in Seq(Byte)
      BY <1>1, <1>2, Zenon
    <3>1. (h \o P) \o next = h \o (P \o next)
      BY <3>0, Grouped, Zenon
    <3> QED BY <1>4, <1>z, <3>1, Zenon
  <2> HIDE DEF y
  <2>3. Joins(z, h, y)
    BY <1>1, <2>1, <2>2, Joined
  <2>4. Len(z) = m + Len(y) /\ \A i \in 1 .. Len(y) : z[m + i] = y[i]
    BY <2>3, Zenon DEF Joins, m
  <2>5. Drops(z, m, y)
    <3>1. Len(y) \in Nat /\ Len(y) = Len(z) - m
      BY <1>1, <2>1, <2>4
    <3> QED BY <2>4, <3>1 DEF Drops
  <2> QED BY <2>1, <2>5 DEF y
<1>10. m <= Len(z)
  <2>1. Len(z) = Len(b) + Len(w) /\ Len(b) \in Nat /\ Len(w) \in Nat
    BY <1>3 DEF Joins
  <2> QED BY <1>7, <2>1
<1>11. After(b, m, w) = P \o next
  <2> DEFINE a == After(b, m, w)
             c == P \o next
  <2> HIDE DEF a, c
  <2>1. a \in Seq(Byte) /\ c \in Seq(Byte) /\ Drops(z, m, a) /\ Drops(z, m, c)
    BY <1>8, <1>9 DEF a, c
  <2>2. a = c
    BY <1>1, <1>3, <1>10, <2>1, DropsOne
  <2> QED BY <2>2 DEF a, c
<1>12. After(P, 0, next) = P \o next
  <2>1. SubSeq(P, 0 + 1, Len(P)) = P
    <3>1. 0 + 1 = 1
      OBVIOUS
    <3> QED BY <1>2, <3>1, SubSeqFull
  <2> QED BY <2>1, Zenon DEF After
<1>13. Plain(k, 0) = << >> /\ 0 <= n
  BY <1>2 DEF Plain
<1>14. l = Len(b) - HeaderSize(b)
  BY <1>6
<1> HIDE DEF l
<1>15. After(b, Len(b) - l, w) = After(P, 0, next)
  BY <1>7, <1>11, <1>12, Zenon
<1> QED BY <1>6, <1>7, <1>13, <1>14, <1>15, Zenon DEF Handled, n, P

\* What a read of n bytes takes from b and w, and what it leaves.
Buffered(l, n) == IF l < n THEN l ELSE n
Taken(b, l, w, n) == SubSeq(b, (Len(b) - l) + 1, (Len(b) - l) + Buffered(l, n))
                     \o SubSeq(w, 1, n - Buffered(l, n))
LeftThen(l, n) == IF l < n THEN 0 ELSE l - n
WireThen(l, w, n) == IF l < n THEN SubSeq(w, (n - l) + 1, Len(w)) ELSE w

\* Past the end of s there is only t.
LEMMA AfterAll ==
  ASSUME NEW S, NEW s \in Seq(S), NEW t \in Seq(S)
  PROVE  After(s, Len(s), t) = t
<1>1. Len(s) \in Nat
  OBVIOUS
<1>2. SubSeq(s, Len(s) + 1, Len(s)) = << >>
  BY <1>1, SubSeqEmpty
<1>3. << >> \o t = t
  BY ConcatEmptySeq
<1> QED BY <1>2, <1>3, Zenon DEF After

ReadShape(k, f, b, l, w, d, n, next) ==
  /\ WireThen(l, w, n) \in Seq(Byte) /\ LeftThen(l, n) \in Nat /\ LeftThen(l, n) <= Len(b)
  /\ After(b, Len(b) - LeftThen(l, n), WireThen(l, w, n)) = After(Payload(k, f), d + n, next)
  /\ \A i \in 1 .. n : Taken(b, l, w, n)[i] = Payload(k, f)[d + i]

\* A read takes the next bytes of the payload, and leaves the others and what is behind them.
LEMMA ReadOn ==
  ASSUME NEW k \in Nat, NEW f \in Framing, NEW fr, NEW b \in Seq(Byte), NEW l, NEW w \in Seq(Byte),
         NEW d, NEW tk, NEW next \in Seq(Byte), Handled(k, f, fr, b, l, w, d, tk, next),
         NEW n \in Nat, n <= f.length - d
  PROVE  ReadShape(k, f, b, l, w, d, n, next)
<1>s. SUFFICES /\ WireThen(l, w, n) \in Seq(Byte) /\ LeftThen(l, n) \in Nat /\ LeftThen(l, n) <= Len(b)
               /\ After(b, Len(b) - LeftThen(l, n), WireThen(l, w, n)) = After(Payload(k, f), d + n, next)
               /\ \A i \in 1 .. n : Taken(b, l, w, n)[i] = Payload(k, f)[d + i]
  BY Zenon DEF ReadShape
<1> DEFINE P == Payload(k, f)
           L == f.length
           m == Len(b) - l
           a == After(b, m, w)
           c == Buffered(l, n)
<1>1. L \in Nat /\ P \in Seq(Byte) /\ Len(P) = L
  BY PayloadBytes, Zenon
<1>2. l \in Nat /\ d \in Nat /\ l <= Len(b) /\ d <= L /\ a = After(P, d, next)
  BY Zenon DEF Handled
<1>3. n <= L - d
  OBVIOUS
<1> HIDE DEF P, L
<1>4. Len(b) \in Nat /\ Len(w) \in Nat /\ Len(next) \in Nat
  OBVIOUS
<1>5. m \in Nat /\ m <= Len(b) /\ d <= Len(P) /\ d + n <= Len(P) /\ Len(b) - m = l
  BY <1>1, <1>2, <1>3, <1>4
<1> HIDE DEF m, a
<1>6. a \in Seq(Byte) /\ AfterShape(a, b, m, w) /\ AfterShape(a, P, d, next)
  <2>1. a \in Seq(Byte) /\ AfterShape(a, b, m, w)
    BY <1>5, AfterIs DEF a
  <2>2. AfterShape(After(P, d, next), P, d, next)
    BY <1>1, <1>2, <1>5, AfterIs
  <2> QED BY <1>2, <2>1, <2>2, Zenon
<1> DEFINE B == Len(b)
           W == Len(w)
           X == Len(next)
           A == Len(a)
<1>7. A = (B - m) + W /\ A = (L - d) + X
  <2>1. Len(a) = (Len(b) - m) + Len(w) /\ Len(a) = (Len(P) - d) + Len(next)
    BY <1>6, Zenon DEF AfterShape
  <2> QED BY <1>1, <2>1
<1>n. /\ B \in Nat /\ W \in Nat /\ X \in Nat /\ L \in Nat /\ l \in Nat /\ d \in Nat /\ m \in Nat
      /\ m <= B /\ B - m = l /\ l <= B /\ d <= L /\ n <= L - d
  BY <1>1, <1>2, <1>3, <1>4, <1>5, Zenon
<1> HIDE DEF B, W, X, A
<1>8. n <= A /\ n <= l + W /\ A \in Nat
  BY <1>n, <1>7
<1>9. ASSUME NEW i \in 1 .. n PROVE Taken(b, l, w, n)[i] = P[d + i]
  <2>0. /\ c \in Nat /\ c <= n /\ m + c <= B /\ n - c <= W /\ (c = n \/ m + c = B)
    BY <1>n, <1>8 DEF Buffered
  <2>1. /\ c \in Nat /\ c <= n /\ m + c <= Len(b) /\ n - c <= Len(w)
        /\ (c = n \/ m + c = Len(b))
    BY <2>0, Zenon DEF B, W
  <2> HIDE DEF c
  <2> DEFINE x == SubSeq(b, m + 1, m + c) \o SubSeq(w, 1, n - c)
  <2>2. Fronts(x, n, After(b, m, w))
    BY <1>5, <2>1, FrontTaken
  <2>3. Taken(b, l, w, n) = x
    BY DEF Taken, m, c
  <2> HIDE DEF x
  <2>4. i \in 1 .. Len(P) - d
    BY <1>1, <1>2, <1>3
  <2>5. a[i] = P[d + i]
    BY <1>6, <2>4, Zenon DEF AfterShape
  <2> QED BY <2>2, <2>3, <2>5 DEF a, Fronts
<1>10. Drops(a, n, After(P, d + n, next)) /\ After(P, d + n, next) \in Seq(Byte)
  <2>1. Drops(After(P, d, next), n, After(P, d + n, next))
    BY <1>1, <1>2, <1>5, AfterGoesOn
  <2>2. d + n \in Nat
    BY <1>2
  <2> QED BY <1>1, <1>2, <1>5, <2>1, <2>2, AfterIs
<1>11. CASE l < n
  <2> DEFINE e == n - l
             z == SubSeq(w, e + 1, Len(w))
  <2>0. e \in Nat /\ e <= W /\ n = (B - m) + e
    BY <1>n, <1>8, <1>11
  <2>1. e \in Nat /\ e <= Len(w) /\ n = (Len(b) - m) + e
    BY <2>0, Zenon DEF B, W
  <2>2. LeftThen(l, n) = 0 /\ WireThen(l, w, n) = z
    BY <1>11 DEF LeftThen, WireThen
  <2> HIDE DEF e
  <2>3. Drops(a, n, z)
    BY <1>5, <2>1, AfterGoesPast DEF a
  <2>4. z \in Seq(Byte)
    BY <2>1, Received
  <2> HIDE DEF z
  <2>5. z = After(P, d + n, next)
    BY <1>6, <1>8, <1>10, <2>3, <2>4, DropsOne DEF A
  <2>6. After(b, Len(b) - 0, z) = z
    <3>1. Len(b) - 0 = Len(b)
      BY <1>4
    <3> QED BY <2>4, <3>1, AfterAll
  <2>7. 0 \in Nat /\ 0 <= Len(b)
    BY <1>4
  <2> QED BY <1>9, <2>2, <2>4, <2>5, <2>6, <2>7, Zenon DEF P, L
<1>12. CASE ~(l < n)
  <2> DEFINE e == l - n
             z == After(b, m + n, w)
  <2>1. e \in Nat /\ e <= Len(b) /\ Len(b) - e = m + n /\ m + n <= Len(b) /\ m + n \in Nat
    <3>1. e \in Nat /\ e <= B /\ B - e = m + n /\ m + n <= B /\ m + n \in Nat
      BY <1>n, <1>12
    <3> HIDE DEF e
    <3> QED BY <3>1, Zenon DEF B
  <2>2. LeftThen(l, n) = e /\ WireThen(l, w, n) = w
    BY <1>12 DEF LeftThen, WireThen
  <2> HIDE DEF e
  <2>3. Drops(a, n, z)
    BY <1>5, <2>1, AfterGoesOn DEF a
  <2>4. z \in Seq(Byte)
    BY <2>1, AfterIs
  <2> HIDE DEF z
  <2>5. z = After(P, d + n, next)
    BY <1>6, <1>8, <1>10, <2>3, <2>4, DropsOne DEF A
  <2>6. After(b, Len(b) - e, w) = z
    BY <2>1, Zenon DEF z
  <2> QED BY <1>9, <2>1, <2>2, <2>5, <2>6, Zenon DEF P, L
<1> QED BY <1>11, <1>12

\* A byte of the payload is the plain one when the right byte of the key has been used.
LEMMA Unmasks ==
  ASSUME NEW k \in Nat, NEW f \in Framing, frame.key = Key(k, f), NEW p \in 1 .. f.length
  PROVE  Unmasked(Payload(k, f)[p], p - 1) = <<"plain", k, p - 1>>
<1>1. f.length \in Nat
        /\ Payload(k, f)[p] = IF f.masked THEN <<"hidden", k, p - 1>> ELSE <<"plain", k, p - 1>>
  BY PayloadBytes, Zenon
<1>2. CASE f.masked
  <2> DEFINE key == [i \in 1 .. 4 |-> <<"key", k, i - 1>>]
             r == (p - 1) % 4
             b == <<"hidden", k, p - 1>>
  <2>1. r \in 0 .. 3 /\ r + 1 \in 1 .. 4 /\ (r + 1) - 1 = r
    BY <1>1
  <2>2. frame.key = key
    BY <1>2 DEF Key
  <2> HIDE DEF r
  <2>3. key[r + 1] = <<"key", k, r>>
    BY <2>1
  <2>4. key # << >>
    <3>1. 1 \in DOMAIN key /\ 1 \notin DOMAIN << >>
      OBVIOUS
    <3> QED BY <3>1, Zenon
  <2>5. b[1] = "hidden" /\ b[2] = k /\ b[3] = p - 1
    OBVIOUS
  <2>6. Payload(k, f)[p] = b
    BY <1>1, <1>2, Zenon
  <2> HIDE DEF b, key
  <2>7. frame.key[((p - 1) % 4) + 1] = <<"key", b[2], b[3] % 4>>
    BY <2>2, <2>3, <2>5, Zenon DEF r
  <2> QED BY <2>2, <2>4, <2>5, <2>6, <2>7, Zenon DEF Unmasked
<1>3. CASE ~f.masked
  BY <1>1, <1>3, Zenon DEF Key, Unmasked
<1> QED BY <1>2, <1>3

\* What WebbyRead takes, and what is left, are what the operators say.
LEMMA ReadsSo ==
  ASSUME left \in Nat, NEW n \in Nat
  PROVE  /\ Incoming(n) = Taken(buf, left, wire, n)
         /\ Consume(n) => left' = LeftThen(left, n) /\ wire' = WireThen(left, wire, n)
  BY Zenon DEF Incoming, Taken, Buffered, Consume, LeftThen, WireThen

\* Nothing is sent at first.
LEMMA InitFrames == Init => FramesInv
<1> SUFFICES ASSUME Init PROVE FramesInv
  OBVIOUS
<1>1. sent = << >> /\ calls = 0 /\ wire = << >> /\ buf = << >> /\ pc = "idle" /\ asked = 0
  BY DEF Init
<1>2. << >> \in Seq(Framing) /\ << >> \in Seq(Byte) /\ Len(<< >>) = 0 /\ << >> \o << >> = << >>
  <2>1. << >> \o << >> = << >>
    BY EmptySeq, ConcatEmptySeq
  <2> QED BY <2>1, EmptySeq
<1>4. /\ pc # "frame" /\ asked \in Nat
      /\ sent \in Seq(Framing) /\ calls \in Nat /\ calls <= Len(sent) /\ calls = Len(sent)
  BY <1>1, <1>2
<1>3. Coming(sent, calls) = << >>
  BY <1>4, ComingBytes, Zenon
<1> QED BY <1>1, <1>2, <1>3, <1>4 DEF FramesInv

\* What is sent comes behind the frames that are to come.
LEMMA SendFrames ==
  ASSUME FramesInv, NEW f \in Framing, SendFrame(f)
  PROVE  FramesInv'
<1> DEFINE k == Len(sent) + 1
           x == FrameBytes(k, f)
           c == Coming(sent, calls)
<1>1. /\ sent \in Seq(Framing) /\ calls \in Nat /\ calls <= Len(sent) /\ k \in Nat
      /\ wire \in Seq(Byte) /\ buf \in Seq(Byte) /\ pc \in {"idle", "frame"} /\ asked \in Nat
      /\ wire' = wire \o x /\ sent' = Append(sent, f)
      /\ UNCHANGED <<buf, left, frame, done, pc, asked, taken, calls>>
  BY DEF FramesInv, SendFrame
<1>2. x \in Seq(Byte)
  <2>1. FrameShape(k, f, FrameHeader(k, f), x, f.length)
    BY <1>1, FrameParts, Zenon
  <2> QED BY <2>1, Zenon DEF FrameShape
<1>3. /\ sent' \in Seq(Framing) /\ Len(sent') = k /\ calls <= Len(sent')
      /\ \A i \in 1 .. Len(sent) : sent'[i] = sent[i]
  BY <1>1
<1>5. Coming(sent', calls') = c \o x
  BY <1>1, ComingLonger, Zenon
<1>6. c \in Seq(Byte)
  BY <1>1, ComingBytes
<1> HIDE DEF x, c
<1>4. wire' \in Seq(Byte)
  BY <1>1, <1>2, Joined
<1>7. ASSUME pc = "idle" PROVE asked = 0 /\ buf \o (wire \o x) = c \o x
  <2>1. asked = 0 /\ buf \o wire = c
    BY <1>7 DEF FramesInv, c
  <2>2. (buf \o wire) \o x = buf \o (wire \o x)
    <3>1. buf \in Seq(Byte) /\ wire \in Seq(Byte) /\ x \in Seq(Byte)
      BY <1>1, <1>2, Zenon
    <3> QED BY ONLY <3>1, ConcatAssociative
  <2> QED BY <2>1, <2>2, Zenon
<1>8. ASSUME pc = "frame"
      PROVE  /\ calls >= 1 /\ asked <= frame.length - done
             /\ Handled(calls, sent'[calls], frame, buf, left, wire \o x, done, taken, c \o x)
  <2>1. /\ calls >= 1 /\ asked <= frame.length - done
        /\ Handled(calls, sent[calls], frame, buf, left, wire, done, taken, c)
    BY <1>8 DEF FramesInv, c
  <2>2. sent'[calls] = sent[calls] /\ sent[calls] \in Framing
    BY <1>1, <1>3, <2>1
  <2> DEFINE g == sent[calls]
             P == Payload(calls, g)
             m == Len(buf) - left
  <2>3. /\ left \in Nat /\ done \in Nat /\ left <= Len(buf) /\ done <= g.length
        /\ After(buf, m, wire) = After(P, done, c)
    BY <2>1, Zenon DEF Handled
  <2>4. P \in Seq(Byte) /\ Len(P) = g.length /\ g.length \in Nat
    BY <1>1, <2>2, PayloadBytes, Zenon
  <2>5. m \in Nat /\ m <= Len(buf) /\ done <= Len(P)
    <3>1. Len(buf) \in Nat
      BY <1>1
    <3> QED BY <2>3, <2>4, <3>1
  <2> HIDE DEF P, m, g
  <2>6. After(buf, m, wire \o x) = After(buf, m, wire) \o x
    <3>1. buf \in Seq(Byte) /\ m \in Nat /\ m <= Len(buf) /\ wire \in Seq(Byte) /\ x \in Seq(Byte)
      BY <1>1, <1>2, <2>5
    <3> QED BY ONLY <3>1, AfterLonger
  <2>7. After(P, done, c \o x) = After(P, done, c) \o x
    <3>1. /\ P \in Seq(Byte) /\ done \in Nat /\ done <= Len(P) /\ c \in Seq(Byte)
          /\ x \in Seq(Byte)
      BY <1>2, <1>6, <2>3, <2>4, <2>5, Zenon
    <3> QED BY ONLY <3>1, AfterLonger
  <2>8. After(buf, m, wire \o x) = After(P, done, c \o x)
    BY <2>3, <2>6, <2>7, Zenon
  <2> QED BY <2>1, <2>2, <2>8, Zenon DEF Handled, P, m, g
<1> QED BY <1>1, <1>3, <1>4, <1>5, <1>7, <1>8, Zenon DEF FramesInv

\* What is received stays in order, and a header is only found where a frame begins.
LEMMA ReadsFrame ==
  ASSUME FramesInv, NEW n \in Nat, ReadFrame(n)
  PROVE  FramesInv'
<1> DEFINE b == buf \o SubSeq(wire, 1, n)
           w == SubSeq(wire, n + 1, Len(wire))
           c == Coming(sent, calls)
<1>1. /\ sent \in Seq(Framing) /\ calls \in Nat /\ calls <= Len(sent)
      /\ wire \in Seq(Byte) /\ buf \in Seq(Byte) /\ asked = 0
      /\ pc = "idle" /\ buf \o wire = c
      /\ n <= Len(wire) /\ wire' = w /\ buf' = b /\ sent' = sent /\ asked' = asked
  BY DEF FramesInv, ReadFrame, FillBuffer
<1>2. w \in Seq(Byte) /\ b \in Seq(Byte) /\ b \o w = c
  <2>1. w \in Seq(Byte) /\ b \in Seq(Byte) /\ b \o w = buf \o wire
    BY <1>1, Received
  <2> QED BY <1>1, <2>1, Zenon
<1>3. IF ~Scans(b) THEN UNCHANGED <<left, frame, done, pc, taken, calls>>
      ELSE /\ frame' = Scanned(b) /\ left' = Len(b) - HeaderSize(b)
           /\ done' = 0 /\ taken' = << >> /\ pc' = "frame" /\ calls' = calls + 1
  <2>1. IF Scans(b) THEN TakeFrame(Scanned(b), HeaderSize(b)) ELSE NoHeaderYet
    BY <1>1, Zenon DEF ReadFrame
  <2> QED BY <1>1, <2>1, Zenon DEF TakeFrame, NoHeaderYet
<1> HIDE DEF b, w
<1>4. CASE ~Scans(b)
  <2>1. pc' = pc /\ calls' = calls
    BY <1>3, <1>4, Zenon
  <2>2. pc' # "frame" /\ asked' \in Nat
    BY <1>1, <2>1
  <2> QED BY <1>1, <1>2, <2>1, <2>2, Zenon DEF FramesInv
<1>5. CASE Scans(b)
  <2> DEFINE k == calls + 1
             next == Coming(sent, k)
  <2>1. calls < Len(sent)
    <3>1. Len(b) >= 2
      BY <1>5, Zenon DEF Scans
    <3>2. Joins(b \o w, b, w)
      BY <1>2, Joined
    <3> DEFINE x == b \o w
    <3>3. Len(x) = Len(b) + Len(w)
      BY <3>2, Zenon DEF Joins
    <3> HIDE DEF x
    <3>4. Len(x) # 0
      BY <1>2, <3>1, <3>3
    <3>5. x # << >>
      BY <3>4
    <3>6. calls # Len(sent)
      BY <1>1, <1>2, <3>5, ComingBytes, Zenon DEF x
    <3> QED BY <1>1, <3>6
  <2>2. k \in Nat /\ k >= 1 /\ calls' = k /\ pc' = "frame" /\ k <= Len(sent)
    BY <1>1, <1>3, <1>5, <2>1
  <2>3. sent[k] \in Framing /\ next \in Seq(Byte) /\ b \o w = FrameBytes(k, sent[k]) \o next
    BY <1>1, <1>2, <2>1, ComingBytes, Zenon
  <2> HIDE DEF k, next
  <2>4. Coming(sent', calls') = next
    BY <1>1, <2>2, Zenon DEF next
  <2>5. Handled(k, sent[k], Scanned(b), b, Len(b) - HeaderSize(b), w, 0, << >>, next)
    BY <1>2, <1>5, <2>2, <2>3, HeaderFound, Zenon
  <2>6. Handled(calls', sent'[calls'], frame', buf', left', wire', done', taken',
                Coming(sent', calls'))
    BY <1>1, <1>3, <1>5, <2>2, <2>4, <2>5, Zenon
  <2>7. pc' # "idle" /\ asked' \in Nat /\ asked' <= frame'.length - done'
    <3>1. frame'.length = sent[k].length /\ done' = 0 /\ sent[k].length \in Nat
      <4>1. frame' = Scanned(b) /\ done' = 0
        BY <1>3, <1>5, Zenon
      <4>2. Scanned(b) = [opcode |-> sent[k].opcode, length |-> sent[k].length,
                          key |-> Key(k, sent[k])]
        BY <2>5, Zenon DEF Handled
      <4>3. sent[k].length \in Nat
        BY <2>2, <2>3, PayloadBytes, Zenon
      <4> QED BY <4>1, <4>2, <4>3
    <3> QED BY <1>1, <2>2, <3>1
  <2> QED BY <1>1, <1>2, <2>2, <2>6, <2>7, Zenon DEF FramesInv
<1> QED BY <1>4, <1>5

\* More of the payload without its mask.
LEMMA PlainGoesOn ==
  ASSUME NEW k, NEW d \in Nat, NEW n \in Nat, NEW x,
         x = [i \in 1 .. n |-> <<"plain", k, (d + i) - 1>>]
  PROVE  Plain(k, d) \o x = Plain(k, d + n)
<1> DEFINE p == Plain(k, d)
           r == Plain(k, d + n)
           S == {<<"plain", k>>} \cup {"plain"} \X {k} \X Int
<1>1. /\ p \in Seq(S) /\ Len(p) = d /\ \A i \in 1 .. d : p[i] = <<"plain", k, i - 1>>
  BY DEF Plain
<1>2. /\ r \in Seq(S) /\ Len(r) = d + n /\ \A i \in 1 .. d + n : r[i] = <<"plain", k, i - 1>>
  BY DEF Plain
<1>3. /\ x \in Seq(S) /\ Len(x) = n /\ \A i \in 1 .. n : x[i] = <<"plain", k, (d + i) - 1>>
  BY DEF Plain
<1> HIDE DEF p, r, S
<1>4. p \o x \in Seq(S) /\ Joins(p \o x, p, x)
  BY <1>1, <1>3, Joined
<1> DEFINE y == p \o x
<1>5. y \in Seq(S) /\ Joins(y, p, x)
  BY <1>4
<1> HIDE DEF y
<1>6. Len(y) = d + n
  BY <1>1, <1>3, <1>5 DEF Joins
<1>7. ASSUME NEW i \in 1 .. d + n PROVE y[i] = r[i]
  <2>1. CASE i <= d
    <3>1. i \in 1 .. d
      BY <2>1
    <3> QED BY <1>1, <1>2, <1>5, <3>1 DEF Joins
  <2>2. CASE i > d
    <3> DEFINE j == i - d
    <3>1. j \in 1 .. n /\ i = d + j
      BY <2>2
    <3> HIDE DEF j
    <3>2. y[i] = x[j]
      BY <1>1, <1>3, <1>5, <3>1 DEF Joins
    <3> QED BY <1>2, <1>3, <3>1, <3>2
  <2> QED BY <2>1, <2>2
<1>8. y = r
  BY <1>2, <1>5, <1>6, <1>7, SeqEqual
<1> QED BY <1>8 DEF y, p, r

\* While a frame is handled: what is known of it, and of what comes behind it.
LEMMA HandlingOne ==
  ASSUME FramesInv, pc = "frame"
  PROVE  /\ sent \in Seq(Framing) /\ calls \in 1 .. Len(sent) /\ sent[calls] \in Framing
         /\ calls <= Len(sent)
         /\ wire \in Seq(Byte) /\ buf \in Seq(Byte) /\ Coming(sent, calls) \in Seq(Byte)
         /\ Handled(calls, sent[calls], frame, buf, left, wire, done, taken, Coming(sent, calls))
         /\ left \in Nat /\ done \in Nat /\ done <= sent[calls].length
         /\ frame = [opcode |-> sent[calls].opcode, length |-> sent[calls].length,
                     key |-> Key(calls, sent[calls])]
         /\ sent[calls].length \in Nat /\ asked \in Nat /\ asked <= frame.length - done
<1>1. /\ sent \in Seq(Framing) /\ calls \in Nat /\ calls <= Len(sent)
      /\ wire \in Seq(Byte) /\ buf \in Seq(Byte) /\ calls >= 1
      /\ asked \in Nat /\ asked <= frame.length - done
      /\ Handled(calls, sent[calls], frame, buf, left, wire, done, taken, Coming(sent, calls))
  BY DEF FramesInv
<1>2. calls \in 1 .. Len(sent)
  BY <1>1
<1>3. sent[calls] \in Framing
  BY <1>1, <1>2
<1>4. Coming(sent, calls) \in Seq(Byte)
  BY <1>1, ComingBytes
<1>5. sent[calls].length \in Nat
  BY <1>3, PayloadBytes, Zenon
<1> QED BY <1>1, <1>2, <1>3, <1>4, <1>5, Zenon DEF Handled

\* WebbyRead hands over the next bytes of the payload without their mask.
LEMMA ReadsPayload ==
  ASSUME FramesInv, WebbyRead
  PROVE  FramesInv'
<1> DEFINE n == asked
           f == sent[calls]
           x == [i \in 1 .. n |-> Unmasked(Incoming(n)[i], done + i - 1)]
           l == LeftThen(left, n)
           w == WireThen(left, wire, n)
           next == Coming(sent, calls)
<1>0. asked # 0 /\ asked \in Nat /\ pc \in {"idle", "frame"}
  BY DEF WebbyRead, FramesInv
<1>1. /\ pc = "frame" /\ Consume(n) /\ taken' = taken \o x /\ done' = done + n /\ asked' = 0
      /\ UNCHANGED <<buf, frame, pc, calls, sent>>
  <2>1. pc # "idle"
    BY <1>0 DEF FramesInv
  <2>2. pc = "frame"
    BY <1>0, <2>1
  <2> QED BY <2>2 DEF WebbyRead
<1>2. /\ sent \in Seq(Framing) /\ calls \in 1 .. Len(sent) /\ f \in Framing
      /\ calls <= Len(sent)
      /\ wire \in Seq(Byte) /\ buf \in Seq(Byte) /\ next \in Seq(Byte)
      /\ Handled(calls, f, frame, buf, left, wire, done, taken, next)
      /\ left \in Nat /\ done \in Nat /\ done <= f.length
      /\ frame = [opcode |-> f.opcode, length |-> f.length, key |-> Key(calls, f)]
      /\ f.length \in Nat /\ n \in Nat /\ n <= frame.length - done
  BY <1>1, HandlingOne, Zenon
<1> HIDE DEF n
<1>3. n <= f.length - done /\ calls \in Nat /\ calls >= 1 /\ frame.key = Key(calls, f)
  BY <1>2
<1>4. /\ w \in Seq(Byte) /\ l \in Nat /\ l <= Len(buf)
      /\ After(buf, Len(buf) - l, w) = After(Payload(calls, f), done + n, next)
      /\ \A i \in 1 .. n : Taken(buf, left, wire, n)[i] = Payload(calls, f)[done + i]
  <2> HIDE DEF f, next, x
  <2>1. ReadShape(calls, f, buf, left, wire, done, n, next)
    BY <1>2, <1>3, ReadOn
  <2> QED BY <2>1, Zenon DEF ReadShape
<1>5. left' = l /\ wire' = w /\ done' = done + n /\ Incoming(n) = Taken(buf, left, wire, n)
  BY <1>1, <1>2, ReadsSo, Zenon
<1>6. ASSUME NEW i \in 1 .. n
      PROVE  Unmasked(Incoming(n)[i], done + i - 1) = <<"plain", calls, (done + i) - 1>>
  <2> DEFINE p == done + i
             L == f.length
  <2>1. p \in 1 .. L /\ done + i - 1 = p - 1
    <3>1. L \in Nat /\ done \in Nat /\ n \in Nat /\ n <= L - done
      BY <1>2, <1>3
    <3> HIDE DEF L
    <3> QED BY <3>1
  <2>2. Incoming(n)[i] = Payload(calls, f)[p]
    BY <1>4, <1>5, Zenon
  <2> HIDE DEF p
  <2>3. Unmasked(Payload(calls, f)[p], p - 1) = <<"plain", calls, p - 1>>
    BY <1>2, <1>3, <2>1, Unmasks, Zenon
  <2> QED BY <2>1, <2>2, <2>3, Zenon DEF p
<1>7. x = [i \in 1 .. n |-> <<"plain", calls, (done + i) - 1>>]
  BY <1>6, Zenon
<1>8. taken = Plain(calls, done)
  BY <1>2, Zenon DEF Handled
<1>9. taken \o x = Plain(calls, done + n)
  <2> HIDE DEF x
  <2> QED BY <1>2, <1>7, <1>8, PlainGoesOn, Zenon
<1> HIDE DEF x, l, w, next, f
<1>10. done + n \in Nat /\ done + n <= f.length
  BY <1>2, <1>3
<1>11. Handled(calls, f, frame, buf, l, w, done + n, taken \o x, next)
  BY <1>2, <1>4, <1>9, <1>10, Zenon DEF Handled
<1>12. Handled(calls', sent'[calls'], frame', buf', left', wire', done', taken',
               Coming(sent', calls'))
  BY <1>1, <1>5, <1>11, Zenon DEF f, next
<1>13. pc' # "idle" /\ asked' \in Nat /\ asked' <= frame'.length - done'
  <2>1. frame' = frame /\ frame.length = f.length /\ done' = done + n /\ asked' = 0 /\ pc' = pc
    BY <1>1, <1>2, Zenon
  <2> QED BY <1>1, <1>2, <1>10, <2>1
<1> QED BY <1>1, <1>2, <1>3, <1>4, <1>5, <1>12, <1>13, Zenon DEF FramesInv

\* The rest of the payload is skipped, and nothing behind it, unless it was buffered.
LEMMA FramesDone ==
  ASSUME FramesInv, FrameDone, astray' = {}
  PROVE  FramesInv'
<1> DEFINE f == sent[calls]
           n == frame.length - done
           l == LeftThen(left, n)
           w == WireThen(left, wire, n)
           next == Coming(sent, calls)
           P == Payload(calls, f)
<1>0. pc = "frame" /\ asked = 0 /\ asked' = asked
  BY DEF FrameDone
<1>2. /\ sent \in Seq(Framing) /\ calls \in 1 .. Len(sent) /\ f \in Framing
      /\ calls <= Len(sent)
      /\ wire \in Seq(Byte) /\ buf \in Seq(Byte) /\ next \in Seq(Byte)
      /\ Handled(calls, f, frame, buf, left, wire, done, taken, next)
      /\ left \in Nat /\ done \in Nat /\ done <= f.length
      /\ frame = [opcode |-> f.opcode, length |-> f.length, key |-> Key(calls, f)]
      /\ f.length \in Nat
  BY <1>0, HandlingOne, Zenon
<1> DEFINE rest == IF done < frame.length THEN frame.length - done ELSE 0
<1>r. rest = n
  <2>1. frame.length = f.length
    BY <1>2
  <2> QED BY <1>2, <2>1
<1> HIDE DEF n
<1>1. /\ pc = "frame" /\ wire' = w /\ buf' = << >> /\ pc' = "idle" /\ UNCHANGED <<calls, sent>>
      /\ ~(left > n)
  <2>1. /\ wire' = IF left < rest THEN SubSeq(wire, rest - left + 1, Len(wire)) ELSE wire
        /\ astray' = IF left > rest THEN astray \cup {"forgot"} ELSE astray
    BY Zenon DEF FrameDone
  <2> HIDE DEF rest
  <2>2. ~(left > n)
    <3>1. astray \cup {"forgot"} # {}
      OBVIOUS
    <3> QED BY <1>r, <2>1, <3>1, Zenon
  <2> QED BY <1>r, <2>1, <2>2, Zenon DEF FrameDone, WireThen
<1>3. /\ n \in Nat /\ n <= f.length - done /\ calls \in Nat /\ done + n = f.length
  <2> DEFINE L == f.length
  <2>0. /\ frame.length = L /\ L \in Nat /\ done \in Nat /\ left \in Nat /\ done <= L
        /\ calls \in 1 .. Len(sent) /\ Len(sent) \in Nat
    BY <1>2
  <2> HIDE DEF L
  <2>1. n = L - done /\ L \in Nat /\ done \in Nat /\ done <= L /\ calls \in Nat
    BY <2>0 DEF n
  <2>2. n \in Nat /\ n <= L - done /\ calls \in Nat /\ done + n = L
    BY <2>1
  <2> QED BY <2>2, Zenon DEF L
<1>4. /\ w \in Seq(Byte) /\ l \in Nat /\ l <= Len(buf)
      /\ After(buf, Len(buf) - l, w) = After(P, done + n, next)
  <2> HIDE DEF f, next
  <2>1. ReadShape(calls, f, buf, left, wire, done, n, next)
    BY <1>2, <1>3, ReadOn
  <2> QED BY <2>1, Zenon DEF ReadShape
<1>5. P \in Seq(Byte) /\ Len(P) = f.length
  BY <1>2, <1>3, PayloadBytes, Zenon
<1>6. l = 0 /\ Len(buf) - l = Len(buf)
  <2>1. l = 0
    BY <1>1, <1>2, <1>3 DEF LeftThen
  <2>2. Len(buf) \in Nat
    BY <1>2
  <2> QED BY <2>1, <2>2
<1> HIDE DEF P, w, l
<1>7. After(buf, Len(buf), w) = After(P, Len(P), next)
  BY <1>3, <1>4, <1>5, <1>6, Zenon
<1>8. After(buf, Len(buf), w) = w
  BY <1>2, <1>4, AfterAll
<1> HIDE DEF next
<1>9. After(P, Len(P), next) = next
  BY <1>2, <1>5, AfterAll
<1>10. << >> \o w = w /\ << >> \in Seq(Byte)
  BY <1>4, ConcatEmptySeq, EmptySeq
<1>11. buf' \o wire' = Coming(sent', calls')
  BY <1>1, <1>7, <1>8, <1>9, <1>10, Zenon DEF next
<1>12. pc' # "frame" /\ pc' \in {"idle", "frame"} /\ asked' \in Nat /\ asked' = 0
  BY <1>0, <1>1
<1> QED BY <1>1, <1>2, <1>3, <1>4, <1>10, <1>11, <1>12, Zenon DEF FramesInv

\* Frames are found until webby loses its place.
Found == astray = {} => FramesInv

\* Every step leaves the frames in order, or loses the place.
LEMMA NextFrames == Found /\ [Next]_vars => Found'
<1> SUFFICES ASSUME Found, [Next]_vars, astray' = {} PROVE FramesInv'
  BY Zenon DEF Found
<1>1. ASSUME NEW f \in Frames, SendFrame(f) PROVE FramesInv'
  <2>1. f \in Framing /\ FramesInv
    BY <1>1, FramesAssumption DEF Framing, Found, SendFrame
  <2> QED BY <1>1, <2>1, SendFrames, Zenon
<1>2. ASSUME NEW n \in 0 .. BufSize, ReadFrame(n) PROVE FramesInv'
  <2>1. n \in Nat /\ FramesInv
    BY <1>2, FramesAssumption DEF Found, ReadFrame
  <2> QED BY <1>2, <2>1, ReadsFrame, Zenon
<1>3. ASSUME NEW n \in 0 .. BufSize, ReadAstray(n) PROVE FramesInv'
  BY <1>3, Zenon DEF ReadAstray
<1>4. ASSUME NEW n \in Reads, HandlerRead(n) PROVE FramesInv'
  <2>1. /\ n \in Nat /\ pc = "frame" /\ asked' = n
        /\ UNCHANGED <<wire, buf, left, frame, done, pc, taken, calls, sent>>
        /\ astray' = IF n > frame.length - done THEN astray \cup {"overread"} ELSE astray
    BY <1>4, FramesAssumption DEF HandlerRead
  <2>2. FramesInv /\ ~(n > frame.length - done)
    <3>1. astray \cup {"overread"} # {}
      OBVIOUS
    <3> QED BY <2>1, <3>1, Zenon DEF Found
  <2>3. n <= frame.length - done /\ pc # "idle"
    <3>1. done \in Nat /\ frame.length \in Nat
      <4>1. done \in Nat /\ sent[calls].length \in Nat /\ frame.length = sent[calls].length
        BY <2>1, <2>2, HandlingOne
      <4> QED BY <4>1
    <3> QED BY <2>1, <2>2, <3>1
  <2> QED BY <2>1, <2>2, <2>3, Zenon DEF FramesInv
<1>5. ASSUME WebbyRead PROVE FramesInv'
  <2>1. FramesInv
    BY <1>5, Zenon DEF Found, WebbyRead
  <2> QED BY <1>5, <2>1, ReadsPayload, Zenon
<1>6. ASSUME FrameDone PROVE FramesInv'
  <2>1. astray' = astray \cup {"forgot"} \/ astray' = astray
    BY <1>6, Zenon DEF FrameDone
  <2>2. astray = {}
    BY <2>1
  <2> QED BY <1>6, <2>2, FramesDone, Zenon DEF Found
<1>7. ASSUME UNCHANGED <<inVars, sent>> PROVE FramesInv'
  BY <1>7, Zenon DEF FramesInv, Found, inVars
<1>8. ASSUME NEW op \in {1, 2}, BeginSocketFrame(op) PROVE FramesInv'
  BY <1>7, <1>8 DEF BeginSocketFrame
<1>9. ASSUME NEW n \in Sizes, Write(n) PROVE FramesInv'
  BY <1>7, <1>9 DEF Write
<1>10. ASSUME EndSocketFrame PROVE FramesInv'
  BY <1>7, <1>10 DEF EndSocketFrame
<1>11. ASSUME Receive PROVE FramesInv'
  BY <1>7, <1>11, Zenon DEF Receive
<1>12. ASSUME UNCHANGED vars PROVE FramesInv'
  BY <1>7, <1>12 DEF vars
<1> QED BY <1>1, <1>2, <1>3, <1>4, <1>5, <1>6, <1>8, <1>9, <1>10, <1>11, <1>12, Zenon DEF Next

\* What is buffered and on the wire is what is left of the frames.
LEMMA FramesFollow == Found => FramesIntact
<1> SUFFICES ASSUME FramesInv PROVE FramesIntact
  BY Zenon DEF Found, FramesIntact
<1> DEFINE next == Coming(sent, calls)
<1>1. /\ sent \in Seq(Framing) /\ calls \in Nat /\ calls <= Len(sent)
      /\ wire \in Seq(Byte) /\ buf \in Seq(Byte) /\ pc \in {"idle", "frame"}
      /\ Len(buf) \in Nat
  BY DEF FramesInv
<1>2. /\ FlattenSeq([k \in 1 .. Len(sent) - calls |-> FrameBytes(calls + k, sent[calls + k])]) = next
      /\ next \in Seq(Byte)
  BY <1>1, ComingBytes, Zenon DEF Coming, Untaken
<1> HIDE DEF next
<1>3. CASE pc = "idle"
  <2>1. buf \o wire = next
    BY <1>3 DEF FramesInv, next
  <2>2. SubSeq(buf, 0 + 1, Len(buf)) = buf
    <3>1. 0 + 1 = 1
      OBVIOUS
    <3> QED BY <1>1, <3>1, SubSeqFull
  <2>3. Ahead = next
    BY <1>3, <2>1, <2>2, Zenon DEF Ahead
  <2>4. << >> \o next = next
    BY <1>2, ConcatEmptySeq
  <2>5. Expected = next
    BY <1>2, <1>3, <2>4, Zenon DEF Expected
  <2>6. pc # "frame"
    BY <1>3
  <2> QED BY <2>3, <2>5, <2>6, Zenon DEF FramesIntact
<1>4. CASE pc = "frame"
  <2> DEFINE f == sent[calls]
             P == Payload(calls, f)
             h == FrameHeader(calls, f)
             x == FrameBytes(calls, f)
             L == f.length
  <2>1. /\ f \in Framing
        /\ Handled(calls, f, frame, buf, left, wire, done, taken, next)
        /\ left \in Nat /\ done \in Nat /\ done <= L
        /\ frame = [opcode |-> f.opcode, length |-> f.length, key |-> Key(calls, f)]
        /\ L \in Nat
    BY <1>4, HandlingOne, Zenon DEF next
  <2>2. frame.opcode = f.opcode /\ frame.length = f.length
    BY <2>1
  <2>3. P \in Seq(Byte) /\ Len(P) = L
    BY <1>1, <2>1, PayloadBytes, Zenon
  <2>4. FrameShape(calls, f, h, x, L)
    BY <1>1, <2>1, FrameParts, Zenon
  <2> HIDE DEF f
  <2>5. Ahead = After(P, done, next)
    <3>1. pc # "idle"
      BY <1>4
    <3>2. Ahead = After(buf, Len(buf) - left, wire)
      BY <3>1, Zenon DEF Ahead, After
    <3> QED BY <2>1, <3>2, Zenon DEF Handled
  <2> HIDE DEF L, P, h, x
  <2>6. SubSeq(x, Len(x) - L + done + 1, Len(x)) = SubSeq(P, done + 1, Len(P))
    <3> DEFINE m == Len(h)
               n == L - done
               e == m + done
               y == SubSeq(x, e + 1, e + n)
               z == SubSeq(P, done + 1, done + n)
    <3>1. /\ h \in Seq(Byte) /\ x \in Seq(Byte) /\ Len(x) = Len(h) + L
          /\ \A i \in 1 .. L : x[Len(h) + i] = P[i]
      BY <2>4, Zenon DEF FrameShape, P
    <3>2. m \in Nat /\ n \in Nat /\ e \in Nat /\ e + n = Len(x) /\ done + n = Len(P)
          /\ Len(x) - L + done + 1 = e + 1 /\ e = m + done /\ done + n = L
      BY <2>1, <2>3, <3>1
    <3> HIDE DEF m, n, e
    <3>3. y \in Seq(Byte) /\ Len(y) = n /\ \A i \in 1 .. n : y[i] = x[e + i]
      <4>1. x \in Seq(Byte) /\ e \in Nat /\ n \in Nat /\ e + n <= Len(x)
        BY <3>1, <3>2
      <4> QED BY ONLY <4>1, Cut
    <3>4. z \in Seq(Byte) /\ Len(z) = n /\ \A i \in 1 .. n : z[i] = P[done + i]
      <4>1. done + n <= Len(P)
        BY <3>2, <2>1
      <4> QED BY <2>1, <2>3, <3>2, <4>1, Cut
    <3> HIDE DEF y, z
    <3>5. ASSUME NEW i \in 1 .. n PROVE y[i] = z[i]
      <4>1. done + i \in 1 .. L /\ e + i = m + (done + i)
        BY <2>1, <3>2
      <4>2. x[m + (done + i)] = P[done + i]
        BY <3>1, <4>1 DEF m
      <4> QED BY <3>3, <3>4, <4>1, <4>2
    <3>6. y = z
      BY <3>3, <3>4, <3>5, SeqEqual
    <3> QED BY <3>2, <3>6, Zenon DEF y, z
  <2>7. Expected = After(P, done, next)
    <3>1. pc # "idle"
      BY <1>4
    <3>2. Expected = SubSeq(x, Len(x) - L + done + 1, Len(x)) \o next
      BY <1>2, <3>1, Zenon DEF Expected, Current, x, L, f
    <3> QED BY <2>6, <3>2, Zenon DEF After
  <2>8. taken = SubSeq(PlainBytes(calls, f), 1, done)
    <3> DEFINE p == PlainBytes(calls, f)
               q == Plain(calls, done)
               S == {"plain"} \X {calls} \X Int
    <3>1. taken = q
      BY <2>1, Zenon DEF Handled
    <3>2. p \in Seq(S) /\ Len(p) = L /\ \A i \in 1 .. L : p[i] = <<"plain", calls, i - 1>>
      <4>1. p = [i \in 1 .. L |-> <<"plain", calls, i - 1>>]
        BY Zenon DEF PlainBytes, L
      <4> HIDE DEF p
      <4> QED BY <2>1, <4>1
    <3>3. q \in Seq(S) /\ Len(q) = done /\ \A i \in 1 .. done : q[i] = <<"plain", calls, i - 1>>
      <4>1. q = [i \in 1 .. done |-> <<"plain", calls, i - 1>>]
        BY Zenon DEF Plain
      <4> HIDE DEF q
      <4> QED BY <2>1, <4>1
    <3> HIDE DEF p, q, S
    <3> DEFINE y == SubSeq(p, 0 + 1, 0 + done)
    <3>4. y \in Seq(S) /\ Len(y) = done /\ \A i \in 1 .. done : y[i] = p[0 + i]
      <4>1. 0 \in Nat /\ 0 + done <= Len(p)
        BY <2>1, <3>2
      <4> QED BY <2>1, <3>2, <4>1, Cut
    <3>5. 0 + 1 = 1 /\ 0 + done = done
      BY <2>1
    <3>6. y = SubSeq(p, 1, done)
      BY <3>5, Zenon
    <3> HIDE DEF y
    <3>7. ASSUME NEW i \in 1 .. done PROVE y[i] = q[i]
      <4>1. i \in 1 .. L /\ 0 + i = i
        BY <2>1
      <4> QED BY <3>2, <3>3, <3>4, <4>1
    <3>8. y = q
      BY <3>3, <3>4, <3>7, SeqEqual
    <3> QED BY <3>1, <3>6, <3>8, Zenon DEF p
  <2> QED BY <2>2, <2>5, <2>7, <2>8, Zenon DEF FramesIntact, f
<1> QED BY <1>1, <1>3, <1>4

\* For any frames, sent at any time, and any handlers: until a handler asks for
\* more than its frame has, or a frame is taken with the beginning of the next
\* one in the buffer, webby finds every frame where it begins, and hands over
\* its payload.
THEOREM FramesFound == Spec => []FramesIntact
<1>1. Init => Found
  BY InitFrames DEF Found
<1> QED BY <1>1, NextFrames, FramesFollow, PTL DEF Spec

-----------------------------------------------------------------------------
(* Messages that are written *)

\* What is written of a fragment: its header, and its payload as one piece.
Fragments == [opcode : 0 .. 2, length : Lengths, fin : BOOLEAN]
Piece(n) == IF n = 0 THEN << >> ELSE << <<"data", n>> >>
Fragment(f) == MakeHeader(f.opcode, f.length, f.fin) \o Piece(f.length)

\* It is made of bytes, as the model writes them.
LEMMA FragmentBytes ==
  ASSUME NEW f \in Fragments
  PROVE  /\ Piece(f.length) \in Seq(Byte) /\ MakeHeader(f.opcode, f.length, f.fin) \in Seq(Byte)
         /\ Fragment(f) \in Seq(Byte)
<1> DEFINE n == f.length
           op == f.opcode
           h == MakeHeader(op, n, f.fin)
<1>1. op \in Nat /\ op \in 0 .. 2 /\ n \in Lengths /\ f.fin \in BOOLEAN
  <2>1. op \in 0 .. 2 /\ n \in Lengths /\ f.fin \in BOOLEAN
    BY Zenon DEF Fragments
  <2> HIDE DEF op, n
  <2> QED BY <2>1
<1>2. n \in Nat
  BY <1>1, ExtraTells, Zenon
<1>3. h \in Seq(Byte)
  <2>1. Heads(h, Is((IF f.fin THEN 128 ELSE 0) + op), Is(Code(n)), n)
    BY <1>1, ServerHeads, Zenon
  <2> QED BY <2>1, Zenon DEF Heads
<1> HIDE DEF h, n
<1>4. <<"data", n>> \in Byte
  <2>1. <<"data", n>> \in {"is", "data"} \X Nat
    BY <1>2
  <2> QED BY <2>1, Zenon DEF Byte
<1>5. Piece(n) \in Seq(Byte)
  <2>1. << >> \in Seq(Byte) /\ << <<"data", n>> >> \in Seq(Byte)
    BY <1>4
  <2> QED BY <2>1, Zenon DEF Piece
<1>6. h \o Piece(n) \in Seq(Byte)
  BY <1>3, <1>5, Joined
<1> QED BY <1>3, <1>5, <1>6, Zenon DEF Fragment, h, n

\* Behind a byte, the rest is the tail.
LEMMA TailBehind ==
  ASSUME NEW a \in Byte, NEW r \in Seq(Byte), NEW x, x = <<a>> \o r
  PROVE  x # << >> /\ x[1] = a /\ Tail(x) = r
<1>1. x \in Seq(Byte) /\ Len(x) = Len(r) + 1 /\ x[1] = a /\ \A i \in 1 .. Len(r) : x[i + 1] = r[i]
  BY Prepended, Zenon
<1>2. Len(r) \in Nat
  OBVIOUS
<1>3. x # << >>
  BY <1>1, <1>2
<1>4. Tail(x) \in Seq(Byte) /\ Len(Tail(x)) = Len(x) - 1 /\ \A i \in 1 .. Len(x) - 1 : Tail(x)[i] = x[i + 1]
  BY <1>1, <1>3, HeadTailProperties
<1>5. Tail(x) = r
  <2> DEFINE t == Tail(x)
  <2>1. t \in Seq(Byte) /\ Len(t) = Len(r)
    BY <1>1, <1>2, <1>4
  <2>2. \A i \in 1 .. Len(r) : t[i] = r[i]
    BY <1>1, <1>2, <1>4
  <2> HIDE DEF t
  <2> QED BY <2>1, <2>2, SeqEqual DEF t
<1> QED BY <1>1, <1>3, <1>5

\* What a client finds in o, if it begins with the fragment f, and r behind it.
FragmentShape(o, f, r) ==
  /\ Len(o) >= 2 + More(f.length)
  /\ o[1][2] = (IF f.fin THEN 128 ELSE 0) + f.opcode /\ o[2][2] = Code(f.length)
  /\ SubSeq(o, 3, 2 + More(f.length)) = Extra(f.length)
  /\ SubSeq(o, 3 + More(f.length), Len(o)) = Piece(f.length) \o r

\* A client finds what was written.
LEMMA FragmentFound ==
  ASSUME NEW f \in Fragments, NEW r \in Seq(Byte), NEW o, o = Fragment(f) \o r
  PROVE  FragmentShape(o, f, r)
<1> DEFINE n == f.length
           h == MakeHeader(f.opcode, n, f.fin)
           x == Piece(n) \o r
           m == More(n)
           e == Extra(n)
<1>1. /\ n \in Nat /\ m \in {0, 2, 8} /\ Code(n) \in 0 .. 127 /\ e \in Seq(Byte) /\ Len(e) = m
  <2>1. n \in Lengths
    BY Zenon DEF Fragments
  <2> QED BY <2>1, ExtraTells, Zenon
<1>2. Piece(n) \in Seq(Byte) /\ h \in Seq(Byte)
  BY FragmentBytes, Zenon
<1>3. Heads(h, Is((IF f.fin THEN 128 ELSE 0) + f.opcode), Is(Code(n)), n)
  <2>1. f.opcode \in 0 .. 2 /\ n \in Lengths /\ f.fin \in BOOLEAN
    BY Zenon DEF Fragments
  <2>2. f.opcode \in Nat
    BY <2>1
  <2> QED BY <2>1, <2>2, ServerHeads, Zenon
<1>4. o = h \o x
  <2> HIDE DEF h, n
  <2>1. (h \o Piece(n)) \o r = h \o (Piece(n) \o r)
    BY <1>2, ConcatAssociative
  <2> QED BY <2>1, Zenon DEF Fragment, h, n
<1>5. x \in Seq(Byte)
  <2> HIDE DEF n
  <2> QED BY <1>2, Joined
<1>k. Len(h) = 2 + m
  BY <1>3, Zenon DEF Heads
<1> HIDE DEF h, x, n, m, e
<1>6. o \in Seq(Byte) /\ Joins(o, h, x)
  BY <1>2, <1>4, <1>5, Joined
<1>7. Len(h) \in Nat /\ Len(x) \in Nat /\ Len(h) = 2 + m /\ Len(o) = Len(h) + Len(x)
  <2>1. Len(o) = Len(h) + Len(x)
    BY <1>6, Zenon DEF Joins
  <2> QED BY <1>1, <1>5, <1>k, <2>1
<1>8. \A i \in 1 .. Len(h) : o[i] = h[i]
  BY <1>6, Zenon DEF Joins
<1>9. o[1] = h[1] /\ o[2] = h[2]
  BY <1>1, <1>7, <1>8
<1>10. o[1][2] = (IF f.fin THEN 128 ELSE 0) + f.opcode /\ o[2][2] = Code(n)
  BY <1>3, <1>9 DEF Heads, Is
<1>11. SubSeq(o, 3, 2 + m) = e
  <2>1. \A i \in 1 .. Len(e) : o[2 + i] = e[i]
    <3> SUFFICES ASSUME NEW i \in 1 .. Len(e) PROVE o[2 + i] = e[i]
      OBVIOUS
    <3>1. 2 + i \in 1 .. Len(h) /\ i \in 1 .. m
      BY <1>1, <1>7
    <3>2. h[2 + i] = e[i]
      BY <1>3, <3>1 DEF Heads, m, e
    <3> QED BY <1>8, <3>1, <3>2
  <2> DEFINE p == 2
  <2>2. /\ p + Len(e) <= Len(o) /\ p \in Nat /\ e \in Seq(Byte) /\ o \in Seq(Byte)
        /\ \A i \in 1 .. Len(e) : o[p + i] = e[i]
    <3>1. e \in Seq(Byte) /\ o \in Seq(Byte) /\ Len(e) = m
      BY <1>1, <1>6, Zenon
    <3>2. p + Len(e) <= Len(o) /\ p \in Nat
      BY <1>1, <1>7
    <3> QED BY <2>1, <3>1, <3>2
  <2>4. p + 1 = 3
    OBVIOUS
  <2> HIDE DEF p
  <2>3. SubSeq(o, p + 1, p + Len(e)) = e
    BY ONLY <2>2, CutIs
  <2> QED BY <1>1, <2>3, <2>4, Zenon DEF p
<1>12. SubSeq(o, 3 + m, Len(o)) = x
  <2> DEFINE p == Len(h)
  <2>1. p \in Nat /\ p + Len(x) <= Len(o) /\ p + 1 = 3 + m /\ p + Len(x) = Len(o)
    BY <1>1, <1>7
  <2>2. \A i \in 1 .. Len(x) : o[p + i] = x[i]
    BY <1>6, Zenon DEF Joins
  <2> HIDE DEF p
  <2>3. SubSeq(o, p + 1, p + Len(x)) = x
    BY ONLY <1>5, <1>6, <2>1, <2>2, CutIs
  <2> QED BY <2>1, <2>3
<1>13. Len(o) >= 2 + m
  BY <1>7
<1> QED BY <1>10, <1>11, <1>12, <1>13, Zenon DEF FragmentShape, n, m, e, x

\* The length of the message that f goes on with or begins, and the state (m, c) of a
\* client, the message and how many it has, that becomes (x, y) with f; w are
\* the messages written.
Total(f, m) == f.length + (IF m = None THEN 0 ELSE m)
Leads(w, f, m, c, x, y) ==
  /\ f.opcode \in (IF m = None THEN {1, 2} ELSE {0})
  /\ f.fin => x = None /\ y = c + 1 /\ w[y] = Total(f, m)
  /\ ~f.fin => x = Total(f, m) /\ y = c

\* The bytes o are the n fragments g; a[i] are those from the i-th fragment on,
\* before which the client is in the state (m[i], c[i]), now in the state
\* (msg, k).  Of the messages w, d are finished in the end.
Laid(o, msg, k, w, d, n, g, a, m, c) ==
  /\ g \in [1 .. n -> Fragments] /\ a \in [1 .. n + 1 -> Seq(Byte)]
  /\ m \in [1 .. n + 1 -> Nat \cup {None}] /\ c \in [1 .. n + 1 -> Nat]
  /\ a[1] = o /\ m[1] = msg /\ c[1] = k
  /\ a[n + 1] = << >> /\ c[n + 1] = d
  /\ \A i \in 1 .. n + 1 : c[i] <= d
  /\ \A i \in 1 .. n : a[i] = Fragment(g[i]) \o a[i + 1]
  /\ \A i \in 1 .. n : Leads(w, g[i], m[i], c[i], m[i + 1], c[i + 1])

\* Some fragments are, and leave the client with the message m.
Lies(o, msg, k, w, d, last) ==
  \E n \in Nat : \E g, a, m, c : Laid(o, msg, k, w, d, n, g, a, m, c) /\ m[n + 1] = last

\* What is finished of the messages is all that counts.
LEMMA LiesStill ==
  ASSUME NEW o, NEW msg, NEW k, NEW w, NEW d \in Nat, NEW last, Lies(o, msg, k, w, d, last),
         NEW v, \A i \in 1 .. d : v[i] = w[i]
  PROVE  Lies(o, msg, k, v, d, last)
<1>0. PICK n \in Nat :
        \E g, a, m, c : Laid(o, msg, k, w, d, n, g, a, m, c) /\ m[n + 1] = last
  BY Zenon DEF Lies
<1>1. PICK g, a, m, c : Laid(o, msg, k, w, d, n, g, a, m, c) /\ m[n + 1] = last
  BY <1>0, Zenon
<1>2. /\ c \in [1 .. n + 1 -> Nat] /\ \A i \in 1 .. n + 1 : c[i] <= d
      /\ \A i \in 1 .. n : Leads(w, g[i], m[i], c[i], m[i + 1], c[i + 1])
  BY <1>1, Zenon DEF Laid
<1>3. ASSUME NEW i \in 1 .. n PROVE Leads(v, g[i], m[i], c[i], m[i + 1], c[i + 1])
  <2>1. i \in 1 .. n + 1 /\ i + 1 \in 1 .. n + 1
    OBVIOUS
  <2>2. Leads(w, g[i], m[i], c[i], m[i + 1], c[i + 1]) /\ c[i + 1] <= d /\ c[i] \in Nat
    BY <1>2, <2>1, Zenon
  <2> DEFINE f == g[i]
             y == c[i + 1]
             p == c[i]
             q == m[i]
             x == m[i + 1]
  <2>3. Leads(w, f, q, p, x, y) /\ y <= d /\ p \in Nat
    BY <2>2
  <2> HIDE DEF f, y, p, q, x
  <2>4. f.fin => y \in 1 .. d
    <3> SUFFICES ASSUME f.fin PROVE y \in 1 .. d
      OBVIOUS
    <3>1. y = p + 1
      BY <2>3, Zenon DEF Leads
    <3> QED BY <2>3, <3>1
  <2>5. Leads(v, f, q, p, x, y)
    BY <2>3, <2>4, Zenon DEF Leads
  <2> QED BY <2>5 DEF f, y, p, q, x
<1>4. Laid(o, msg, k, v, d, n, g, a, m, c)
  BY <1>1, <1>3, Zenon DEF Laid
<1> QED BY <1>1, <1>4, Zenon DEF Lies

\* Nothing lies nowhere.
LEMMA LiesNothing ==
  ASSUME NEW w, NEW d \in Nat
  PROVE  Lies(<< >>, None, d, w, d, None)
<1> DEFINE g == [i \in 1 .. 0 |-> 0]
           a == [i \in 1 .. 0 + 1 |-> << >>]
           m == [i \in 1 .. 0 + 1 |-> None]
           c == [i \in 1 .. 0 + 1 |-> d]
<1>1. 1 \in 1 .. 0 + 1 /\ 0 + 1 \in 1 .. 0 + 1 /\ 1 .. 0 = {} /\ 0 + 1 = 1
  OBVIOUS
<1>2. << >> \in Seq(Byte) /\ d <= d /\ 0 \in Nat
  OBVIOUS
<1>3. g \in [1 .. 0 -> Fragments]
  BY <1>1
<1>4. /\ a \in [1 .. 0 + 1 -> Seq(Byte)] /\ m \in [1 .. 0 + 1 -> Nat \cup {None}]
      /\ c \in [1 .. 0 + 1 -> Nat]
  BY <1>2, Zenon
<1>5. /\ a[1] = << >> /\ m[1] = None /\ c[1] = d /\ a[0 + 1] = << >> /\ c[0 + 1] = d /\ m[0 + 1] = None
      /\ \A i \in 1 .. 0 + 1 : c[i] <= d
  BY <1>1, <1>2, Zenon
<1> HIDE DEF g, a, m, c
<1>6. Laid(<< >>, None, d, w, d, 0, g, a, m, c)
  BY <1>1, <1>3, <1>4, <1>5, Zenon DEF Laid
<1> QED BY <1>2, <1>5, <1>6, Zenon DEF Lies

\* One more fragment is written.
LEMMA LiesMore ==
  ASSUME NEW o, NEW msg, NEW k, NEW w, NEW d \in Nat, NEW last, Lies(o, msg, k, w, d, last),
         NEW f \in Fragments, NEW x \in Nat \cup {None}, NEW e \in Nat, d <= e,
         Leads(w, f, last, d, x, e)
  PROVE  Lies(o \o Fragment(f), msg, k, w, e, x)
<1>0. PICK n \in Nat :
        \E g, a, m, c : Laid(o, msg, k, w, d, n, g, a, m, c) /\ m[n + 1] = last
  BY Zenon DEF Lies
<1>1. PICK g, a, m, c : Laid(o, msg, k, w, d, n, g, a, m, c) /\ m[n + 1] = last
  BY <1>0, Zenon
<1> DEFINE b == Fragment(f)
           N == n + 1
           G == [i \in 1 .. N |-> IF i = N THEN f ELSE g[i]]
           A == [i \in 1 .. N + 1 |-> IF i = N + 1 THEN << >> ELSE a[i] \o b]
           M == [i \in 1 .. N + 1 |-> IF i = N + 1 THEN x ELSE m[i]]
           C == [i \in 1 .. N + 1 |-> IF i = N + 1 THEN e ELSE c[i]]
<1>2. N \in Nat /\ N = n + 1 /\ N + 1 \in 1 .. N + 1 /\ N \in 1 .. N /\ 1 \in 1 .. N + 1 /\ 1 # N + 1
      /\ N # N + 1
  OBVIOUS
<1>3. b \in Seq(Byte) /\ << >> \in Seq(Byte)
  BY FragmentBytes, EmptySeq, Zenon
<1>4. /\ g \in [1 .. n -> Fragments] /\ a \in [1 .. N -> Seq(Byte)]
      /\ m \in [1 .. N -> Nat \cup {None}] /\ c \in [1 .. N -> Nat]
      /\ a[1] = o /\ m[1] = msg /\ c[1] = k
      /\ a[N] = << >> /\ c[N] = d /\ m[N] = last
      /\ \A i \in 1 .. N : c[i] <= d
      /\ \A i \in 1 .. n : a[i] = Fragment(g[i]) \o a[i + 1]
      /\ \A i \in 1 .. n : Leads(w, g[i], m[i], c[i], m[i + 1], c[i + 1])
  BY <1>1, Zenon DEF Laid
<1> HIDE DEF b, N
<1>5. \A i \in 1 .. N + 1 : i # N + 1 => i \in 1 .. N
  BY <1>2
<1>6. \A i \in 1 .. N : i # N => i \in 1 .. n
  BY <1>2
<1>7. \A i \in 1 .. N : i \in 1 .. N + 1 /\ i # N + 1
  BY <1>2
<1>8. \A i \in 1 .. n : i \in 1 .. N /\ i + 1 \in 1 .. N /\ i # N
  BY <1>2
<1>9. G \in [1 .. N -> Fragments]
  <2>1. \A i \in 1 .. N : (IF i = N THEN f ELSE g[i]) \in Fragments
    BY <1>4, <1>6, Zenon
  <2> QED BY <2>1, Zenon
<1>10. A \in [1 .. N + 1 -> Seq(Byte)]
  <2>1. ASSUME NEW i \in 1 .. N PROVE a[i] \o b \in Seq(Byte)
    <3>1. a[i] \in Seq(Byte)
      BY <1>4
    <3> QED BY <1>3, <3>1, Joined
  <2>2. \A i \in 1 .. N + 1 : (IF i = N + 1 THEN << >> ELSE a[i] \o b) \in Seq(Byte)
    BY <1>3, <1>5, <2>1, Zenon
  <2> QED BY <2>2, Zenon
<1>11. M \in [1 .. N + 1 -> Nat \cup {None}]
  <2>1. \A i \in 1 .. N + 1 : (IF i = N + 1 THEN x ELSE m[i]) \in Nat \cup {None}
    BY <1>4, <1>5, Zenon
  <2> QED BY <2>1, Zenon
<1>12. C \in [1 .. N + 1 -> Nat]
  <2>1. \A i \in 1 .. N + 1 : (IF i = N + 1 THEN e ELSE c[i]) \in Nat
    BY <1>4, <1>5, Zenon
  <2> QED BY <2>1, Zenon
<1>13. /\ A[1] = o \o b /\ M[1] = msg /\ C[1] = k
       /\ A[N + 1] = << >> /\ C[N + 1] = e /\ M[N + 1] = x
  BY <1>2, <1>4, Zenon
<1>14. \A i \in 1 .. N : A[i] = a[i] \o b /\ M[i] = m[i] /\ C[i] = c[i]
  BY <1>7, Zenon
<1>15. \A i \in 1 .. n : G[i] = g[i]
  BY <1>8, Zenon
<1>16. G[N] = f
  BY <1>2, Zenon
<1>17. ASSUME NEW i \in 1 .. N + 1 PROVE C[i] <= e
  <2>1. CASE i = N + 1
    BY <1>13, <2>1
  <2>2. CASE i # N + 1
    <3>1. i \in 1 .. N /\ c[i] <= d /\ c[i] \in Nat /\ C[i] = c[i]
      BY <1>4, <1>5, <1>14, <2>2, Zenon
    <3> QED BY <3>1
  <2> QED BY <2>1, <2>2
<1> HIDE DEF G, A, M, C
<1>18. ASSUME NEW i \in 1 .. N
       PROVE  /\ A[i] = Fragment(G[i]) \o A[i + 1]
              /\ Leads(w, G[i], M[i], C[i], M[i + 1], C[i + 1])
  <2>1. CASE i = N
    <3>1. A[N] = << >> \o b /\ A[N + 1] = << >>
      BY <1>2, <1>4, <1>13, <1>14, Zenon
    <3>2. << >> \o b = b /\ b \o << >> = b
      BY <1>3, ConcatEmptySeq
    <3> QED BY <1>2, <1>4, <1>13, <1>14, <1>16, <2>1, <3>1, <3>2, Zenon DEF b
  <2>2. CASE i # N
    <3>1. i \in 1 .. n /\ i \in 1 .. N /\ i + 1 \in 1 .. N
      BY <1>6, <1>8, <2>2, Zenon
    <3> DEFINE p == a[i + 1]
               q == Fragment(g[i])
    <3>2. p \in Seq(Byte) /\ q \in Seq(Byte)
      BY <1>4, <3>1, FragmentBytes, Zenon
    <3> HIDE DEF p, q
    <3>3. (q \o p) \o b = q \o (p \o b)
      BY <1>3, <3>2, ConcatAssociative
    <3>4. a[i] = q \o p /\ A[i] = a[i] \o b /\ A[i + 1] = p \o b /\ G[i] = g[i]
      BY <1>4, <1>14, <1>15, <3>1, Zenon DEF p, q
    <3>5. A[i] = Fragment(G[i]) \o A[i + 1]
      BY <3>3, <3>4, Zenon DEF q
    <3>6. Leads(w, g[i], m[i], c[i], m[i + 1], c[i + 1])
      BY <1>4, <3>1, Zenon
    <3>7. M[i] = m[i] /\ C[i] = c[i] /\ M[i + 1] = m[i + 1] /\ C[i + 1] = c[i + 1]
      BY <1>14, <3>1, Zenon
    <3> QED BY <3>4, <3>5, <3>6, <3>7, Zenon
  <2> QED BY <2>1, <2>2
<1>19. Laid(o \o b, msg, k, w, e, N, G, A, M, C)
  BY <1>9, <1>10, <1>11, <1>12, <1>13, <1>17, <1>18, Zenon DEF Laid
<1> QED BY <1>2, <1>13, <1>19, Zenon DEF Lies, b

\* There is a first fragment, and the others lie behind it.
Starts(o, msg, k, w, d, last) ==
  \E f \in Fragments, r \in Seq(Byte), x \in Nat \cup {None}, y \in Nat :
    /\ o = Fragment(f) \o r /\ y <= d
    /\ Leads(w, f, msg, k, x, y) /\ Lies(r, x, y, w, d, last)

\* A client takes the first fragment.
LEMMA LiesLess ==
  ASSUME NEW o, NEW msg, NEW k, NEW w, NEW d \in Nat, NEW last, Lies(o, msg, k, w, d, last),
         o # << >>
  PROVE  Starts(o, msg, k, w, d, last)
<1>0. PICK n \in Nat :
        \E g, a, m, c : Laid(o, msg, k, w, d, n, g, a, m, c) /\ m[n + 1] = last
  BY Zenon DEF Lies
<1>1. PICK g, a, m, c : Laid(o, msg, k, w, d, n, g, a, m, c) /\ m[n + 1] = last
  BY <1>0, Zenon
<1>2. /\ g \in [1 .. n -> Fragments] /\ a \in [1 .. n + 1 -> Seq(Byte)]
      /\ m \in [1 .. n + 1 -> Nat \cup {None}] /\ c \in [1 .. n + 1 -> Nat]
      /\ a[1] = o /\ m[1] = msg /\ c[1] = k
      /\ a[n + 1] = << >> /\ c[n + 1] = d
      /\ \A i \in 1 .. n + 1 : c[i] <= d
      /\ \A i \in 1 .. n : a[i] = Fragment(g[i]) \o a[i + 1]
      /\ \A i \in 1 .. n : Leads(w, g[i], m[i], c[i], m[i + 1], c[i + 1])
  BY <1>1, Zenon DEF Laid
<1> DEFINE N == n - 1
<1>3. n # 0
  <2> SUFFICES ASSUME n = 0 PROVE FALSE
    OBVIOUS
  <2>1. n + 1 = 1
    OBVIOUS
  <2> QED BY <1>2, <2>1, Zenon
<1>4. N \in Nat /\ n = N + 1 /\ 1 \in 1 .. n /\ 2 \in 1 .. n + 1 /\ 1 + 1 = 2 /\ (N + 1) + 1 = n + 1
      /\ N + 1 \in 1 .. N + 1 /\ 1 \in 1 .. N + 1
  BY <1>3
<1> HIDE DEF N
<1> DEFINE G == [i \in 1 .. N |-> g[i + 1]]
           A == [i \in 1 .. N + 1 |-> a[i + 1]]
           M == [i \in 1 .. N + 1 |-> m[i + 1]]
           C == [i \in 1 .. N + 1 |-> c[i + 1]]
<1>5. \A i \in 1 .. N : /\ i + 1 \in 1 .. n /\ i \in 1 .. N + 1 /\ i + 1 \in 1 .. N + 1
  BY <1>4
<1>6. \A i \in 1 .. N + 1 : i + 1 \in 1 .. n + 1
  BY <1>4
<1>7. /\ G \in [1 .. N -> Fragments] /\ A \in [1 .. N + 1 -> Seq(Byte)]
      /\ M \in [1 .. N + 1 -> Nat \cup {None}] /\ C \in [1 .. N + 1 -> Nat]
  BY <1>2, <1>5, <1>6, Zenon
<1>8. A[1] = a[2] /\ M[1] = m[2] /\ C[1] = c[2]
  BY <1>4, Zenon
<1>9. A[N + 1] = << >> /\ C[N + 1] = d /\ M[N + 1] = last
  BY <1>1, <1>2, <1>4, Zenon
<1>10. \A i \in 1 .. N + 1 : C[i] <= d
  BY <1>2, <1>6, Zenon
<1>11. \A i \in 1 .. N : A[i] = Fragment(G[i]) \o A[i + 1]
  BY <1>2, <1>5, Zenon
<1>12. \A i \in 1 .. N : Leads(w, G[i], M[i], C[i], M[i + 1], C[i + 1])
  BY <1>2, <1>5, Zenon
<1> HIDE DEF G, A, M, C
<1>13. Laid(a[2], m[2], c[2], w, d, N, G, A, M, C)
  BY <1>7, <1>8, <1>9, <1>10, <1>11, <1>12, Zenon DEF Laid
<1>14. Lies(a[2], m[2], c[2], w, d, last)
  BY <1>4, <1>9, <1>13, Zenon DEF Lies
<1>15. /\ g[1] \in Fragments /\ a[2] \in Seq(Byte) /\ m[2] \in Nat \cup {None} /\ c[2] \in Nat
       /\ o = Fragment(g[1]) \o a[2] /\ c[2] <= d /\ Leads(w, g[1], msg, k, m[2], c[2])
  BY <1>2, <1>4, Zenon
<1> QED BY <1>14, <1>15, Zenon DEF Starts

\* How many messages are finished, and what can be written next, after fragments
\* that leave the client with the message m.
Finished == Len(written) - (IF writing THEN 1 ELSE 0)
Ready(m) ==
  IF writing THEN /\ opcode \in (IF m = None THEN {1, 2} ELSE {0})
                  /\ written[Len(written)] = (IF m = None THEN 0 ELSE m)
  ELSE m = None

\* What the client has, and what is on the way to it, are the messages written.
MessagesInv ==
  /\ written \in Seq(Nat) /\ got \in Seq(Nat) /\ writing \in BOOLEAN /\ opcode \in 0 .. 2
  /\ message \in Nat \cup {None} /\ ~confused
  /\ Finished \in Nat /\ Len(got) <= Finished /\ \A i \in 1 .. Len(got) : got[i] = written[i]
  /\ \E last \in Nat \cup {None} :
        Lies(out, message, Len(got), written, Finished, last) /\ Ready(last)

\* The second byte tells how many bytes tell the length.
LEMMA CodeTells ==
  ASSUME NEW n \in Lengths
  PROVE  /\ n \in Nat
         /\ (IF Code(n) = 126 THEN 2 ELSE IF Code(n) = 127 THEN 8 ELSE 0) = More(n)
         /\ (IF More(n) = 0 THEN Code(n) ELSE Number(Extra(n))) = n
<1>1. n \in Nat /\ (n < 126 => Code(n) = n /\ More(n) = 0) /\ (n >= 126 => Number(Extra(n)) = n)
  BY ExtraTells, Zenon
<1>2. n >= 126 => More(n) # 0
  BY <1>1, SMT DEF More
<1>3. (IF Code(n) = 126 THEN 2 ELSE IF Code(n) = 127 THEN 8 ELSE 0) = More(n)
  BY <1>1, SMT DEF Code, More
<1>4. n < 126 \/ n >= 126
  BY <1>1
<1> QED BY <1>1, <1>2, <1>3, <1>4, Zenon

\* Nothing is written at first.
LEMMA InitMessages == Init => MessagesInv
<1> SUFFICES ASSUME Init PROVE MessagesInv
  OBVIOUS
<1>1. /\ opcode = 0 /\ writing = FALSE /\ out = << >> /\ message = None /\ got = << >>
      /\ confused = FALSE /\ written = << >>
  BY DEF Init
<1>2. Len(<< >>) = 0 /\ << >> \in Seq(Nat)
  OBVIOUS
<1>3. Finished = 0
  BY <1>1, <1>2 DEF Finished
<1>4. Lies(out, message, Len(got), written, Finished, None)
  <2>1. Lies(<< >>, None, 0, written, 0, None)
    BY LiesNothing
  <2> QED BY <1>1, <1>2, <1>3, <2>1, Zenon
<1>5. Ready(None)
  BY <1>1 DEF Ready
<1>6. None \in Nat \cup {None}
  OBVIOUS
<1>7. /\ written \in Seq(Nat) /\ got \in Seq(Nat) /\ opcode \in 0 .. 2
      /\ Finished \in Nat /\ Len(got) <= Finished /\ \A i \in 1 .. Len(got) : got[i] = written[i]
  BY <1>1, <1>2, <1>3
<1> QED BY <1>1, <1>4, <1>5, <1>6, <1>7, Zenon DEF MessagesInv

\* What lies there are bytes.
LEMMA LiesBytes ==
  ASSUME NEW o, NEW msg, NEW k, NEW w, NEW d, NEW last, Lies(o, msg, k, w, d, last)
  PROVE  o \in Seq(Byte)
<1>0. PICK n \in Nat :
        \E g, a, m, c : Laid(o, msg, k, w, d, n, g, a, m, c) /\ m[n + 1] = last
  BY Zenon DEF Lies
<1>1. PICK g, a, m, c : Laid(o, msg, k, w, d, n, g, a, m, c) /\ m[n + 1] = last
  BY <1>0, Zenon
<1>2. a \in [1 .. n + 1 -> Seq(Byte)] /\ a[1] = o
  BY <1>1, Zenon DEF Laid
<1>3. 1 \in 1 .. n + 1
  OBVIOUS
<1> QED BY <1>2, <1>3, Zenon

\* A message begins.
LEMMA MessageBegins ==
  ASSUME MessagesInv, NEW op \in {1, 2}, BeginSocketFrame(op)
  PROVE  MessagesInv'
<1>1. PICK last \in Nat \cup {None} :
         Lies(out, message, Len(got), written, Finished, last) /\ Ready(last)
  BY Zenon DEF MessagesInv
<1>2. /\ written \in Seq(Nat) /\ got \in Seq(Nat) /\ message \in Nat \cup {None} /\ ~confused
      /\ Finished \in Nat /\ Len(got) <= Finished /\ \A i \in 1 .. Len(got) : got[i] = written[i]
  BY Zenon DEF MessagesInv
<1>3. /\ ~writing /\ opcode' = op /\ writing' = TRUE /\ written' = Append(written, 0)
      /\ UNCHANGED <<out, message, got, confused>>
  BY DEF BeginSocketFrame, clientVars
<1>4. /\ Finished = Len(written) /\ Finished' = Len(written) /\ Len(written') = Len(written) + 1
      /\ Len(written) \in Nat /\ written' \in Seq(Nat)
      /\ \A i \in 1 .. Len(written) : written'[i] = written[i]
      /\ written'[Len(written')] = 0
  BY <1>2, <1>3 DEF Finished
<1>5. Lies(out, message, Len(got), written', Finished, last)
  <2> HIDE DEF Finished
  <2>1. \A i \in 1 .. Finished : written'[i] = written[i]
    BY <1>4
  <2> QED BY <1>1, <1>2, <2>1, LiesStill, Zenon
<1>6. last = None
  BY <1>1, <1>3 DEF Ready
<1>7. Ready(last)'
  <2>1. op \in {1, 2}
    OBVIOUS
  <2> QED BY <1>3, <1>4, <1>6, <2>1, Zenon DEF Ready
<1>8. opcode' \in 0 .. 2 /\ writing' \in BOOLEAN
  BY <1>3
<1>9. \A i \in 1 .. Len(got) : got[i] = written'[i]
  BY <1>2, <1>4
<1>10. Lies(out', message', Len(got'), written', Finished', last)
  BY <1>3, <1>4, <1>5, Zenon
<1>11. /\ written' \in Seq(Nat) /\ got' \in Seq(Nat) /\ message' \in Nat \cup {None} /\ ~confused'
       /\ Finished' \in Nat /\ Len(got') <= Finished' /\ \A i \in 1 .. Len(got') : got'[i] = written'[i]
  BY <1>2, <1>3, <1>4, <1>9
<1> QED BY <1>7, <1>8, <1>10, <1>11, Zenon DEF MessagesInv

\* A fragment is written, the first of a message or a continuation.
LEMMA MessageGoesOn ==
  ASSUME MessagesInv, NEW n \in Lengths, Write(n)
  PROVE  MessagesInv'
<1> DEFINE L == Len(written)
           f == [opcode |-> opcode, length |-> n, fin |-> FALSE]
<1>1. PICK last \in Nat \cup {None} :
         Lies(out, message, Len(got), written, Finished, last) /\ Ready(last)
  BY Zenon DEF MessagesInv
<1>2. /\ written \in Seq(Nat) /\ got \in Seq(Nat) /\ message \in Nat \cup {None} /\ ~confused
      /\ Finished \in Nat /\ Len(got) <= Finished /\ \A i \in 1 .. Len(got) : got[i] = written[i]
      /\ opcode \in 0 .. 2
  BY Zenon DEF MessagesInv
<1>3. /\ writing /\ opcode' = 0 /\ writing' = writing
      /\ written' = [written EXCEPT ![Len(written)] = @ + n]
      /\ out' = out \o MakeHeader(opcode, n, FALSE) \o (IF n = 0 THEN << >> ELSE << <<"data", n>> >>)
      /\ UNCHANGED <<message, got, confused>>
  BY DEF Write, clientVars
<1>n. n \in Nat
  BY CodeTells
<1>4. /\ Finished = L - 1 /\ L \in Nat /\ L >= 1 /\ L \in 1 .. L
  BY <1>2, <1>3 DEF Finished
<1>5. /\ written' \in Seq(Nat) /\ Len(written') = L /\ written'[L] = written[L] + n
      /\ \A i \in 1 .. L - 1 : written'[i] = written[i]
  BY <1>2, <1>3, <1>4, <1>n
<1>6. f \in Fragments /\ f.opcode = opcode /\ f.length = n /\ f.fin = FALSE
  BY <1>2 DEF Fragments
<1> HIDE DEF L
<1>7. Finished' = Finished
  <2>1. Finished' = Len(written') - (IF writing' THEN 1 ELSE 0)
    BY Zenon DEF Finished
  <2> QED BY <1>3, <1>4, <1>5, <2>1
<1>8. Lies(out, message, Len(got), written', Finished, last)
  <2> HIDE DEF Finished
  <2>1. \A i \in 1 .. Finished : written'[i] = written[i]
    BY <1>4, <1>5
  <2> QED BY <1>1, <1>2, <2>1, LiesStill, Zenon
<1>9. out \in Seq(Byte)
  BY <1>1, LiesBytes, Zenon
<1>10. out' = out \o Fragment(f)
  <2> DEFINE h == MakeHeader(opcode, n, FALSE)
             p == Piece(n)
  <2>1. Piece(f.length) \in Seq(Byte) /\ MakeHeader(f.opcode, f.length, f.fin) \in Seq(Byte)
    BY <1>6, FragmentBytes, Zenon
  <2>2. h \in Seq(Byte) /\ p \in Seq(Byte) /\ Fragment(f) = h \o p /\ out' = (out \o h) \o p
    BY <1>3, <1>6, <2>1, Zenon DEF Fragment, Piece
  <2> HIDE DEF h, p
  <2>3. (out \o h) \o p = out \o (h \o p)
    BY <1>9, <2>2, ConcatAssociative
  <2> QED BY <2>2, <2>3, Zenon
<1>11. /\ opcode \in (IF last = None THEN {1, 2} ELSE {0})
       /\ written[L] = (IF last = None THEN 0 ELSE last)
  BY <1>1, <1>3, Zenon DEF Ready, L
<1>x. PICK x : x = Total(f, last)
  OBVIOUS
<1>12. x \in Nat /\ x # None /\ x = written[L] + n
  <2>1. x = n + (IF last = None THEN 0 ELSE last)
    BY <1>6, <1>x, Zenon DEF Total
  <2>2. x = n + written[L] /\ written[L] \in Nat
    BY <1>2, <1>4, <1>11, <2>1 DEF L
  <2> QED BY <1>n, <2>2 DEF None
<1> HIDE DEF f
<1>13. Leads(written', f, last, Finished, x, Finished)
  BY <1>6, <1>11, <1>x, Zenon DEF Leads
<1>14. Lies(out', message', Len(got'), written', Finished', x)
  <2> HIDE DEF Finished
  <2>1. Finished <= Finished /\ x \in Nat \cup {None}
    BY <1>2, <1>12
  <2>2. Lies(out \o Fragment(f), message, Len(got), written', Finished, x)
    BY <1>2, <1>6, <1>8, <1>13, <2>1, LiesMore, Zenon
  <2> QED BY <1>3, <1>7, <1>10, <2>2, Zenon
<1>15. Ready(x)'
  <2>1. 0 \in {0} /\ written'[Len(written')] = x
    BY <1>5, <1>12
  <2> QED BY <1>3, <1>12, <2>1, Zenon DEF Ready
<1>16. \A i \in 1 .. Len(got) : got[i] = written'[i]
  <2> HIDE DEF Finished
  <2> QED BY <1>2, <1>4, <1>5
<1>17. opcode' \in 0 .. 2 /\ writing' \in BOOLEAN /\ x \in Nat \cup {None}
  BY <1>3, <1>12 DEF MessagesInv
<1> QED BY <1>2, <1>3, <1>5, <1>7, <1>14, <1>15, <1>16, <1>17, Zenon DEF MessagesInv

\* A message ends.
LEMMA MessageEnds ==
  ASSUME MessagesInv, EndSocketFrame
  PROVE  MessagesInv'
<1> DEFINE L == Len(written)
           f == [opcode |-> opcode, length |-> 0, fin |-> TRUE]
<1>1. PICK last \in Nat \cup {None} :
         Lies(out, message, Len(got), written, Finished, last) /\ Ready(last)
  BY Zenon DEF MessagesInv
<1>2. /\ written \in Seq(Nat) /\ got \in Seq(Nat) /\ message \in Nat \cup {None} /\ ~confused
      /\ Finished \in Nat /\ Len(got) <= Finished /\ \A i \in 1 .. Len(got) : got[i] = written[i]
      /\ opcode \in 0 .. 2
  BY Zenon DEF MessagesInv
<1>3. /\ writing /\ writing' = FALSE
      /\ out' = out \o MakeHeader(opcode, 0, TRUE)
      /\ UNCHANGED <<opcode, written, message, got, confused>>
  BY DEF EndSocketFrame, clientVars
<1>4. /\ Finished = L - 1 /\ L \in Nat /\ L >= 1 /\ L \in 1 .. L
  BY <1>2, <1>3 DEF Finished
<1>6. f \in Fragments /\ f.opcode = opcode /\ f.length = 0 /\ f.fin = TRUE
  <2>1. 0 \in Lengths
    BY SMT DEF Lengths
  <2> QED BY <1>2, <2>1 DEF Fragments
<1>7. Finished' = L
  <2>1. Finished' = Len(written') - (IF writing' THEN 1 ELSE 0)
    BY Zenon DEF Finished
  <2> QED BY <1>3, <1>4, <2>1
<1> HIDE DEF L
<1>9. out \in Seq(Byte)
  BY <1>1, LiesBytes, Zenon
<1>10. out' = out \o Fragment(f)
  <2> DEFINE h == MakeHeader(opcode, 0, TRUE)
             p == Piece(0)
  <2>1. MakeHeader(f.opcode, f.length, f.fin) \in Seq(Byte)
    BY <1>6, FragmentBytes, Zenon
  <2>2. h \in Seq(Byte) /\ p = << >> /\ Fragment(f) = h \o p /\ out' = out \o h
    BY <1>3, <1>6, <2>1, Zenon DEF Fragment, Piece
  <2> HIDE DEF h, p
  <2>3. h \o << >> = h
    BY <2>2, ConcatEmptySeq
  <2> QED BY <2>2, <2>3, Zenon
<1>11. /\ opcode \in (IF last = None THEN {1, 2} ELSE {0})
       /\ written[L] = (IF last = None THEN 0 ELSE last)
  BY <1>1, <1>3, Zenon DEF Ready, L
<1>12. Total(f, last) = written[L]
  <2>1. Total(f, last) = 0 + written[L]
    BY <1>6, <1>11, Zenon DEF Total
  <2>2. written[L] \in Nat
    BY <1>2, <1>4 DEF L
  <2> QED BY <2>1, <2>2
<1> HIDE DEF f
<1>13. Leads(written, f, last, Finished, None, L)
  <2>1. L = Finished + 1
    BY <1>2, <1>4
  <2> QED BY <1>6, <1>11, <1>12, <2>1, Zenon DEF Leads
<1>14. Lies(out', message', Len(got'), written', Finished', None)
  <2>1. Finished <= L /\ None \in Nat \cup {None}
    BY <1>4
  <2> HIDE DEF Finished
  <2>2. Lies(out \o Fragment(f), message, Len(got), written, L, None)
    BY <1>1, <1>2, <1>4, <1>6, <1>13, <2>1, LiesMore, Zenon
  <2> QED BY <1>3, <1>7, <1>10, <2>2, Zenon
<1>15. Ready(None)'
  BY <1>3, Zenon DEF Ready
<1>16. Len(got') <= Finished' /\ Finished' \in Nat
  <2>1. Len(got) \in Nat /\ Len(got) <= L - 1
    BY <1>2, <1>4
  <2> QED BY <1>3, <1>4, <1>7, <2>1
<1>17. writing' \in BOOLEAN /\ None \in Nat \cup {None}
  BY <1>3
<1> QED BY <1>2, <1>3, <1>14, <1>15, <1>16, <1>17, Zenon DEF MessagesInv

\* The client takes a fragment, which is one.
LEMMA Receives ==
  ASSUME MessagesInv, Receive
  PROVE  MessagesInv'
<1>1. PICK last \in Nat \cup {None} :
         Lies(out, message, Len(got), written, Finished, last) /\ Ready(last)
  BY Zenon DEF MessagesInv
<1>2. /\ written \in Seq(Nat) /\ got \in Seq(Nat) /\ message \in Nat \cup {None} /\ ~confused
      /\ Finished \in Nat /\ Len(got) <= Finished /\ \A i \in 1 .. Len(got) : got[i] = written[i]
      /\ writing \in BOOLEAN /\ opcode \in 0 .. 2
  BY Zenon DEF MessagesInv
<1>3. out # << >> /\ UNCHANGED <<opcode, writing, written>>
  BY Zenon DEF Receive, outVars
<1>4. PICK f \in Fragments, r \in Seq(Byte), x \in Nat \cup {None}, y \in Nat :
        /\ out = Fragment(f) \o r /\ y <= Finished
        /\ Leads(written, f, message, Len(got), x, y) /\ Lies(r, x, y, written, Finished, last)
  <2> HIDE DEF Finished
  <2>1. Starts(out, message, Len(got), written, Finished, last)
    BY <1>1, <1>2, <1>3, LiesLess
  <2> QED BY <2>1, Zenon DEF Starts
<1>5. FragmentShape(out, f, r)
  BY <1>4, FragmentFound, Zenon
<1>6. f.opcode \in 0 .. 2 /\ f.length \in Lengths /\ f.fin \in BOOLEAN
  BY Zenon DEF Fragments
<1> DEFINE n == f.length
           more == IF out[2][2] = 126 THEN 2 ELSE IF out[2][2] = 127 THEN 8 ELSE 0
           length == IF more = 0 THEN out[2][2] ELSE Number(SubSeq(out, 3, 2 + more))
           fin == out[1][2] >= 128
           rest == SubSeq(out, 3 + more, Len(out))
           good == /\ Len(out) >= 2 + more
                   /\ out[1][2] % 128 \in (IF message = None THEN {1, 2} ELSE {0})
                   /\ length > 0 => rest # << >> /\ rest[1] = <<"data", length>>
           total == length + (IF message = None THEN 0 ELSE message)
<1>7. IF good THEN /\ out' = IF length > 0 THEN Tail(rest) ELSE rest
                   /\ message' = IF fin THEN None ELSE total
                   /\ got' = IF fin THEN Append(got, total) ELSE got
                   /\ UNCHANGED confused
      ELSE confused' = TRUE /\ UNCHANGED <<out, message, got>>
  BY Zenon DEF Receive
<1>8. /\ n \in Nat
      /\ (IF Code(n) = 126 THEN 2 ELSE IF Code(n) = 127 THEN 8 ELSE 0) = More(n)
      /\ (IF More(n) = 0 THEN Code(n) ELSE Number(Extra(n))) = n
  BY <1>6, CodeTells, Zenon
<1>9. /\ Len(out) >= 2 + More(n)
      /\ out[1][2] = (IF f.fin THEN 128 ELSE 0) + f.opcode /\ out[2][2] = Code(n)
      /\ SubSeq(out, 3, 2 + More(n)) = Extra(n)
      /\ SubSeq(out, 3 + More(n), Len(out)) = Piece(n) \o r
  BY <1>5, Zenon DEF FragmentShape
<1>10. more = More(n)
  BY <1>8, <1>9, Zenon
<1> HIDE DEF more
<1>11. length = n
  BY <1>8, <1>9, <1>10, Zenon
<1>12. rest = Piece(n) \o r
  BY <1>9, <1>10, Zenon
<1> HIDE DEF length, rest
<1>13. (fin <=> f.fin) /\ out[1][2] % 128 = f.opcode
  <2> DEFINE op == f.opcode
             z == out[1][2]
  <2>1. op \in 0 .. 2
    BY <1>6, Zenon
  <2>2. CASE f.fin
    <3>1. z = 128 + op
      BY <1>9, <2>2, Zenon
    <3> HIDE DEF z, op
    <3>2. z >= 128 /\ z % 128 = op
      BY <2>1, <3>1
    <3> QED BY <2>2, <3>2, Zenon DEF z, op
  <2>3. CASE ~f.fin
    <3>1. z = 0 + op
      BY <1>9, <2>3, Zenon
    <3> HIDE DEF z, op
    <3>2. ~(z >= 128) /\ z % 128 = op
      BY <2>1, <3>1
    <3> QED BY <2>3, <3>2, Zenon DEF z, op
  <2> QED BY <1>6, <2>2, <2>3
<1> HIDE DEF fin
<1>14. total = Total(f, message)
  BY <1>11, Zenon DEF Total
<1>15. total \in Nat
  <2>1. None \notin Nat
    BY DEF None
  <2>2. CASE message = None
    BY <1>8, <1>11, <2>2
  <2>3. CASE message # None
    BY <1>2, <1>8, <1>11, <2>3
  <2> QED BY <2>2, <2>3
<1> HIDE DEF total
<1>16. /\ length > 0 => rest # << >> /\ rest[1] = <<"data", length>> /\ Tail(rest) = r
       /\ ~(length > 0) => rest = r
  <2>1. CASE n = 0
    <3>1. << >> \o r = r
      BY ConcatEmptySeq
    <3>2. ~(n > 0)
      BY <2>1
    <3> QED BY <1>11, <1>12, <2>1, <3>1, <3>2, Zenon DEF Piece
  <2>2. CASE n # 0
    <3> DEFINE a == <<"data", n>>
    <3>1. a \in Byte
      <4>1. a \in {"is", "data"} \X Nat
        BY <1>8
      <4> QED BY <4>1, Zenon DEF Byte
    <3>2. rest = <<a>> \o r
      BY <1>12, <2>2, Zenon DEF Piece
    <3>3. rest # << >> /\ rest[1] = a /\ Tail(rest) = r
      BY <3>1, <3>2, TailBehind, Zenon
    <3>4. n > 0
      BY <1>8, <2>2
    <3> QED BY <1>11, <3>3, <3>4, Zenon
  <2> QED BY <2>1, <2>2
<1>17. /\ f.opcode \in (IF message = None THEN {1, 2} ELSE {0})
       /\ f.fin => x = None /\ y = Len(got) + 1 /\ written[y] = total
       /\ ~f.fin => x = total /\ y = Len(got)
  BY <1>4, <1>14, Zenon DEF Leads
<1>18. good
  BY <1>9, <1>10, <1>13, <1>16, <1>17, Zenon
<1>19. /\ out' = r /\ message' = x /\ ~confused'
       /\ got' = IF f.fin THEN Append(got, total) ELSE got
  <2> HIDE DEF good
  <2>1. /\ out' = IF length > 0 THEN Tail(rest) ELSE rest
        /\ message' = IF fin THEN None ELSE total
        /\ got' = IF fin THEN Append(got, total) ELSE got
        /\ UNCHANGED confused
    BY <1>7, <1>18, Zenon
  <2>2. out' = r
    BY <1>16, <2>1, Zenon
  <2>3. message' = x
    BY <1>13, <1>17, <2>1, Zenon
  <2>4. ~confused'
    BY <1>2, <2>1
  <2> QED BY <1>13, <2>1, <2>2, <2>3, <2>4, Zenon
<1> HIDE DEF good
<1>20. got' \in Seq(Nat) /\ Len(got') = y /\ \A i \in 1 .. Len(got') : got'[i] = written[i]
  <2>1. CASE f.fin
    <3>1. /\ got' = Append(got, total) /\ y = Len(got) + 1 /\ written[y] = total
      BY <1>17, <1>19, <2>1, Zenon
    <3>2. /\ got' \in Seq(Nat) /\ Len(got') = y /\ got'[y] = total
          /\ \A i \in 1 .. Len(got) : got'[i] = got[i]
      BY <1>2, <1>15, <3>1
    <3>3. \A i \in 1 .. y : i = y \/ i \in 1 .. Len(got)
      <4>1. Len(got) \in Nat /\ y = Len(got) + 1
        BY <1>2, <3>1
      <4> QED BY ONLY <4>1
    <3> QED BY <1>2, <3>1, <3>2, <3>3, Zenon
  <2>2. CASE ~f.fin
    BY <1>2, <1>17, <1>19, <2>2, Zenon
  <2> QED BY <2>1, <2>2
<1>21. Finished' = Finished
  BY <1>3 DEF Finished
<1>22. Ready(last)'
  BY <1>1, <1>3 DEF Ready
<1>23. Lies(out', message', Len(got'), written', Finished', last)
  <2> HIDE DEF Finished
  <2> QED BY <1>3, <1>4, <1>19, <1>20, <1>21, Zenon
<1> QED BY <1>2, <1>3, <1>4, <1>19, <1>20, <1>21, <1>22, <1>23, Zenon DEF MessagesInv

\* A step that leaves the messages alone.
LEMMA MessagesStay ==
  MessagesInv /\ UNCHANGED <<outVars, out, clientVars>> => MessagesInv'
BY DEF MessagesInv, outVars, clientVars, Finished, Ready

\* A pass that sends no pong leaves what is on the way to the client alone.
LEMMA PassSaysNothing ==
  ASSUME NEW header, NEW size, ~ponged',
         TakeFrame(header, size) \/ NoHeaderYet
  PROVE  ~ponged /\ out' = out
<1>1. CASE TakeFrame(header, size)
  BY <1>1, Zenon DEF TakeFrame
<1>2. CASE NoHeaderYet
  BY <1>2, Zenon DEF NoHeaderYet
<1> QED BY <1>1, <1>2, Zenon

\* Every step leaves the messages in order, until a pong is sent.
LEMMA NextMessages ==
  (~ponged => MessagesInv) /\ [Next]_vars => (~ponged' => MessagesInv')
<1> SUFFICES ASSUME ~ponged => MessagesInv, [Next]_vars, ~ponged' PROVE MessagesInv'
  OBVIOUS
<1>1. ASSUME ~ponged, UNCHANGED <<outVars, out, clientVars>> PROVE MessagesInv'
  BY <1>1, MessagesStay, Zenon
<1>2. ASSUME NEW f \in Frames, SendFrame(f) PROVE MessagesInv'
  BY <1>1, <1>2, Zenon DEF SendFrame
<1>3. ASSUME NEW n \in 0 .. BufSize, ReadFrame(n) PROVE MessagesInv'
  <2>1. \E header, size : TakeFrame(header, size) \/ NoHeaderYet
    BY <1>3, Zenon DEF ReadFrame
  <2>2. ~ponged /\ out' = out
    BY <2>1, PassSaysNothing, Zenon
  <2> QED BY <1>1, <1>3, <2>2, Zenon DEF ReadFrame
<1>4. ASSUME NEW n \in 0 .. BufSize, ReadAstray(n) PROVE MessagesInv'
  <2>1. \E header, size : TakeFrame(header, size) \/ NoHeaderYet
    BY <1>4, Zenon DEF ReadAstray
  <2>2. ~ponged /\ out' = out
    BY <2>1, PassSaysNothing, Zenon
  <2> QED BY <1>1, <1>4, <2>2, Zenon DEF ReadAstray
<1>5. ASSUME NEW n \in Reads, HandlerRead(n) PROVE MessagesInv'
  BY <1>1, <1>5, Zenon DEF HandlerRead
<1>6. ASSUME WebbyRead PROVE MessagesInv'
  BY <1>1, <1>6, Zenon DEF WebbyRead
<1>7. ASSUME FrameDone PROVE MessagesInv'
  BY <1>1, <1>7, Zenon DEF FrameDone
<1>8. ASSUME UNCHANGED inVars PROVE MessagesInv
  BY <1>8, Zenon DEF inVars
<1>9. ASSUME NEW op \in {1, 2}, BeginSocketFrame(op) PROVE MessagesInv'
  <2>1. UNCHANGED inVars
    BY <1>9, Zenon DEF BeginSocketFrame
  <2> QED BY <1>8, <1>9, <2>1, MessageBegins, Zenon
<1>10. ASSUME NEW n \in Sizes, Write(n) PROVE MessagesInv'
  <2>1. UNCHANGED inVars
    BY <1>10, Zenon DEF Write
  <2>2. n \in Lengths
    BY FramesAssumption, Zenon
  <2> QED BY <1>8, <1>10, <2>1, <2>2, MessageGoesOn, Zenon
<1>11. ASSUME EndSocketFrame PROVE MessagesInv'
  <2>1. UNCHANGED inVars
    BY <1>11, Zenon DEF EndSocketFrame
  <2> QED BY <1>8, <1>11, <2>1, MessageEnds, Zenon
<1>12. ASSUME Receive PROVE MessagesInv'
  <2>1. UNCHANGED inVars
    BY <1>12, Zenon DEF Receive
  <2> QED BY <1>8, <1>12, <2>1, Receives, Zenon
<1>13. ASSUME UNCHANGED vars PROVE MessagesInv'
  <2>1. UNCHANGED inVars /\ UNCHANGED <<outVars, out, clientVars>>
    BY <1>13, Zenon DEF vars
  <2> QED BY <1>8, <2>1, MessagesStay, Zenon
<1> QED BY <1>2, <1>3, <1>4, <1>5, <1>6, <1>7, <1>9, <1>10, <1>11, <1>12, <1>13, Zenon DEF Next

\* Who has the first messages that were written has them as they were.
LEMMA MessagesFollow == (~ponged => MessagesInv) => MessagesIntact
<1> SUFFICES ASSUME MessagesInv PROVE ~confused /\ got = SubSeq(written, 1, Len(got))
  BY Zenon DEF MessagesIntact
<1>1. /\ written \in Seq(Nat) /\ got \in Seq(Nat) /\ ~confused
      /\ Finished \in Nat /\ Len(got) <= Finished /\ \A i \in 1 .. Len(got) : got[i] = written[i]
      /\ writing \in BOOLEAN
  BY Zenon DEF MessagesInv
<1>2. Len(got) \in Nat /\ Len(got) <= Len(written)
  BY <1>1 DEF Finished
<1> DEFINE p == 0
<1>3. /\ p \in Nat /\ p + 1 = 1 /\ p + Len(got) = Len(got) /\ p + Len(got) <= Len(written)
      /\ \A i \in 1 .. Len(got) : written[p + i] = got[i]
  BY <1>1, <1>2
<1>4. written \in Seq(Nat) /\ got \in Seq(Nat)
  BY <1>1
<1> HIDE DEF p
<1>5. SubSeq(written, p + 1, p + Len(got)) = got
  BY ONLY <1>3, <1>4, CutIs
<1> QED BY <1>1, <1>3, <1>5, Zenon

\* Whatever frames arrive and however they are read, the messages that a client
\* understands are those that were written, in order, until it is sent a pong.
THEOREM MessagesUnderstood == Spec => []MessagesIntact
<1> DEFINE Both == ~ponged => MessagesInv
<1>1. Init => Both
  BY InitMessages, Zenon
<1>2. Both /\ [Next]_vars => Both'
  BY NextMessages, Zenon
<1>3. Both => MessagesIntact
  BY MessagesFollow, Zenon
<1> HIDE DEF Both
<1> QED BY <1>1, <1>2, <1>3, PTL DEF Spec

-----------------------------------------------------------------------------
(* Responses: what goes through the I/O buffer *)

\* The bytes of a response, as the model writes them.
Octet == {"head", "end", "size", "cr", "lf", "data"} \X Int

\* What was written to a connection and has not been taken by the client.
Pending(c) == c.wire \o c.buf

\* The buffer of a connection always has room for a byte.
Buffers == [buf : {b \in Seq(Octet) : Len(b) < IoMax}, wire : Seq(Octet)]

\* Two ends of a sequence make all of it.
LEMMA Halves ==
  ASSUME NEW S, NEW s \in Seq(S), NEW m \in 0 .. Len(s)
  PROVE  /\ SubSeq(s, 1, m) \in Seq(S) /\ SubSeq(s, m + 1, Len(s)) \in Seq(S)
         /\ Len(SubSeq(s, 1, m)) = m /\ Len(SubSeq(s, m + 1, Len(s))) = Len(s) - m
         /\ SubSeq(s, 1, m) \o SubSeq(s, m + 1, Len(s)) = s
<1>1. /\ 0 \in Nat /\ m \in Nat /\ 0 + m <= Len(s) /\ Len(s) - m \in Nat /\ Len(s) \in Nat
      /\ 0 + 1 = 1 /\ 0 + m = m /\ m + (Len(s) - m) = Len(s) /\ m + (Len(s) - m) <= Len(s)
  OBVIOUS
<1>2. SubSeq(s, 1, m) \in Seq(S) /\ Len(SubSeq(s, 1, m)) = m
  <2> DEFINE z == 0
  <2>1. z \in Nat /\ z + m <= Len(s) /\ z + 1 = 1 /\ z + m = m
    BY <1>1
  <2> HIDE DEF z
  <2>2. SubSeq(s, z + 1, z + m) \in Seq(S) /\ Len(SubSeq(s, z + 1, z + m)) = m
    BY <1>1, <2>1, Cut
  <2> QED BY <2>1, <2>2
<1>3. SubSeq(s, m + 1, Len(s)) \in Seq(S) /\ Len(SubSeq(s, m + 1, Len(s))) = Len(s) - m
  <2> DEFINE n == Len(s) - m
  <2>1. n \in Nat /\ m + n <= Len(s) /\ m + n = Len(s)
    BY <1>1
  <2> HIDE DEF n
  <2>2. SubSeq(s, m + 1, m + n) \in Seq(S) /\ Len(SubSeq(s, m + 1, m + n)) = n
    BY <1>1, <2>1, Cut
  <2> QED BY <2>1, <2>2 DEF n
<1>4. SubSeq(s, 1, m) \o SubSeq(s, m + 1, Len(s)) = SubSeq(s, 1, Len(s))
  <2> DEFINE a == 1
             n == Len(s)
  <2>1. a \in 1 .. Len(s) + 1 /\ m \in a - 1 .. Len(s) /\ n \in m .. Len(s)
    OBVIOUS
  <2> HIDE DEF a, n
  <2>2. SubSeq(s, a, m) \o SubSeq(s, m + 1, n) = SubSeq(s, a, n)
    BY <2>1, ConcatAdjacentSubSeq
  <2> QED BY <2>2 DEF a, n
<1>5. SubSeq(s, 1, Len(s)) = s
  BY SubSeqFull
<1> QED BY <1>2, <1>3, <1>4, <1>5

\* A buffer with another value in one of its parts.
LEMMA BufferExcept ==
  ASSUME NEW x, NEW y, NEW v, NEW c, c = [buf |-> x, wire |-> y]
  PROVE  /\ [c EXCEPT !.wire = v] = [buf |-> x, wire |-> v]
         /\ [c EXCEPT !.buf = v] = [buf |-> v, wire |-> y]
OBVIOUS

\* wb_push appends to what is pending, whichever way the bytes take, and never
\* leaves the buffer full.
LEMMA Pushed ==
  ASSUME IoMax \in Nat \ {0}, NEW c \in Buffers, NEW b \in Seq(Octet)
  PROVE  Push(c, b) \in Buffers /\ Pending(Push(c, b)) = Pending(c) \o b
<1> DEFINE w == c.wire
           u == c.buf
           room == IoMax - Len(u)
           top == SubSeq(b, 1, room)
           rest == SubSeq(b, room + 1, Len(b))
<1>1. w \in Seq(Octet) /\ u \in Seq(Octet) /\ Len(u) < IoMax /\ c = [buf |-> u, wire |-> w]
  <2> DEFINE B == {x \in Seq(Octet) : Len(x) < IoMax}
             W == Seq(Octet)
  <2> HIDE DEF B, W
  <2>1. c \in [buf : B, wire : W]
    BY DEF Buffers, B, W
  <2>2. c.buf \in B /\ c.wire \in W /\ c = [buf |-> c.buf, wire |-> c.wire]
    BY <2>1
  <2> QED BY <2>2, Zenon DEF B, W
<1>2. Len(u) \in Nat /\ room \in Nat /\ room > 0 /\ Len(b) \in Nat
  BY <1>1
<1>3. << >> \in Seq(Octet) /\ Len(<< >>) = 0 /\ 0 < IoMax
  OBVIOUS
<1>4. \A x, y : Flush([buf |-> x, wire |-> y]) = [buf |-> << >>, wire |-> y \o x]
  BY DEF Flush
<1>e. \A x, y : [buf |-> x, wire |-> y].wire = y
  OBVIOUS
<1>5. /\ [c EXCEPT !.buf = @ \o b] = [buf |-> u \o b, wire |-> w]
      /\ [c EXCEPT !.buf = @ \o top] = [buf |-> u \o top, wire |-> w]
  <2> DEFINE v == u \o b
             x == u \o top
  <2> HIDE DEF v, x
  <2>1. /\ [c EXCEPT !.buf = v] = [buf |-> v, wire |-> w]
        /\ [c EXCEPT !.buf = x] = [buf |-> x, wire |-> w]
    <3> HIDE DEF w, u
    <3>1. c = [buf |-> u, wire |-> w]
      BY <1>1, Zenon
    <3> QED BY <3>1, BufferExcept
  <2> QED BY <2>1, Zenon DEF v, x, u
<1>6. Push(c, b) =
        IF b = << >> THEN [buf |-> << >>, wire |-> w \o u]
        ELSE IF Len(b) < room THEN [buf |-> u \o b, wire |-> w]
        ELSE IF Len(rest) >= IoMax THEN [buf |-> << >>, wire |-> (w \o (u \o top)) \o rest]
             ELSE [buf |-> rest, wire |-> w \o (u \o top)]
  <2>1. Flush(c) = [buf |-> << >>, wire |-> w \o u]
    BY <1>1, <1>4
  <2>2. Flush([c EXCEPT !.buf = @ \o top]) = [buf |-> << >>, wire |-> w \o (u \o top)]
    BY <1>4, <1>5
  <2> HIDE DEF w, u, top, rest
  <2> DEFINE full == Flush([c EXCEPT !.buf = @ \o top])
  <2>5. full = [buf |-> << >>, wire |-> w \o (u \o top)]
    BY <2>2
  <2>6. [full EXCEPT !.wire = @ \o rest] = [buf |-> << >>, wire |-> (w \o (u \o top)) \o rest]
    <3> HIDE DEF full
    <3> DEFINE y == w \o (u \o top)
               v == y \o rest
    <3>1. full = [buf |-> << >>, wire |-> y]
      BY <2>5
    <3> HIDE DEF y
    <3>2. [full EXCEPT !.wire = @ \o rest] = [full EXCEPT !.wire = full.wire \o rest]
      OBVIOUS
    <3>3. full.wire \o rest = v
      BY <1>e, <3>1, Zenon
    <3>4. [full EXCEPT !.wire = v] = [buf |-> << >>, wire |-> v]
      <4> HIDE DEF v
      <4> QED BY <3>1, BufferExcept
    <3> QED BY <3>2, <3>3, <3>4, Zenon DEF v, y
  <2>7. [full EXCEPT !.buf = rest] = [buf |-> rest, wire |-> w \o (u \o top)]
    <3> DEFINE y == w \o (u \o top)
    <3>1. full = [buf |-> << >>, wire |-> y]
      BY <2>5
    <3> HIDE DEF full, y
    <3>2. [full EXCEPT !.buf = rest] = [buf |-> rest, wire |-> y]
      BY <3>1, BufferExcept
    <3> QED BY <3>2 DEF y
  <2>8. Push(c, b) =
          IF b = << >> THEN Flush(c)
          ELSE IF Len(b) < room THEN [c EXCEPT !.buf = @ \o b]
          ELSE IF Len(rest) >= IoMax THEN [full EXCEPT !.wire = @ \o rest]
               ELSE [full EXCEPT !.buf = rest]
    BY Zenon DEF Push, u, room, top, rest
  <2> HIDE DEF full, room
  <2> QED BY <1>5, <2>1, <2>6, <2>7, <2>8, Zenon
<1>7. ASSUME NEW x \in Seq(Octet), NEW y \in Seq(Octet), Len(x) < IoMax
      PROVE  [buf |-> x, wire |-> y] \in Buffers /\ Pending([buf |-> x, wire |-> y]) = y \o x
  <2> DEFINE B == {v \in Seq(Octet) : Len(v) < IoMax}
             W == Seq(Octet)
  <2>1. x \in B /\ y \in W
    BY <1>7
  <2> HIDE DEF B, W
  <2>2. [buf |-> x, wire |-> y] \in [buf : B, wire : W]
    BY <2>1
  <2> QED BY <2>2 DEF Buffers, Pending, B, W
<1>8. Pending(c) = w \o u
  BY DEF Pending
<1>9. w \o u \in Seq(Octet) /\ u \o b \in Seq(Octet) /\ Len(u \o b) = Len(u) + Len(b)
  <2> HIDE DEF w, u
  <2> QED BY <1>1, Joined, Zenon DEF Joins
<1> HIDE DEF w, u, top, rest, room
<1>s. w \in Seq(Octet) /\ u \in Seq(Octet)
  BY <1>1, Zenon
<1>10. CASE b = << >>
  <2>1. (w \o u) \o << >> = w \o u
    BY <1>9, ConcatEmptySeq
  <2>2. Push(c, b) = [buf |-> << >>, wire |-> w \o u]
    BY <1>6, <1>10, Zenon
  <2> QED BY <1>3, <1>7, <1>8, <1>9, <1>10, <2>1, <2>2, Zenon
<1>11. CASE b # << >> /\ Len(b) < room
  <2>1. Len(u \o b) < IoMax
    BY <1>2, <1>9, <1>11 DEF room
  <2>2. (w \o u) \o b = w \o (u \o b)
    BY <1>s, ConcatAssociative
  <2>3. Push(c, b) = [buf |-> u \o b, wire |-> w]
    BY <1>6, <1>11, Zenon
  <2> QED BY <1>1, <1>7, <1>8, <1>9, <2>1, <2>2, <2>3, Zenon
<1>12. CASE b # << >> /\ ~(Len(b) < room)
  <2>1. room \in 0 .. Len(b)
    BY <1>2, <1>12
  <2>0. top \o rest = b
    BY <2>1, Halves DEF top, rest
  <2>2. top \in Seq(Octet) /\ rest \in Seq(Octet)
    BY <2>1, Halves DEF top, rest
  <2>3. u \o top \in Seq(Octet)
    BY <1>1, <2>2, Joined
  <2>4. w \o (u \o top) \in Seq(Octet)
    BY <1>1, <2>3, Joined
  <2>5. (w \o (u \o top)) \o rest \in Seq(Octet)
    BY <2>2, <2>4, Joined
  <2>6. (w \o (u \o top)) \o rest = (w \o u) \o b
    <3>1. (w \o u) \o top = w \o (u \o top)
      <4>1. w \in Seq(Octet)
        BY <1>s
      <4>2. u \in Seq(Octet)
        BY <1>s
      <4>3. top \in Seq(Octet)
        BY <2>2
      <4> QED BY ONLY <4>1, <4>2, <4>3, ConcatAssociative
    <3>2. ((w \o u) \o top) \o rest = (w \o u) \o (top \o rest)
      <4> DEFINE v == w \o u
      <4>1. v \in Seq(Octet)
        BY <1>9
      <4> HIDE DEF v
      <4>2. (v \o top) \o rest = v \o (top \o rest)
        BY <2>2, <4>1, ConcatAssociative
      <4> QED BY <4>2 DEF v
    <3> QED BY <2>0, <3>1, <3>2, Zenon
  <2>7. CASE Len(rest) >= IoMax
    <3>1. Push(c, b) = [buf |-> << >>, wire |-> (w \o (u \o top)) \o rest]
      BY <1>6, <1>12, <2>7, Zenon
    <3>2. ((w \o (u \o top)) \o rest) \o << >> = (w \o (u \o top)) \o rest
      BY <2>5, ConcatEmptySeq
    <3> QED BY <1>3, <1>7, <1>8, <2>5, <2>6, <3>1, <3>2, Zenon
  <2>8. CASE ~(Len(rest) >= IoMax)
    <3>1. Push(c, b) = [buf |-> rest, wire |-> w \o (u \o top)]
      BY <1>6, <1>12, <2>8, Zenon
    <3>2. Len(rest) < IoMax
      BY <2>2, <2>8
    <3> QED BY <1>7, <1>8, <2>2, <2>4, <2>6, <3>1, <3>2, Zenon
  <2> QED BY <2>7, <2>8
<1> QED BY <1>10, <1>11, <1>12

-----------------------------------------------------------------------------
(* Responses: what the client finds *)

\* n bytes of bodies behind the first b.
Numbered(b, n) == [k \in 1 .. n |-> <<"data", b + k>>]

\* A client: what it expects, how many bytes of bodies and how many responses
\* it has got.
Waits == [what : {"head", "chunk", "data", "body"}, size : Nat, has : Nat, replies : Nat]
Wait(what, size, has, n) ==
  [what |-> what, size |-> size, has |-> has, replies |-> n]

\* What it takes at a time, p, and what that makes of it.
Step(p, s, t) ==
  \/ /\ s.what = "head"
     /\ \E l \in Nat \cup {Chunks} :
          /\ p = HeadBytes(l)
          /\ t = IF l = Chunks THEN Wait("chunk", 0, s.has, s.replies)
                 ELSE Wait("body", l, s.has, s.replies)
  \/ /\ s.what = "chunk"
     /\ \E n \in Nat : p = ChunkSize(n) /\ t = Wait("data", n, s.has, s.replies)
  \/ /\ s.what = "data" /\ p = Numbered(s.has, s.size) \o NewLine
     /\ t = IF s.size = 0 THEN Wait("head", 0, s.has, s.replies + 1)
            ELSE Wait("chunk", 0, s.has + s.size, s.replies)
  \/ /\ s.what = "body" /\ p = Numbered(s.has, s.size)
     /\ t = Wait("head", 0, s.has + s.size, s.replies + 1)

\* Bytes and a client before which they lie: the bytes z and the client e,
\* and with r and t, p behind which r lies and s that becomes t with p.
Closed(T, z, e) ==
  /\ <<z, e>> \in T
  /\ \A p, r \in Seq(Octet), s, t \in Waits :
       <<r, t>> \in T /\ Step(p, s, t) => <<p \o r, s>> \in T
Before(z, e) ==
  {x \in Seq(Octet) \X Waits : \A T \in SUBSET (Seq(Octet) \X Waits) : Closed(T, z, e) => x \in T}

\* Such bytes and clients are closed in this sense.
LEMMA BeforeClosed ==
  ASSUME NEW z \in Seq(Octet), NEW e \in Waits
  PROVE  Closed(Before(z, e), z, e)
<1>1. <<z, e>> \in Before(z, e)
  BY DEF Before, Closed
<1>2. ASSUME NEW p \in Seq(Octet), NEW r \in Seq(Octet), NEW s \in Waits, NEW t \in Waits,
             <<r, t>> \in Before(z, e), Step(p, s, t)
      PROVE  <<p \o r, s>> \in Before(z, e)
  <2>1. p \o r \in Seq(Octet)
    BY Joined
  <2>2. ASSUME NEW T \in SUBSET (Seq(Octet) \X Waits), Closed(T, z, e) PROVE <<p \o r, s>> \in T
    <3>1. <<r, t>> \in T
      BY <1>2, <2>2, Zenon DEF Before
    <3> QED BY <1>2, <2>2, <3>1, Zenon DEF Closed
  <2> QED BY <2>1, <2>2, Zenon DEF Before
<1> QED BY <1>1, <1>2, Zenon DEF Closed

\* Induction over what lies before e.
LEMMA BeforeInduction ==
  ASSUME NEW z, NEW e, NEW T \in SUBSET (Seq(Octet) \X Waits), Closed(T, z, e)
  PROVE  Before(z, e) \subseteq T
BY Zenon DEF Before

\* If a client is not yet where all ends, there is something for it to take.
LEMMA FirstTaken ==
  ASSUME NEW z \in Seq(Octet), NEW e \in Waits, NEW o, NEW s, <<o, s>> \in Before(z, e),
         <<o, s>> # <<z, e>>
  PROVE  \E p, r \in Seq(Octet), t \in Waits :
           o = p \o r /\ Step(p, s, t) /\ <<r, t>> \in Before(z, e)
<1> DEFINE Goes(x) == \E p, r \in Seq(Octet), t \in Waits :
                         x[1] = p \o r /\ Step(p, x[2], t) /\ <<r, t>> \in Before(z, e)
           T == {x \in Before(z, e) : x = <<z, e>> \/ Goes(x)}
<1>1. T \in SUBSET (Seq(Octet) \X Waits)
  BY Zenon DEF Before
<1>2. <<z, e>> \in T
  BY BeforeClosed, Zenon DEF Closed
<1>3. ASSUME NEW p \in Seq(Octet), NEW r \in Seq(Octet), NEW v \in Waits, NEW t \in Waits,
             <<r, t>> \in T, Step(p, v, t)
      PROVE  <<p \o r, v>> \in T
  <2>1. <<r, t>> \in Before(z, e)
    BY <1>3
  <2>2. <<p \o r, v>> \in Before(z, e)
    BY <1>3, <2>1, BeforeClosed, Zenon DEF Closed
  <2>3. Goes(<<p \o r, v>>)
    <3> DEFINE x == <<p \o r, v>>
    <3>1. x[1] = p \o r /\ x[2] = v
      OBVIOUS
    <3> HIDE DEF x
    <3>2. Goes(x)
      BY <1>3, <2>1, <3>1, Zenon
    <3> QED BY <3>2 DEF x
  <2> QED BY <2>2, <2>3
<1>4. Closed(T, z, e)
  <2> HIDE DEF T
  <2> QED BY <1>2, <1>3, Zenon DEF Closed
<1>5. <<o, s>> \in T
  <2> HIDE DEF T
  <2> QED BY <1>1, <1>4, BeforeInduction
<1>6. Goes(<<o, s>>)
  BY <1>5
<1> QED BY <1>6

\* More bytes behind.
LEMMA BeforeMore ==
  ASSUME NEW z \in Seq(Octet), NEW e \in Waits, NEW d \in Seq(Octet),
         NEW o, NEW s, <<o, s>> \in Before(z, e)
  PROVE  <<o \o d, s>> \in Before(z \o d, e)
<1> DEFINE T == {x \in Seq(Octet) \X Waits : <<x[1] \o d, x[2]>> \in Before(z \o d, e)}
<1>1. T \in SUBSET (Seq(Octet) \X Waits)
  OBVIOUS
<1>2. z \o d \in Seq(Octet)
  BY Joined
<1>3. \A q \in Seq(Octet), v \in Waits : <<q, v>> \in T <=> <<q \o d, v>> \in Before(z \o d, e)
  <2> SUFFICES ASSUME NEW q \in Seq(Octet), NEW v \in Waits
               PROVE  <<q, v>> \in T <=> <<q \o d, v>> \in Before(z \o d, e)
    OBVIOUS
  <2> DEFINE x == <<q, v>>
  <2>1. x \in Seq(Octet) \X Waits /\ x[1] = q /\ x[2] = v
    OBVIOUS
  <2> HIDE DEF x
  <2>2. x \in T <=> <<q \o d, v>> \in Before(z \o d, e)
    BY <2>1, Zenon
  <2> QED BY <2>2 DEF x
<1> HIDE DEF T
<1>4. <<z, e>> \in T
  BY <1>2, <1>3, BeforeClosed, Zenon DEF Closed
<1>5. ASSUME NEW p \in Seq(Octet), NEW r \in Seq(Octet), NEW v \in Waits, NEW t \in Waits,
             <<r, t>> \in T, Step(p, v, t)
      PROVE  <<p \o r, v>> \in T
  <2>1. <<r \o d, t>> \in Before(z \o d, e)
    BY <1>3, <1>5, Zenon
  <2>2. r \o d \in Seq(Octet) /\ p \o r \in Seq(Octet) /\ (p \o r) \o d = p \o (r \o d)
    BY Joined, ConcatAssociative
  <2>3. <<p \o (r \o d), v>> \in Before(z \o d, e)
    BY <1>2, <1>5, <2>1, <2>2, BeforeClosed, Zenon DEF Closed
  <2> QED BY <1>3, <2>2, <2>3, Zenon
<1>6. Closed(T, z, e)
  BY <1>4, <1>5, Zenon DEF Closed
<1>7. <<o, s>> \in T
  BY <1>1, <1>6, BeforeInduction
<1>8. o \in Seq(Octet) /\ s \in Waits
  <2>1. <<o, s>> \in Seq(Octet) \X Waits
    BY <1>1, <1>7, Zenon
  <2> QED BY <2>1
<1> QED BY <1>3, <1>7, <1>8, Zenon

\* With what is added behind, the bytes there are all that the client takes next.
LEMMA BeforeStep ==
  ASSUME NEW z \in Seq(Octet), NEW e \in Waits, NEW d \in Seq(Octet), NEW f \in Waits,
         Step(z \o d, e, f), NEW o, NEW s, <<o, s>> \in Before(z, e)
  PROVE  <<o \o d, s>> \in Before(<< >>, f)
<1> DEFINE y == z \o d
           T == Before(<< >>, f)
<1>1. y \in Seq(Octet) /\ << >> \in Seq(Octet)
  BY Joined
<1>2. <<o \o d, s>> \in Before(y, e)
  BY BeforeMore
<1>3. T \in SUBSET (Seq(Octet) \X Waits)
  BY Zenon DEF Before
<1>4. Closed(T, << >>, f)
  BY <1>1, BeforeClosed
<1> HIDE DEF y, T
<1>5. <<y, e>> \in T
  <2>1. <<y \o << >>, e>> \in T
    BY <1>1, <1>4, Zenon DEF Closed, y
  <2>2. y \o << >> = y
    BY <1>1, ConcatEmptySeq
  <2> QED BY <2>1, <2>2, Zenon
<1>6. Closed(T, y, e)
  BY <1>4, <1>5, Zenon DEF Closed
<1> QED BY <1>2, <1>3, <1>6, BeforeInduction, Zenon DEF T

\* A client that is not there has not got more responses, and when all ends
\* between two responses, it has got fewer.
LEMMA NotAhead ==
  ASSUME NEW z \in Seq(Octet), NEW e \in Waits, NEW o, NEW s, <<o, s>> \in Before(z, e)
  PROVE  /\ s \in Waits /\ o \in Seq(Octet) /\ s.replies <= e.replies
         /\ e.what = "head" /\ s.replies = e.replies => s = e
<1> DEFINE Fine(v) == /\ v.replies <= e.replies
                      /\ e.what = "head" /\ v.replies = e.replies => v = e
           T == {x \in Seq(Octet) \X Waits : Fine(x[2])}
<1>1. T \in SUBSET (Seq(Octet) \X Waits)
  OBVIOUS
<1>2. \A q \in Seq(Octet), v \in Waits : <<q, v>> \in T <=> Fine(v)
  OBVIOUS
<1>3. Fine(e)
  BY DEF Waits
<1>4. ASSUME NEW p \in Seq(Octet), NEW v \in Waits, NEW t \in Waits, Fine(t), Step(p, v, t)
      PROVE  Fine(v)
  <2>1. v.replies \in Nat /\ t.replies \in Nat /\ e.replies \in Nat
    BY DEF Waits
  <2>2. t.what = "head" => t.replies = v.replies + 1
    BY <1>4 DEF Step, Wait
  <2>3. t.replies = v.replies \/ t.replies = v.replies + 1
    BY <1>4 DEF Step, Wait
  <2> QED BY <1>4, <2>1, <2>2, <2>3
<1> HIDE DEF T, Fine
<1>5. Closed(T, z, e)
  <2>1. ASSUME NEW p \in Seq(Octet), NEW r \in Seq(Octet), NEW v \in Waits, NEW t \in Waits,
               <<r, t>> \in T, Step(p, v, t)
        PROVE  <<p \o r, v>> \in T
    <3>1. p \o r \in Seq(Octet)
      BY Joined
    <3> QED BY <1>2, <1>4, <2>1, <3>1, Zenon
  <2>2. <<z, e>> \in T
    BY <1>2, <1>3, Zenon
  <2> QED BY <2>1, <2>2, Zenon DEF Closed
<1>6. <<o, s>> \in T
  BY <1>1, <1>5, BeforeInduction
<1>7. o \in Seq(Octet) /\ s \in Waits
  <2>1. <<o, s>> \in Seq(Octet) \X Waits
    BY <1>1, <1>6, Zenon
  <2> QED BY <2>1
<1>8. Fine(s)
  BY <1>2, <1>6, <1>7, Zenon
<1> QED BY <1>7, <1>8 DEF Fine

-----------------------------------------------------------------------------
(* Responses: their bytes *)

\* Numbered bytes, as a sequence.
LEMMA NumberedIs ==
  ASSUME NEW b \in Nat, NEW n \in Nat
  PROVE  /\ Numbered(b, n) \in Seq(Octet) /\ Len(Numbered(b, n)) = n
         /\ \A k \in 1 .. n : Numbered(b, n)[k] = <<"data", b + k>>
<1>1. \A k \in 1 .. n : <<"data", b + k>> \in Octet
  <2> SUFFICES ASSUME NEW k \in 1 .. n PROVE <<"data", b + k>> \in Octet
    OBVIOUS
  <2>1. b + k \in Int /\ "data" \in {"head", "end", "size", "cr", "lf", "data"}
    OBVIOUS
  <2> QED BY <2>1 DEF Octet
<1> HIDE DEF Octet
<1>2. Numbered(b, n) \in [1 .. n -> Octet]
  BY <1>1 DEF Numbered
<1>3. Numbered(b, n) \in Seq(Octet) /\ Len(Numbered(b, n)) = n
  BY <1>2
<1>4. \A k \in 1 .. n : Numbered(b, n)[k] = <<"data", b + k>>
  BY Zenon DEF Numbered
<1> QED BY <1>3, <1>4

\* No bytes, and some more behind some.
LEMMA NumberedOn ==
  ASSUME NEW b \in Nat, NEW m \in Nat, NEW n \in Nat
  PROVE  Numbered(b, m) \o Numbered(b + m, n) = Numbered(b, m + n) /\ Numbered(b, 0) = << >>
<1> DEFINE s == Numbered(b, m)
           c == b + m
           t == Numbered(c, n)
           l == m + n
           u == Numbered(b, l)
           x == s \o t
<1>0. c \in Nat /\ l \in Nat /\ 0 \in Nat
  OBVIOUS
<1>1. /\ s \in Seq(Octet) /\ Len(s) = m /\ \A k \in 1 .. m : s[k] = <<"data", b + k>>
      /\ t \in Seq(Octet) /\ Len(t) = n /\ \A k \in 1 .. n : t[k] = <<"data", c + k>>
      /\ u \in Seq(Octet) /\ Len(u) = l /\ \A k \in 1 .. l : u[k] = <<"data", b + k>>
  <2> HIDE DEF c, l
  <2> QED BY <1>0, NumberedIs, Zenon
<1> HIDE DEF s, t, u
<1>2. x \in Seq(Octet) /\ Joins(x, s, t)
  BY <1>1, Joined
<1> HIDE DEF x
<1>3. /\ Len(x) = l /\ \A k \in 1 .. m : x[k] = <<"data", b + k>>
      /\ \A k \in 1 .. n : x[m + k] = <<"data", c + k>>
  BY <1>1, <1>2 DEF Joins
<1>4. ASSUME NEW k \in 1 .. Len(x) PROVE x[k] = u[k]
  <2>0. k \in 1 .. l /\ u[k] = <<"data", b + k>>
    BY <1>1, <1>3
  <2>1. CASE k <= m
    <3>1. k \in 1 .. m
      BY <2>0, <2>1
    <3> QED BY <1>3, <2>0, <3>1, Zenon
  <2>2. CASE ~(k <= m)
    <3> DEFINE j == k - m
    <3>1. j \in 1 .. n /\ m + j = k /\ c + j = b + k
      BY <2>0, <2>2
    <3> HIDE DEF j, c
    <3>2. x[m + j] = <<"data", c + j>>
      BY <1>3, <3>1, Zenon
    <3> QED BY <2>0, <3>1, <3>2
  <2> QED BY <2>1, <2>2
<1>5. x = u
  <2>1. Len(x) = Len(u)
    BY <1>1, <1>3
  <2> HIDE DEF Octet
  <2> QED BY <1>1, <1>2, <1>4, <2>1, SeqEqual
<1>6. Numbered(b, 0) = << >>
  <2>1. Numbered(b, 0) \in Seq(Octet) /\ Len(Numbered(b, 0)) = 0
    BY NumberedIs
  <2> HIDE DEF Octet
  <2> QED BY <2>1
<1> QED BY <1>5, <1>6 DEF x, s, t, u

\* What frames the bytes of bodies.
LEMMA FramingBytes ==
  /\ \A l \in Int : /\ HeadBytes(l) \in Seq(Octet) /\ Len(HeadBytes(l)) = 2
                    /\ HeadBytes(l)[1] = <<"head", l>>
  /\ \A n \in Int : /\ ChunkSize(n) \in Seq(Octet) /\ Len(ChunkSize(n)) = 3
                    /\ ChunkSize(n)[1] = <<"size", n>>
  /\ NewLine \in Seq(Octet) /\ Len(NewLine) = 2
<1> DEFINE N == {"head", "end", "size", "cr", "lf", "data"}
<1>1. \A i \in Int : /\ <<"head", i>> \in Octet /\ <<"end", i>> \in Octet /\ <<"size", i>> \in Octet
                     /\ <<"cr", i>> \in Octet /\ <<"lf", i>> \in Octet
  <2>1. "head" \in N /\ "end" \in N /\ "size" \in N /\ "cr" \in N /\ "lf" \in N
    OBVIOUS
  <2> HIDE DEF N
  <2>2. Octet = N \X Int
    BY DEF Octet, N
  <2> QED BY <2>1, <2>2
<1>2. 0 \in Int
  OBVIOUS
<1> HIDE DEF Octet
<1>3. \A x, y, z \in Octet : /\ <<x, y>> \in Seq(Octet) /\ Len(<<x, y>>) = 2 /\ <<x, y>>[1] = x
                             /\ <<x, y, z>> \in Seq(Octet) /\ Len(<<x, y, z>>) = 3 /\ <<x, y, z>>[1] = x
  OBVIOUS
<1> QED BY <1>1, <1>2, <1>3, Zenon DEF HeadBytes, ChunkSize, NewLine

-----------------------------------------------------------------------------
(* Responses: the invariant *)

\* The client, in these terms.
Here == Wait(expects.what, expects.size, Len(body), replies)

\* What will be left over, z, and where the client will be, e, when it has taken
\* all it can: the beginning of a body, or nothing.
Ends(z, e) ==
  IF serving /\ ~chunked /\ wanted > 0
  THEN \E n \in 0 .. passed : /\ z = Numbered(passed - n, n)
                              /\ e = Wait("body", n + wanted, passed - n, ended)
  ELSE /\ z = << >>
       /\ e = IF chunked THEN Wait("chunk", 0, passed, ended)
              ELSE Wait("head", 0, passed, ended + (IF serving THEN 1 ELSE 0))

\* The server and the client by themselves, and what is between them.
ServerInv ==
  /\ conn \in Buffers /\ serving \in BOOLEAN /\ chunked \in BOOLEAN
  /\ passed \in Nat /\ ended \in Nat /\ wanted \in Nat
  /\ chunked => serving /\ wanted = 0
ClientInv ==
  /\ body \in Seq(Octet) /\ \A k \in 1 .. Len(body) : body[k] = <<"data", k>>
  /\ expects \in [what : {"head", "chunk", "data", "body"}, size : Nat] /\ replies \in Nat
ResponseInv ==
  /\ ServerInv /\ ClientInv
  /\ \E z \in Seq(Octet), e \in Waits : Ends(z, e) /\ <<Pending(conn), Here>> \in Before(z, e)

\* Nothing is written at first.
LEMMA InitResponse == ResponseInit => ResponseInv
<1> SUFFICES ASSUME ResponseInit PROVE ResponseInv
  OBVIOUS
<1>1. /\ conn = [buf |-> << >>, wire |-> << >>] /\ serving = FALSE /\ chunked = FALSE /\ wanted = 0
      /\ expects = [what |-> "head", size |-> 0] /\ body = << >> /\ replies = 0
      /\ passed = 0 /\ ended = 0 /\ IoMax \in Nat \ {0}
  BY ResponseAssumption DEF ResponseInit
<1>2. << >> \in Seq(Octet) /\ Len(<< >>) = 0 /\ << >> \o << >> = << >>
  OBVIOUS
<1>3. conn \in Buffers
  <2> DEFINE B == {x \in Seq(Octet) : Len(x) < IoMax}
             W == Seq(Octet)
  <2>1. << >> \in B /\ << >> \in W
    BY <1>1, <1>2
  <2> HIDE DEF B, W
  <2> QED BY <1>1, <2>1 DEF Buffers, B, W
<1>4. ServerInv /\ ClientInv
  <2>1. ServerInv
    BY <1>1, <1>3 DEF ServerInv
  <2>2. Len(body) = 0 /\ body \in Seq(Octet)
    BY <1>1, <1>2, Zenon
  <2>3. \A k \in 1 .. Len(body) : body[k] = <<"data", k>>
    <3>1. \A k \in 1 .. Len(body) : FALSE
      BY <2>2
    <3> QED BY <3>1, Zenon
  <2>4. expects \in [what : {"head", "chunk", "data", "body"}, size : Nat] /\ replies \in Nat
    BY <1>1
  <2> QED BY <2>1, <2>2, <2>3, <2>4, Zenon DEF ClientInv
<1> DEFINE e == Wait("head", 0, 0, 0)
<1>5. Here = e /\ Pending(conn) = << >>
  <2>1. Here = e
    BY <1>1, <1>2, Zenon DEF Here
  <2>2. conn.wire = << >> /\ conn.buf = << >>
    BY <1>1
  <2> QED BY <1>2, <2>1, <2>2, Zenon DEF Pending
<1>6. e \in Waits
  BY DEF Wait, Waits
<1>7. Ends(<< >>, e)
  BY <1>1 DEF Ends
<1> HIDE DEF e
<1>8. <<Pending(conn), Here>> \in Before(<< >>, e)
  BY <1>2, <1>5, <1>6, BeforeClosed, Zenon DEF Closed
<1> QED BY <1>2, <1>4, <1>6, <1>7, <1>8, Zenon DEF ResponseInv

\* The properties follow.
LEMMA ResponseFollows == ResponseInv => BodyInOrder /\ CompleteWhenEnded
<1> SUFFICES ASSUME ResponseInv PROVE BodyInOrder /\ CompleteWhenEnded
  OBVIOUS
<1>1. ServerInv /\ ClientInv
  BY DEF ResponseInv
<1>2. PICK z \in Seq(Octet), e \in Waits : Ends(z, e) /\ <<Pending(conn), Here>> \in Before(z, e)
  BY Zenon DEF ResponseInv
<1>3. Here.replies <= e.replies /\ (e.what = "head" /\ Here.replies = e.replies => Here = e)
  BY <1>2, NotAhead
<1>4. Here.replies = replies /\ Here.has = Len(body)
  BY DEF Here, Wait
<1>5. BodyInOrder
  <2>1. Len(conn.buf) < IoMax
    BY <1>1 DEF ServerInv, Buffers
  <2>2. expects.what # "confused"
    BY <1>1 DEF ClientInv
  <2>3. DOMAIN body = 1 .. Len(body)
    <3>1. body \in Seq(Octet)
      BY <1>1 DEF ClientInv
    <3> QED BY <3>1
  <2> QED BY <1>1, <2>1, <2>2, <2>3, Zenon DEF ClientInv, BodyInOrder
<1>6. /\ e.replies = ended + (IF serving /\ ~chunked /\ wanted = 0 THEN 1 ELSE 0)
      /\ ~serving => e.what = "head" /\ e.has = passed
  <2>1. CASE serving /\ ~chunked /\ wanted > 0
    BY <1>1, <1>2, <2>1 DEF Ends, Wait, ServerInv
  <2>2. CASE ~(serving /\ ~chunked /\ wanted > 0)
    BY <1>1, <1>2, <2>2 DEF Ends, Wait, ServerInv
  <2> QED BY <2>1, <2>2
<1>7. ended \in Nat /\ replies \in Nat
  BY <1>1 DEF ServerInv, ClientInv
<1>8. CompleteWhenEnded
  BY <1>3, <1>4, <1>6, <1>7 DEF CompleteWhenEnded
<1> QED BY <1>5, <1>8

-----------------------------------------------------------------------------
(* Responses: the client *)

\* What is pending is the next the client takes, p, and r behind it.
LEMMA Prefix ==
  ASSUME NEW c \in Buffers, NEW p \in Seq(Octet), NEW r \in Seq(Octet), Pending(c) = p \o r,
         Len(c.wire) >= Len(p)
  PROVE  /\ SubSeq(c.wire, 1, Len(p)) = p /\ \A i \in 1 .. Len(p) : c.wire[i] = p[i]
         /\ SubSeq(c.wire, Len(p) + 1, Len(c.wire)) \in Seq(Octet)
         /\ SubSeq(c.wire, Len(p) + 1, Len(c.wire)) \o c.buf = r
<1> DEFINE w == c.wire
           u == c.buf
           n == Len(p)
           v == SubSeq(w, n + 1, Len(w))
           x == w \o u
           q == SubSeq(w, 1, n)
<1>1. w \in Seq(Octet) /\ u \in Seq(Octet) /\ x = p \o r /\ n \in Nat /\ n \in 0 .. Len(w)
  <2>1. w \in Seq(Octet) /\ u \in Seq(Octet)
    BY DEF Buffers
  <2>2. x = p \o r
    BY DEF Pending
  <2>3. n \in Nat /\ n \in 0 .. Len(w)
    <3>1. Len(w) \in Nat
      BY <2>1
    <3> QED BY <3>1
  <2> QED BY <2>1, <2>2, <2>3
<1> HIDE DEF w, u, n
<1>2. /\ q \in Seq(Octet) /\ v \in Seq(Octet) /\ Len(q) = n /\ q \o v = w
  BY <1>1, Halves
<1>3. Joins(x, w, u) /\ Joins(x, p, r)
  <2>1. Joins(w \o u, w, u) /\ Joins(p \o r, p, r)
    BY <1>1, Joined
  <2> QED BY <1>1, <2>1, Zenon
<1> HIDE DEF x
<1>4. ASSUME NEW i \in 1 .. n PROVE w[i] = p[i]
  <2>1. i \in 1 .. Len(w) /\ i \in 1 .. Len(p)
    BY <1>1 DEF n
  <2> QED BY <1>3, <2>1, Zenon DEF Joins
<1>5. q = p
  <2> DEFINE z == 0
  <2>1. z \in Nat /\ z + Len(p) <= Len(w) /\ z + 1 = 1 /\ z + Len(p) = n
    BY <1>1 DEF n
  <2>2. \A i \in 1 .. Len(p) : w[z + i] = p[i]
    <3>1. \A i \in 1 .. Len(p) : z + i = i
      OBVIOUS
    <3> HIDE DEF z
    <3> QED BY <1>4, <3>1, Zenon DEF n
  <2> HIDE DEF z
  <2>3. SubSeq(w, z + 1, z + Len(p)) = p
    BY ONLY <1>1, <2>1, <2>2, p \in Seq(Octet), CutIs
  <2> QED BY <2>1, <2>3
<1> HIDE DEF q, v
<1>6. v \o u = r
  <2>1. v \o u \in Seq(Octet)
    BY <1>1, <1>2, Joined
  <2>2. p \o (v \o u) = p \o r
    <3>1. p \in Seq(Octet)
      OBVIOUS
    <3>2. v \in Seq(Octet)
      BY <1>2
    <3>3. u \in Seq(Octet)
      BY <1>1
    <3>4. (p \o v) \o u = p \o (v \o u)
      BY ONLY <3>1, <3>2, <3>3, ConcatAssociative
    <3> QED BY <1>1, <1>2, <1>5, <3>4, Zenon DEF x
  <2> DEFINE y == v \o u
  <2> HIDE DEF y
  <2>3. y \in Seq(Octet) /\ p \o y = p \o r
    BY <2>1, <2>2 DEF y
  <2>4. y = r
    <3> HIDE DEF Octet
    <3> QED BY <2>3, ConcatSimplifications
  <2> QED BY <2>4 DEF y
<1> QED BY <1>2, <1>4, <1>5, <1>6 DEF q, v, n, w, u

\* What the client takes next, and what that leaves.
Goes(p, r, t) ==
  /\ p \in Seq(Octet) /\ r \in Seq(Octet) /\ t \in Waits
  /\ Pending(conn) = p \o r /\ Step(p, Here, t)
  /\ \E z \in Seq(Octet), e \in Waits : Ends(z, e) /\ <<r, t>> \in Before(z, e)

\* When the client can go on, there is something for it to take.
LEMMA ClientFinds ==
  ASSUME ResponseInv, Client
  PROVE  \E p, r, t : Goes(p, r, t)
<1>1. ServerInv /\ ClientInv
  BY DEF ResponseInv
<1>2. PICK z \in Seq(Octet), e \in Waits : Ends(z, e) /\ <<Pending(conn), Here>> \in Before(z, e)
  BY Zenon DEF ResponseInv
<1>3. CASE <<Pending(conn), Here>> = <<z, e>>
  <2>1. Pending(conn) = z /\ Here.what = e.what /\ Here.size = e.size
    BY <1>3
  <2>2. Here.what = expects.what /\ Here.size = expects.size
    BY DEF Here, Wait
  <2>3. Len(conn.wire) <= Len(z) /\ Len(conn.wire) \in Nat /\ Len(z) \in Nat
    <3> DEFINE w == conn.wire
               u == conn.buf
    <3>1. w \in Seq(Octet) /\ u \in Seq(Octet)
      BY <1>1 DEF ServerInv, Buffers
    <3> HIDE DEF w, u
    <3>2. Len(w \o u) = Len(w) + Len(u)
      <4>1. Joins(w \o u, w, u)
        BY <3>1, Joined, Zenon
      <4> QED BY <4>1, Zenon DEF Joins
    <3>3. Len(w) \in Nat /\ Len(u) \in Nat
      BY <3>1
    <3>4. w \o u = z
      BY <2>1 DEF Pending, w, u
    <3>5. Len(z) = Len(w) + Len(u)
      BY <3>2, <3>4, Zenon
    <3> QED BY <3>3, <3>5 DEF w
  <2>4. \/ expects.what = "body" /\ expects.size > Len(z)
        \/ expects.what \in {"chunk", "head"} /\ Len(z) = 0
    <3>1. CASE serving /\ ~chunked /\ wanted > 0
      <4>1. PICK n \in 0 .. passed : /\ z = Numbered(passed - n, n)
                                     /\ e = Wait("body", n + wanted, passed - n, ended)
        BY <1>2, <3>1 DEF Ends
      <4>0. passed \in Nat /\ wanted \in Nat
        BY <1>1 DEF ServerInv
      <4>2. passed - n \in Nat /\ n \in Nat /\ wanted \in Nat
        BY <4>0
      <4>3. Len(z) = n
        BY <4>1, <4>2, NumberedIs
      <4>4. e.what = "body" /\ e.size = n + wanted
        BY <4>1 DEF Wait
      <4>5. expects.what = "body" /\ expects.size = n + wanted
        BY <2>1, <2>2, <4>4, Zenon
      <4>6. n + wanted > n
        BY <3>1, <4>2
      <4> QED BY <4>3, <4>5, <4>6, Zenon
    <3>2. CASE ~(serving /\ ~chunked /\ wanted > 0)
      <4>1. z = << >> /\ e.what \in {"chunk", "head"}
        BY <1>2, <3>2 DEF Ends, Wait
      <4> QED BY <2>1, <2>2, <4>1
    <3> QED BY <3>1, <3>2
  <2>5. ~TakeHead /\ ~TakeChunkSize
    BY <2>3, <2>4 DEF TakeHead, TakeChunkSize
  <2>6. ~TakeChunk /\ ~TakeBody
    <3>1. expects.size \in Nat
      BY <1>1 DEF ClientInv
    <3> QED BY <2>3, <2>4, <3>1 DEF TakeChunk, TakeBody
  <2> QED BY <2>5, <2>6 DEF Client
<1>4. CASE <<Pending(conn), Here>> # <<z, e>>
  <2>1. PICK p, r \in Seq(Octet), t \in Waits :
           Pending(conn) = p \o r /\ Step(p, Here, t) /\ <<r, t>> \in Before(z, e)
    BY <1>2, <1>4, FirstTaken, Zenon
  <2>2. Goes(p, r, t)
    BY <1>2, <2>1, Zenon DEF Goes
  <2> QED BY <2>2
<1> QED BY <1>3, <1>4

\* When it takes that, the invariant is kept.
LEMMA ClientGoes ==
  ASSUME ServerInv, NEW p, NEW r, NEW t, Goes(p, r, t), Len(conn.wire) >= Len(p),
         NEW what \in {"head", "chunk", "data", "body"}, NEW size \in Nat,
         conn' = [conn EXCEPT !.wire = SubSeq(@, Len(p) + 1, Len(@))],
         expects' = [what |-> what, size |-> size], UNCHANGED serverVars,
         ClientInv', t = Wait(what, size, Len(body)', replies')
  PROVE  ResponseInv'
<1> DEFINE w == SubSeq(conn.wire, Len(p) + 1, Len(conn.wire))
<1>0. /\ p \in Seq(Octet) /\ r \in Seq(Octet) /\ t \in Waits /\ Pending(conn) = p \o r /\ conn \in Buffers
      /\ \E z \in Seq(Octet), e \in Waits : Ends(z, e) /\ <<r, t>> \in Before(z, e)
  BY Zenon DEF Goes, ServerInv
<1>1. w \in Seq(Octet) /\ w \o conn.buf = r
  BY <1>0, Prefix
<1>2. UNCHANGED <<serving, chunked, wanted, passed, ended>>
  BY DEF serverVars
<1>3. conn'.buf = conn.buf /\ conn'.wire = w /\ conn' \in Buffers
  <2> DEFINE B == {x \in Seq(Octet) : Len(x) < IoMax}
             W == Seq(Octet)
  <2> HIDE DEF w
  <2>1. conn' = [conn EXCEPT !.wire = w]
    BY DEF w
  <2>2. w \in W
    BY <1>1 DEF W
  <2> HIDE DEF B, W
  <2>3. conn \in [buf : B, wire : W]
    BY <1>0 DEF Buffers, B, W
  <2>4. conn'.buf = conn.buf /\ conn'.wire = w /\ conn' \in [buf : B, wire : W]
    BY <2>1, <2>2, <2>3
  <2> QED BY <2>4 DEF Buffers, B, W
<1> HIDE DEF w
<1>4. ServerInv'
  BY <1>2, <1>3 DEF ServerInv
<1>5. Pending(conn') = r /\ Here' = t
  <2>1. Pending(conn') = r
    BY <1>1, <1>3, Zenon DEF Pending
  <2>2. expects'.what = what /\ expects'.size = size
    OBVIOUS
  <2>3. Here' = t
    BY <2>2, Zenon DEF Here
  <2> QED BY <2>1, <2>3
<1>6. PICK z \in Seq(Octet), e \in Waits : Ends(z, e) /\ <<r, t>> \in Before(z, e)
  BY <1>0
<1>7. Ends(z, e)'
  BY <1>2, <1>6 DEF Ends
<1> QED BY <1>4, <1>5, <1>6, <1>7, Zenon DEF ResponseInv

\* The head of a response.
LEMMA TakesHead ==
  ASSUME ResponseInv, TakeHead
  PROVE  ResponseInv'
<1>1. ServerInv /\ ClientInv
  BY DEF ResponseInv
<1>2. PICK p, r, t : Goes(p, r, t)
  BY ClientFinds DEF Client
<1>3. Here.what = expects.what /\ Here.has = Len(body) /\ Here.replies = replies
  BY DEF Here, Wait
<1>4. expects.what = "head" /\ Len(conn.wire) >= 2 /\ UNCHANGED <<body, replies, serverVars>>
  BY DEF TakeHead
<1>5. PICK l \in Nat \cup {Chunks} :
        /\ p = HeadBytes(l)
        /\ t = IF l = Chunks THEN Wait("chunk", 0, Len(body), replies)
               ELSE Wait("body", l, Len(body), replies)
  <2>1. Step(p, Here, t)
    BY <1>2, Zenon DEF Goes
  <2> QED BY <1>3, <1>4, <2>1 DEF Step
<1>6. l \in Int /\ p \in Seq(Octet) /\ Len(p) = 2 /\ p[1] = <<"head", l>>
  <2>1. l \in Int
    BY DEF Chunks
  <2> QED BY <1>5, <2>1, FramingBytes
<1>7. conn.wire[1] = <<"head", l>>
  <2>1. conn.wire[1] = p[1]
    <3>1. conn \in Buffers /\ r \in Seq(Octet) /\ Pending(conn) = p \o r
      BY <1>1, <1>2, Zenon DEF Goes, ServerInv
    <3>2. Len(conn.wire) >= Len(p) /\ 1 \in 1 .. Len(p)
      BY <1>4, <1>6
    <3> HIDE DEF Octet
    <3> QED BY <1>6, <3>1, <3>2, Prefix
  <2> QED BY <1>6, <2>1
<1>8. conn.wire[1][1] = "head" /\ conn.wire[1][2] = l
  BY <1>7
<1>9. /\ conn' = [conn EXCEPT !.wire = SubSeq(@, 2 + 1, Len(@))]
      /\ expects' = IF l = Chunks THEN [what |-> "chunk", size |-> 0] ELSE [what |-> "body", size |-> l]
  BY <1>8 DEF TakeHead, Take
<1>10. UNCHANGED <<body, replies>>
  BY <1>4
<1>11. CASE l = Chunks
  <2>1. ClientInv'
    BY <1>1, <1>9, <1>10, <1>11 DEF ClientInv
  <2>2. t = Wait("chunk", 0, Len(body)', replies') /\ expects' = [what |-> "chunk", size |-> 0]
    BY <1>5, <1>9, <1>10, <1>11
  <2> QED BY <1>1, <1>2, <1>4, <1>6, <1>9, <2>1, <2>2, ClientGoes
<1>12. CASE l # Chunks
  <2>0. l \in Nat
    BY <1>12
  <2>1. ClientInv'
    BY <1>1, <1>9, <1>10, <1>12, <2>0 DEF ClientInv
  <2>2. t = Wait("body", l, Len(body)', replies') /\ expects' = [what |-> "body", size |-> l]
    BY <1>5, <1>9, <1>10, <1>12
  <2> QED BY <1>1, <1>2, <1>4, <1>6, <1>9, <2>0, <2>1, <2>2, ClientGoes
<1> QED BY <1>11, <1>12

\* The size of a chunk.
LEMMA TakesChunkSize ==
  ASSUME ResponseInv, TakeChunkSize
  PROVE  ResponseInv'
<1>1. ServerInv /\ ClientInv
  BY DEF ResponseInv
<1>2. PICK p, r, t : Goes(p, r, t)
  BY ClientFinds DEF Client
<1>3. Here.what = expects.what /\ Here.has = Len(body) /\ Here.replies = replies
  BY DEF Here, Wait
<1>4. expects.what = "chunk" /\ Len(conn.wire) >= 3 /\ UNCHANGED <<body, replies, serverVars>>
  BY DEF TakeChunkSize
<1>5. PICK n \in Nat : p = ChunkSize(n) /\ t = Wait("data", n, Len(body), replies)
  <2>1. Step(p, Here, t)
    BY <1>2, Zenon DEF Goes
  <2> QED BY <1>3, <1>4, <2>1 DEF Step
<1>6. p \in Seq(Octet) /\ Len(p) = 3 /\ p[1] = <<"size", n>>
  BY <1>5, FramingBytes
<1>7. conn.wire[1] = <<"size", n>>
  <2>1. conn.wire[1] = p[1]
    <3>1. conn \in Buffers /\ r \in Seq(Octet) /\ Pending(conn) = p \o r
      BY <1>1, <1>2, Zenon DEF Goes, ServerInv
    <3>2. Len(conn.wire) >= Len(p) /\ 1 \in 1 .. Len(p)
      BY <1>4, <1>6
    <3> HIDE DEF Octet
    <3> QED BY <1>6, <3>1, <3>2, Prefix
  <2> QED BY <1>6, <2>1
<1>8. conn.wire[1][1] = "size" /\ conn.wire[1][2] = n
  BY <1>7
<1>9. /\ conn' = [conn EXCEPT !.wire = SubSeq(@, 3 + 1, Len(@))]
      /\ expects' = [what |-> "data", size |-> n]
  BY <1>8 DEF TakeChunkSize, Take
<1>10. UNCHANGED <<body, replies>>
  BY <1>4
<1>11. ClientInv'
  BY <1>1, <1>9, <1>10 DEF ClientInv
<1>12. t = Wait("data", n, Len(body)', replies')
  BY <1>5, <1>10
<1> QED BY <1>1, <1>2, <1>4, <1>6, <1>9, <1>11, <1>12, ClientGoes

\* The client gets the next n bytes of the body.
LEMMA BodyGrows ==
  ASSUME body \in Seq(Octet), \A k \in 1 .. Len(body) : body[k] = <<"data", k>>,
         NEW n \in Nat, NEW b, b = body \o Numbered(Len(body), n)
  PROVE  /\ b \in Seq(Octet) /\ Len(b) = Len(body) + n
         /\ \A k \in 1 .. Len(b) : b[k] = <<"data", k>>
<1> DEFINE m == Len(body)
           d == Numbered(m, n)
<1>1. m \in Nat
  OBVIOUS
<1> HIDE DEF m
<1>2. d \in Seq(Octet) /\ Len(d) = n /\ \A k \in 1 .. n : d[k] = <<"data", m + k>>
  BY <1>1, NumberedIs
<1> HIDE DEF d
<1>3. b \in Seq(Octet) /\ Joins(b, body, d)
  <2>1. b = body \o d
    BY DEF d, m
  <2> QED BY <1>2, <2>1, Joined
<1>4. /\ Len(b) = m + n /\ \A k \in 1 .. m : b[k] = <<"data", k>>
      /\ \A k \in 1 .. n : b[m + k] = <<"data", m + k>>
  BY <1>2, <1>3, Zenon DEF Joins, m
<1>5. ASSUME NEW k \in 1 .. m + n PROVE b[k] = <<"data", k>>
  <2>1. CASE k \in 1 .. m
    BY <1>4, <2>1, Zenon
  <2>2. CASE k \notin 1 .. m
    <3> DEFINE j == k - m
    <3>1. j \in 1 .. n /\ m + j = k
      BY <1>1, <2>2
    <3> HIDE DEF j
    <3> QED BY <1>4, <3>1, Zenon
  <2> QED BY <2>1, <2>2
<1> QED BY <1>3, <1>4, <1>5, Zenon DEF m

\* A chunk and its line end.
LEMMA TakesChunk ==
  ASSUME ResponseInv, TakeChunk
  PROVE  ResponseInv'
<1> DEFINE n == expects.size
           h == Len(body)
           d == Numbered(h, n)
           l == NewLine
           w == conn.wire
<1>1. ServerInv /\ ClientInv
  BY DEF ResponseInv
<1>2. PICK p, r, t : Goes(p, r, t)
  BY ClientFinds DEF Client
<1>3. Here.what = expects.what /\ Here.has = h /\ Here.replies = replies /\ Here.size = n
  BY DEF Here, Wait
<1>4. expects.what = "data" /\ Len(w) >= n + 2 /\ UNCHANGED serverVars
  BY DEF TakeChunk
<1>5. /\ p = d \o l
      /\ t = IF n = 0 THEN Wait("head", 0, h, replies + 1) ELSE Wait("chunk", 0, h + n, replies)
  <2>1. Step(p, Here, t)
    BY <1>2, Zenon DEF Goes
  <2> HIDE DEF n, h, l
  <2> QED BY <1>3, <1>4, <2>1 DEF Step, l
<1>6. n \in Nat /\ h \in Nat /\ replies \in Nat
  BY <1>1 DEF ClientInv
<1>7. d \in Seq(Octet) /\ Len(d) = n /\ l \in Seq(Octet) /\ Len(l) = 2
  <2> HIDE DEF n, h
  <2> QED BY <1>6, NumberedIs, FramingBytes
<1> HIDE DEF n, h, d, l, w
<1>8. p \in Seq(Octet) /\ Len(p) = n + 2 /\ Joins(p, d, l)
  <2>1. p \in Seq(Octet) /\ Joins(p, d, l)
    BY <1>5, <1>7, Joined
  <2> QED BY <1>7, <2>1, Zenon DEF Joins
<1>9. w \in Seq(Octet) /\ Len(w) \in Nat /\ \A i \in 1 .. Len(p) : w[i] = p[i]
  <2>1. conn \in Buffers /\ r \in Seq(Octet) /\ Pending(conn) = p \o r
    BY <1>1, <1>2, Zenon DEF Goes, ServerInv
  <2>2. Len(w) >= Len(p)
    BY <1>4, <1>8
  <2>3. \A i \in 1 .. Len(p) : w[i] = p[i]
    BY <1>8, <2>1, <2>2, Prefix DEF w
  <2>4. w \in Seq(Octet)
    BY <2>1 DEF w, Buffers
  <2>5. Len(w) \in Nat
    BY <2>4
  <2> QED BY <2>3, <2>4, <2>5
<1>10. SubSeq(w, 1, n) = d
  <2> DEFINE z == 0
  <2>1. z \in Nat /\ z + Len(d) <= Len(w) /\ z + 1 = 1 /\ z + Len(d) = n
    BY <1>4, <1>6, <1>7, <1>9
  <2>2. \A i \in 1 .. Len(d) : w[z + i] = d[i]
    <3>1. \A i \in 1 .. Len(d) : z + i = i /\ i \in 1 .. Len(p)
      BY <1>6, <1>7, <1>8
    <3> HIDE DEF z
    <3> QED BY <1>8, <1>9, <3>1, Zenon DEF Joins
  <2> HIDE DEF z
  <2>3. SubSeq(w, z + 1, z + Len(d)) = d
    BY ONLY <1>7, <1>9, <2>1, <2>2, CutIs
  <2> QED BY <2>1, <2>3
<1>11. SubSeq(w, n + 1, n + 2) = l
  <2>1. n + Len(l) <= Len(w)
    BY <1>4, <1>6, <1>7, <1>9
  <2>2. \A i \in 1 .. Len(l) : w[n + i] = l[i]
    <3>1. \A i \in 1 .. Len(l) : n + i \in 1 .. Len(p)
      BY <1>6, <1>7, <1>8
    <3>2. \A i \in 1 .. Len(l) : p[n + i] = l[i]
      BY <1>7, <1>8, Zenon DEF Joins
    <3> QED BY <1>9, <3>1, <3>2, Zenon
  <2>3. SubSeq(w, n + 1, n + Len(l)) = l
    BY ONLY <1>6, <1>7, <1>9, <2>1, <2>2, CutIs
  <2> QED BY <1>7, <2>3
<1>12. /\ Take(n + 2, IF n = 0 THEN "head" ELSE "chunk", 0)
       /\ body' = body \o d /\ replies' = replies + (IF n = 0 THEN 1 ELSE 0)
  <2>1. SubSeq(conn.wire, expects.size + 1, expects.size + 2) = NewLine
    BY <1>11 DEF w, n, l
  <2>2. /\ Take(expects.size + 2, IF expects.size = 0 THEN "head" ELSE "chunk", 0)
        /\ body' = body \o SubSeq(conn.wire, 1, expects.size)
        /\ replies' = replies + (IF expects.size = 0 THEN 1 ELSE 0)
    BY <2>1, Zenon DEF TakeChunk
  <2> QED BY <1>10, <2>2, Zenon DEF w, n
<1>13. body' \in Seq(Octet) /\ Len(body') = h + n /\ \A k \in 1 .. Len(body') : body'[k] = <<"data", k>>
  BY <1>1, <1>6, <1>12, BodyGrows DEF ClientInv, d, h
<1> DEFINE what == IF n = 0 THEN "head" ELSE "chunk"
<1>14. what \in {"head", "chunk", "data", "body"} /\ 0 \in Nat
  OBVIOUS
<1>15. /\ conn' = [conn EXCEPT !.wire = SubSeq(@, Len(p) + 1, Len(@))]
       /\ expects' = [what |-> what, size |-> 0]
  <2>1. (n + 2) + 1 = Len(p) + 1
    BY <1>8
  <2> QED BY <1>12, <2>1, Zenon DEF Take
<1>16. replies' \in Nat
  BY <1>6, <1>12
<1>17. t = Wait(what, 0, Len(body'), replies')
  BY <1>5, <1>6, <1>12, <1>13
<1>18. Len(w) >= Len(p)
  BY <1>4, <1>8
<1> HIDE DEF what
<1>19. ClientInv'
  BY <1>13, <1>14, <1>15, <1>16 DEF ClientInv
<1> QED BY <1>1, <1>2, <1>4, <1>14, <1>15, <1>17, <1>18, <1>19, ClientGoes, Zenon DEF w

\* A body of the length that was announced.
LEMMA TakesBody ==
  ASSUME ResponseInv, TakeBody
  PROVE  ResponseInv'
<1> DEFINE n == expects.size
           h == Len(body)
           w == conn.wire
<1>1. ServerInv /\ ClientInv
  BY DEF ResponseInv
<1>2. PICK p, r, t : Goes(p, r, t)
  BY ClientFinds DEF Client
<1>3. Here.what = expects.what /\ Here.has = h /\ Here.replies = replies /\ Here.size = n
  BY DEF Here, Wait
<1>4. /\ expects.what = "body" /\ Len(w) >= n /\ UNCHANGED serverVars
      /\ conn' = [conn EXCEPT !.wire = SubSeq(@, n + 1, Len(@))] /\ expects' = [what |-> "head", size |-> 0]
      /\ body' = body \o SubSeq(w, 1, n) /\ replies' = replies + 1
  BY DEF TakeBody, Take
<1>5. p = Numbered(h, n) /\ t = Wait("head", 0, h + n, replies + 1)
  <2>1. Step(p, Here, t)
    BY <1>2, Zenon DEF Goes
  <2> HIDE DEF n, h
  <2> QED BY <1>3, <1>4, <2>1 DEF Step
<1>6. n \in Nat /\ h \in Nat /\ replies \in Nat
  BY <1>1 DEF ClientInv
<1> HIDE DEF n, h
<1>7. p \in Seq(Octet) /\ Len(p) = n
  BY <1>5, <1>6, NumberedIs
<1>8. SubSeq(w, 1, n) = p
  <2>1. conn \in Buffers /\ r \in Seq(Octet) /\ Pending(conn) = p \o r
    BY <1>1, <1>2, Zenon DEF Goes, ServerInv
  <2>2. SubSeq(conn.wire, 1, Len(p)) = p
    BY <1>4, <1>7, <2>1, Prefix
  <2> QED BY <1>7, <2>2
<1>9. body' \in Seq(Octet) /\ Len(body') = h + n /\ \A k \in 1 .. Len(body') : body'[k] = <<"data", k>>
  <2>1. body' = body \o Numbered(Len(body), n)
    BY <1>4, <1>5, <1>8, Zenon DEF h
  <2> QED BY <1>1, <1>6, <2>1, BodyGrows DEF ClientInv, h
<1>10. ClientInv'
  <2>1. replies' \in Nat /\ expects' \in [what : {"head", "chunk", "data", "body"}, size : Nat]
    BY <1>4, <1>6
  <2> QED BY <1>9, <2>1 DEF ClientInv
<1>11. t = Wait("head", 0, Len(body'), replies')
  BY <1>4, <1>5, <1>9
<1>12. conn' = [conn EXCEPT !.wire = SubSeq(@, Len(p) + 1, Len(@))] /\ Len(w) >= Len(p)
  BY <1>4, <1>7, Zenon
<1>13. "head" \in {"head", "chunk", "data", "body"} /\ 0 \in Nat
  OBVIOUS
<1> QED BY <1>1, <1>2, <1>4, <1>10, <1>11, <1>12, <1>13, ClientGoes, Zenon DEF w

-----------------------------------------------------------------------------
(* Responses: the server *)

\* What the server writes, b, makes a client that has read all there was, at e
\* with z left over, one at f.
LEMMA ServerWrites ==
  ASSUME NEW c \in Buffers, NEW b \in Seq(Octet),
         NEW z \in Seq(Octet), NEW e \in Waits, NEW f \in Waits, NEW s,
         <<Pending(c), s>> \in Before(z, e), Step(z \o b, e, f)
  PROVE  /\ Push(c, b) \in Buffers
         /\ <<Pending(Push(c, b)), s>> \in Before(<< >>, f)
<1>1. IoMax \in Nat \ {0}
  BY ResponseAssumption
<1>2. Push(c, b) \in Buffers /\ Pending(Push(c, b)) = Pending(c) \o b
  BY <1>1, Pushed
<1>3. <<Pending(c) \o b, s>> \in Before(<< >>, f)
  BY BeforeStep
<1> QED BY <1>2, <1>3, Zenon

\* The client stays where it is.
LEMMA ClientWaits ==
  ASSUME ClientInv, UNCHANGED readerVars
  PROVE  ClientInv' /\ Here' = Here
<1>1. UNCHANGED <<expects, body, replies>>
  BY DEF readerVars
<1> QED BY <1>1 DEF ClientInv, Here

\* What lies between both makes the invariant.
LEMMA Restored ==
  ASSUME ServerInv', ClientInv', NEW z \in Seq(Octet), NEW e \in Waits, Ends(z, e)',
         <<Pending(conn'), Here'>> \in Before(z, e)
  PROVE  ResponseInv'
BY Zenon DEF ResponseInv

\* States of the client.
LEMMA WaitIs ==
  ASSUME NEW what \in {"head", "chunk", "data", "body"}, NEW size \in Nat, NEW has \in Nat,
         NEW r \in Nat
  PROVE  /\ Wait(what, size, has, r) \in Waits
         /\ Wait(what, size, has, r).what = what /\ Wait(what, size, has, r).size = size
         /\ Wait(what, size, has, r).has = has /\ Wait(what, size, has, r).replies = r
BY DEF Wait, Waits

\* A response begins.
LEMMA ResponseBegins ==
  ASSUME ResponseInv,
         NEW length \in ContentLengths \cup {Chunks}, BeginResponse(length)
  PROVE  ResponseInv'
<1> DEFINE b == HeadBytes(length)
<1>e. PICK e : e = Wait("head", 0, passed, ended)
  OBVIOUS
<1>1. ServerInv /\ ClientInv
  BY DEF ResponseInv
<1>2. /\ ~serving /\ conn' = Push(conn, b) /\ serving' = TRUE
      /\ chunked' = (length = Chunks)
      /\ wanted' = IF length = Chunks THEN 0 ELSE length
      /\ UNCHANGED <<passed, ended, readerVars>>
  BY DEF BeginResponse
<1>3. passed \in Nat /\ ended \in Nat /\ conn \in Buffers
  BY <1>1 DEF ServerInv
<1>4. <<Pending(conn), Here>> \in Before(<< >>, e) /\ e \in Waits
  <2>1. PICK y \in Seq(Octet), v \in Waits : Ends(y, v) /\ <<Pending(conn), Here>> \in Before(y, v)
    BY Zenon DEF ResponseInv
  <2>2. ended + 0 = ended
    BY <1>3
  <2>3. y = << >> /\ v = e
    BY <1>e, <1>1, <1>2, <2>1, <2>2, Zenon DEF Ends, ServerInv
  <2>4. e \in Waits
    BY <2>3
  <2> QED BY <2>1, <2>3, <2>4, Zenon
<1>5. length \in Nat \cup {Chunks} /\ length \in Int
  BY ResponseAssumption DEF Chunks
<1>6. b \in Seq(Octet) /\ << >> \in Seq(Octet) /\ << >> \o b = b
  <2>1. b \in Seq(Octet)
    BY <1>5, FramingBytes
  <2> HIDE DEF b
  <2> QED BY <2>1, ConcatEmptySeq, EmptySeq
<1>7. e.what = "head" /\ e.has = passed /\ e.replies = ended
  BY <1>e DEF Wait
<1>8. ClientInv' /\ Here' = Here
  BY <1>1, <1>2, ClientWaits
<1>9. CASE length = Chunks
  <2>f. PICK f : f = Wait("chunk", 0, passed, ended)
    OBVIOUS
  <2>1. f \in Waits
    BY <1>3, <2>f, WaitIs
  <2>2. Step(b, e, f)
    BY <1>7, <1>9, <2>f, Zenon DEF Step
  <2> HIDE DEF b
  <2>3. conn' \in Buffers /\ <<Pending(conn'), Here'>> \in Before(<< >>, f)
    BY <1>2, <1>3, <1>4, <1>6, <1>8, <2>1, <2>2, ServerWrites
  <2>4. ServerInv'
    BY <1>2, <1>3, <1>9, <2>3 DEF ServerInv
  <2>5. Ends(<< >>, f)'
    BY <1>2, <1>9, <2>f, Zenon DEF Ends
  <2> QED BY <1>6, <1>8, <2>1, <2>3, <2>4, <2>5, Restored
<1>10. CASE length # Chunks
  <2>f. PICK f : f = Wait("body", length, passed, ended)
    OBVIOUS
  <2>0. length \in Nat
    BY <1>5, <1>10
  <2>1. f \in Waits
    BY <1>3, <2>0, <2>f, WaitIs
  <2>2. Step(b, e, f)
    BY <1>5, <1>7, <1>10, <2>f, Zenon DEF Step
  <2>3. f.what = "body" /\ f.size = length /\ f.has = passed /\ f.replies = ended
    BY <2>f DEF Wait
  <2> HIDE DEF b
  <2>4. conn' \in Buffers /\ <<Pending(conn'), Here'>> \in Before(<< >>, f)
    BY <1>2, <1>3, <1>4, <1>6, <1>8, <2>1, <2>2, ServerWrites
  <2>5. ServerInv'
    BY <1>2, <1>3, <1>10, <2>0, <2>4 DEF ServerInv
  <2>6. Numbered(passed, 0) = << >> /\ 0 \in 0 .. passed /\ passed - 0 = passed /\ 0 + length = length
    <3>1. Numbered(passed, 0) = << >>
      BY <1>3, NumberedOn
    <3> QED BY <1>3, <2>0, <3>1
  <2>7. CASE length > 0
    <3>1. \E n \in 0 .. passed : /\ << >> = Numbered(passed - n, n)
                                 /\ f = Wait("body", n + length, passed - n, ended)
      BY <2>6, <2>f, Zenon
    <3>2. wanted' = length /\ serving' /\ ~chunked' /\ passed' = passed /\ ended' = ended
      BY <1>2, <1>10
    <3>3. Ends(<< >>, f)'
      BY <2>7, <3>1, <3>2, Zenon DEF Ends
    <3> QED BY <1>6, <1>8, <2>1, <2>4, <2>5, <3>3, Restored
  <2>8. CASE ~(length > 0)
    <3>g. PICK g : g = Wait("head", 0, passed, ended + 1)
      OBVIOUS
    <3>1. g \in Waits
      BY <1>3, <3>g, WaitIs
    <3>2. length = 0
      BY <2>0, <2>8
    <3>3. Step(<< >> \o << >>, f, g)
      <4>1. passed + 0 = passed
        BY <1>3
      <4>2. << >> \o << >> = << >>
        BY ConcatEmptySeq, EmptySeq
      <4>3. Step(<< >>, f, g)
        BY <2>3, <2>6, <3>2, <3>g, <4>1, Zenon DEF Step
      <4> QED BY <4>2, <4>3
    <3>4. <<Pending(conn') \o << >>, Here'>> \in Before(<< >>, g)
      BY <1>6, <2>1, <2>4, <3>1, <3>3, BeforeStep
    <3>5. Pending(conn') \o << >> = Pending(conn')
      <4>1. Pending(conn') \in Seq(Octet)
        BY <1>6, <2>1, <2>4, NotAhead
      <4> QED BY <4>1, ConcatEmptySeq
    <3>6. <<Pending(conn'), Here'>> \in Before(<< >>, g)
      BY <3>4, <3>5, Zenon
    <3>7. wanted' = 0 /\ serving' /\ ~chunked' /\ passed' = passed /\ ended' = ended
      BY <1>2, <1>10, <3>2
    <3>8. Ends(<< >>, g)'
      <4>1. ~(0 > 0)
        OBVIOUS
      <4>2. g = Wait("head", 0, passed', ended' + (IF serving' THEN 1 ELSE 0))
        BY <3>7, <3>g, Zenon
      <4> QED BY <3>7, <4>1, <4>2, Zenon DEF Ends
    <3> QED BY <1>6, <1>8, <2>5, <3>1, <3>6, <3>8, Restored
  <2> QED BY <2>7, <2>8
<1> QED BY <1>9, <1>10

\* A chunk is written.
LEMMA ChunkWritten ==
  ASSUME ResponseInv, NEW n \in WriteSizes, n # 0,
         WriteBody(n), chunked
  PROVE  ResponseInv'
<1>e. PICK e, f, g : /\ e = Wait("chunk", 0, passed, ended) /\ f = Wait("data", n, passed, ended)
                     /\ g = Wait("chunk", 0, passed + n, ended)
  OBVIOUS
<1> DEFINE x == ChunkSize(n)
           d == Numbered(passed, n)
           l == NewLine
           p == Push(conn, x)
           q == Push(p, d)
<1>1. ServerInv /\ ClientInv
  BY DEF ResponseInv
<1>2. /\ serving /\ conn' = Push(q, l) /\ passed' = passed + n /\ wanted' = 0
      /\ UNCHANGED <<serving, chunked, ended, readerVars>>
  BY DEF WriteBody, DataBytes, Numbered
<1>3. passed \in Nat /\ ended \in Nat /\ conn \in Buffers /\ wanted = 0 /\ n \in Nat
  BY <1>1, ResponseAssumption DEF ServerInv
<1>4. <<Pending(conn), Here>> \in Before(<< >>, e)
  <2>1. PICK y \in Seq(Octet), v \in Waits : Ends(y, v) /\ <<Pending(conn), Here>> \in Before(y, v)
    BY Zenon DEF ResponseInv
  <2>2. y = << >> /\ v = e
    BY <1>e, <2>1, Zenon DEF Ends
  <2> QED BY <2>1, <2>2, Zenon
<1>5. /\ x \in Seq(Octet) /\ d \in Seq(Octet) /\ l \in Seq(Octet)
  <2> HIDE DEF Octet
  <2>1. x \in Seq(Octet) /\ l \in Seq(Octet)
    BY <1>3, FramingBytes
  <2>2. d \in Seq(Octet)
    BY <1>3, NumberedIs
  <2> QED BY <2>1, <2>2
<1>6. /\ e \in Waits /\ f \in Waits /\ g \in Waits /\ e.what = "chunk" /\ e.has = passed /\ e.replies = ended
      /\ f.what = "data" /\ f.size = n /\ f.has = passed /\ f.replies = ended
  <2>1. passed + n \in Nat /\ 0 \in Nat
    BY <1>3
  <2>2. e \in Waits /\ e.what = "chunk" /\ e.has = passed /\ e.replies = ended
    BY <1>3, <1>e, <2>1 DEF Wait, Waits
  <2>3. f \in Waits /\ f.what = "data" /\ f.size = n /\ f.has = passed /\ f.replies = ended
    BY <1>3, <1>e, <2>1 DEF Wait, Waits
  <2>4. g \in Waits
    BY <1>3, <1>e, <2>1 DEF Wait, Waits
  <2> QED BY <2>2, <2>3, <2>4
<1>7. Step(x, e, f)
  BY <1>3, <1>6, <1>e, Zenon DEF Step
<1>8. Step(d \o l, f, g)
  BY <1>6, <1>e, Zenon DEF Step
<1>9. ClientInv' /\ Here' = Here
  BY <1>1, <1>2, ClientWaits
<1> HIDE DEF x, d, l
<1>10. << >> \in Seq(Octet) /\ << >> \o x = x
  BY <1>5, ConcatEmptySeq, EmptySeq
<1>11. p \in Buffers /\ <<Pending(p), Here>> \in Before(<< >>, f)
  BY <1>3, <1>4, <1>5, <1>6, <1>7, <1>10, ServerWrites
<1> HIDE DEF p
<1>12. q \in Buffers /\ Pending(q) = Pending(p) \o d
  <2>1. IoMax \in Nat \ {0}
    BY ResponseAssumption
  <2> QED BY <1>5, <1>11, <2>1, Pushed
<1>13. <<Pending(q), Here>> \in Before(d, f)
  <2>1. <<Pending(p) \o d, Here>> \in Before(<< >> \o d, f)
    BY <1>5, <1>6, <1>10, <1>11, BeforeMore
  <2>2. << >> \o d = d
    BY <1>5, ConcatEmptySeq
  <2> QED BY <1>12, <2>1, <2>2, Zenon
<1> HIDE DEF q
<1>14. conn' \in Buffers /\ <<Pending(conn'), Here'>> \in Before(<< >>, g)
  BY <1>2, <1>5, <1>6, <1>8, <1>9, <1>12, <1>13, ServerWrites
<1>15. ServerInv'
  <2>1. passed' \in Nat
    BY <1>2, <1>3
  <2> QED BY <1>1, <1>2, <1>14, <2>1 DEF ServerInv
<1>16. Ends(<< >>, g)'
  <2>1. chunked' /\ g = Wait("chunk", 0, passed', ended')
    BY <1>2, <1>e, Zenon
  <2> QED BY <2>1, Zenon DEF Ends
<1> QED BY <1>6, <1>9, <1>10, <1>14, <1>15, <1>16, Restored

\* Some bytes of a body of the length announced are written, or the last.
LEMMA BytesWritten ==
  ASSUME ResponseInv, NEW n \in WriteSizes, n # 0,
         WriteBody(n), ~chunked
  PROVE  ResponseInv'
<1>d. PICK d : d = Numbered(passed, n)
  OBVIOUS
<1>1. ServerInv /\ ClientInv
  BY DEF ResponseInv
<1>2. /\ serving /\ n <= wanted /\ conn' = Push(conn, d) /\ passed' = passed + n
      /\ wanted' = wanted - n
      /\ UNCHANGED <<serving, chunked, ended, readerVars>>
  BY <1>d DEF WriteBody, DataBytes, Numbered
<1>3. passed \in Nat /\ ended \in Nat /\ conn \in Buffers /\ wanted \in Nat /\ n \in Nat
  BY <1>1, ResponseAssumption DEF ServerInv
<1>4. wanted > 0 /\ wanted - n \in Nat /\ passed + n \in Nat
  BY <1>2, <1>3
<1>5. PICK z \in Seq(Octet), e \in Waits : Ends(z, e) /\ <<Pending(conn), Here>> \in Before(z, e)
  BY Zenon DEF ResponseInv
<1>6. PICK m \in 0 .. passed : z = Numbered(passed - m, m) /\ e = Wait("body", m + wanted, passed - m, ended)
  BY <1>2, <1>4, <1>5, Zenon DEF Ends
<1> DEFINE b == passed - m
           size == m + wanted
<1>7. /\ b \in Nat /\ m \in Nat /\ b + m = passed /\ size \in Nat
      /\ m + n \in 0 .. passed + n /\ (passed + n) - (m + n) = b /\ (m + n) + (wanted - n) = size
      /\ b + size = passed + wanted
  BY <1>3
<1> HIDE DEF b, size
<1>8. d \in Seq(Octet) /\ z \o d = Numbered(b, m + n)
  <2>1. d \in Seq(Octet)
    BY <1>3, <1>d, NumberedIs
  <2>2. Numbered(b, m) \o Numbered(b + m, n) = Numbered(b, m + n)
    <3>1. n \in Nat /\ b \in Nat /\ m \in Nat
      BY <1>3, <1>7, Zenon
    <3> QED BY ONLY <3>1, NumberedOn
  <2>3. z = Numbered(b, m) /\ d = Numbered(b + m, n)
    BY <1>d, <1>6, <1>7, Zenon DEF b
  <2> QED BY <2>1, <2>2, <2>3, Zenon
<1>9. ClientInv' /\ Here' = Here
  BY <1>1, <1>2, ClientWaits
<1>10. e = Wait("body", size, b, ended) /\ z \in Seq(Octet) /\ e \in Waits
  BY <1>5, <1>6, Zenon DEF size, b
<1>11. conn' \in Buffers /\ Pending(conn') = Pending(conn) \o d
  <2>1. IoMax \in Nat \ {0}
    BY ResponseAssumption
  <2> QED BY <1>2, <1>3, <1>8, <2>1, Pushed
<1>12. ServerInv'
  BY <1>1, <1>2, <1>4, <1>11 DEF ServerInv
<1>13. z \o d \in Seq(Octet)
  BY <1>8, <1>10, Joined
<1>14. CASE wanted - n > 0
  <2>1. <<Pending(conn'), Here'>> \in Before(z \o d, e)
    <3>1. <<Pending(conn) \o d, Here>> \in Before(z \o d, e)
      BY <1>5, <1>8, BeforeMore
    <3> QED BY <1>9, <1>11, <3>1, Zenon
  <2>2. \E k \in 0 .. passed + n :
           /\ z \o d = Numbered((passed + n) - k, k)
           /\ e = Wait("body", k + (wanted - n), (passed + n) - k, ended)
    BY <1>7, <1>8, <1>10, Zenon
  <2>3. Ends(z \o d, e)'
    <3> DEFINE Y(a, p, w) == \E k \in 0 .. p : /\ z \o d = Numbered(p - k, k)
                                               /\ e = Wait("body", k + a, p - k, w)
    <3>1. Y(wanted - n, passed + n, ended)
      BY <2>2
    <3> HIDE DEF Y
    <3>2. Y(wanted', passed', ended')
      BY <1>2, <3>1, Zenon
    <3>3. serving' /\ ~chunked' /\ wanted' > 0
      BY <1>2, <1>14, Zenon
    <3> QED BY <3>2, <3>3, Zenon DEF Ends, Y
  <2> QED BY <1>9, <1>10, <1>12, <1>13, <2>1, <2>3, Restored
<1>15. CASE ~(wanted - n > 0)
  <2>f. PICK f : f = Wait("head", 0, passed + n, ended + 1)
    OBVIOUS
  <2>1. n = wanted /\ m + n = size /\ b + size = passed + n
    BY <1>2, <1>3, <1>7, <1>15
  <2>2. f \in Waits
    BY <1>3, <1>4, <2>f, WaitIs
  <2>3. e.what = "body" /\ e.size = size /\ e.has = b /\ e.replies = ended
    BY <1>10 DEF Wait
  <2>4. Step(z \o d, e, f)
    BY <1>8, <2>1, <2>3, <2>f, Zenon DEF Step
  <2>5. <<Pending(conn'), Here'>> \in Before(<< >>, f)
    <3>1. <<Pending(conn) \o d, Here>> \in Before(<< >>, f)
      BY <1>5, <1>8, <2>2, <2>4, BeforeStep
    <3> QED BY <1>9, <1>11, <3>1, Zenon
  <2>6. Ends(<< >>, f)'
    <3>1. f = Wait("head", 0, passed', ended' + (IF serving' THEN 1 ELSE 0))
      BY <1>2, <2>f, Zenon
    <3>2. ~(wanted' > 0) /\ ~chunked'
      BY <1>2, <1>15, Zenon
    <3> QED BY <3>1, <3>2, Zenon DEF Ends
  <2>7. << >> \in Seq(Octet)
    BY EmptySeq
  <2> QED BY <1>9, <1>12, <2>2, <2>5, <2>6, <2>7, Restored
<1> QED BY <1>14, <1>15

\* A response ends, with the last chunk if it comes in chunks.
LEMMA ResponseEnds ==
  ASSUME ResponseInv, EndResponse
  PROVE  ResponseInv'
<1> DEFINE x == ChunkSize(0) \o NewLine
           c == IF chunked THEN Push(conn, x) ELSE conn
<1>g. PICK g : g = Wait("head", 0, passed, ended + 1)
  OBVIOUS
<1>1. ServerInv /\ ClientInv
  BY DEF ResponseInv
<1>2. /\ serving /\ wanted = 0 /\ conn' = Push(c, << >>) /\ serving' = FALSE
      /\ chunked' = FALSE /\ ended' = ended + 1 /\ UNCHANGED <<wanted, passed, readerVars>>
  BY DEF EndResponse
<1>3. passed \in Nat /\ ended \in Nat /\ conn \in Buffers /\ ended + 1 \in Nat /\ 0 \in Nat /\ ~(wanted > 0)
  BY <1>1, <1>2 DEF ServerInv
<1>4. PICK z \in Seq(Octet), e \in Waits : Ends(z, e) /\ <<Pending(conn), Here>> \in Before(z, e)
  BY Zenon DEF ResponseInv
<1>5. z = << >> /\ e = IF chunked THEN Wait("chunk", 0, passed, ended) ELSE g
  BY <1>2, <1>3, <1>4, <1>g, Zenon DEF Ends
<1>6. g \in Waits
  BY <1>3, <1>g, WaitIs
<1>7. ClientInv' /\ Here' = Here
  BY <1>1, <1>2, ClientWaits
<1>8. << >> \in Seq(Octet) /\ IoMax \in Nat \ {0}
  BY EmptySeq, ResponseAssumption
<1> HIDE DEF c
<1>9. c \in Buffers /\ <<Pending(c), Here>> \in Before(<< >>, g)
  <2>1. CASE chunked
    <3> DEFINE s == ChunkSize(0)
               l == NewLine
               o == Pending(conn)
    <3>f. PICK f : f = Wait("data", 0, passed, ended)
      OBVIOUS
    <3>1. s \in Seq(Octet) /\ l \in Seq(Octet)
      BY <1>3, FramingBytes
    <3>2. e.what = "chunk" /\ e.has = passed /\ e.replies = ended
      BY <1>5, <2>1 DEF Wait
    <3>3. f \in Waits /\ f.what = "data" /\ f.size = 0 /\ f.has = passed /\ f.replies = ended
      BY <1>3, <3>f DEF Wait, Waits
    <3>4. Step(s, e, f)
      BY <1>3, <3>2, <3>f, Zenon DEF Step
    <3>5. Step(l, f, g)
      <4>1. Numbered(passed, 0) = << >>
        BY <1>3, NumberedOn
      <4>2. << >> \o l = l
        BY <3>1, ConcatEmptySeq
      <4> QED BY <1>g, <3>3, <4>1, <4>2, Zenon DEF Step
    <3> HIDE DEF s, l, o
    <3>6. << >> \o s = s /\ << >> \o l = l
      BY <3>1, ConcatEmptySeq
    <3>7. <<o \o s, Here>> \in Before(<< >>, f)
      <4>1. Step(<< >> \o s, e, f)
        BY <3>4, <3>6
      <4>2. <<o, Here>> \in Before(<< >>, e)
        BY <1>4, <1>5, Zenon DEF o
      <4> QED BY <1>4, <1>8, <3>1, <3>3, <4>1, <4>2, BeforeStep
    <3>8. <<(o \o s) \o l, Here>> \in Before(<< >>, g)
      <4>1. Step(<< >> \o l, f, g)
        BY <3>5, <3>6
      <4> QED BY <1>6, <1>8, <3>1, <3>3, <3>7, <4>1, BeforeStep
    <3>9. o \in Seq(Octet)
      BY <1>4, NotAhead DEF o
    <3>10. (o \o s) \o l = o \o (s \o l)
      <4>1. s \in Seq(Octet)
        BY <3>1
      <4>2. l \in Seq(Octet)
        BY <3>1
      <4> QED BY ONLY <3>9, <4>1, <4>2, ConcatAssociative
    <3>11. s \o l \in Seq(Octet)
      BY <3>1, Joined
    <3>12. c = Push(conn, s \o l)
      BY <2>1 DEF c, s, l
    <3>13. c \in Buffers /\ Pending(c) = o \o (s \o l)
      BY <1>3, <1>8, <3>11, <3>12, Pushed DEF o
    <3> QED BY <3>8, <3>10, <3>13, Zenon
  <2>2. CASE ~chunked
    BY <1>3, <1>4, <1>5, <2>2, Zenon DEF c
  <2> QED BY <2>1, <2>2
<1>10. conn' \in Buffers /\ Pending(conn') = Pending(c)
  <2>1. conn' \in Buffers /\ Pending(conn') = Pending(c) \o << >>
    BY <1>2, <1>8, <1>9, Pushed
  <2>2. Pending(c) \in Seq(Octet)
    BY <1>6, <1>8, <1>9, NotAhead
  <2> QED BY <2>1, <2>2, ConcatEmptySeq
<1>11. ServerInv'
  BY <1>1, <1>2, <1>3, <1>10 DEF ServerInv
<1>12. Ends(<< >>, g)'
  <2>1. (ended + 1) + 0 = ended + 1
    BY <1>3
  <2>2. g = Wait("head", 0, passed', ended' + (IF serving' THEN 1 ELSE 0))
    BY <1>2, <1>g, <2>1, Zenon
  <2> QED BY <1>2, <2>2, Zenon DEF Ends
<1>13. <<Pending(conn'), Here'>> \in Before(<< >>, g)
  BY <1>7, <1>9, <1>10, Zenon
<1> QED BY <1>6, <1>7, <1>8, <1>11, <1>12, <1>13, Restored

\* Nothing happens.
LEMMA ResponseRests ==
  ASSUME ResponseInv, UNCHANGED responseVars
  PROVE  ResponseInv'
<1>1. UNCHANGED <<conn, serving, chunked, wanted, passed, ended, operations, expects, body, replies>>
  BY DEF responseVars, serverVars, readerVars
<1>2. ServerInv' /\ ClientInv'
  <2>1. ServerInv /\ ClientInv
    BY DEF ResponseInv
  <2> QED BY <1>1, <2>1 DEF ServerInv, ClientInv
<1>3. Here' = Here /\ Pending(conn') = Pending(conn)
  BY <1>1 DEF Here, Pending
<1>4. PICK z \in Seq(Octet), e \in Waits : Ends(z, e) /\ <<Pending(conn), Here>> \in Before(z, e)
  BY Zenon DEF ResponseInv
<1>5. Ends(z, e)'
  BY <1>1, <1>4 DEF Ends
<1> QED BY <1>2, <1>3, <1>4, <1>5, Zenon DEF ResponseInv

\* Every step keeps the invariant, as long as WebbyWrite is not called with no bytes.
LEMMA NextResponse ==
  0 \notin WriteSizes /\ ResponseInv /\ [ResponseNext]_responseVars => ResponseInv'
<1> SUFFICES ASSUME 0 \notin WriteSizes, ResponseInv, [ResponseNext]_responseVars
             PROVE  ResponseInv'
  OBVIOUS
<1>1. ASSUME NEW length \in ContentLengths \cup {Chunks}, BeginResponse(length)
      PROVE  ResponseInv'
  BY <1>1, ResponseBegins
<1>2. ASSUME NEW n \in WriteSizes, WriteBody(n) PROVE ResponseInv'
  <2>1. n # 0
    OBVIOUS
  <2> QED BY <1>2, <2>1, ChunkWritten, BytesWritten
<1>3. CASE EndResponse
  BY <1>3, ResponseEnds
<1>4. CASE Client
  BY <1>4, TakesHead, TakesChunkSize, TakesChunk, TakesBody DEF Client
<1>5. CASE UNCHANGED responseVars
  BY <1>5, ResponseRests
<1> QED BY <1>1, <1>2, <1>3, <1>4, <1>5 DEF ResponseNext

\* For any size of the I/O buffer, any lengths announced and any sizes written but
\* none: the client gets the bytes of bodies in order and none of the framing.
\* (A call of WebbyWrite with no bytes writes the chunk that ends a response.)
THEOREM BodiesInOrder == 0 \notin WriteSizes /\ ResponseSpec => []BodyInOrder
<1> SUFFICES ASSUME 0 \notin WriteSizes PROVE ResponseSpec => []BodyInOrder
  OBVIOUS
<1>1. ResponseInit => ResponseInv
  BY InitResponse
<1>2. ResponseInv /\ [ResponseNext]_responseVars => ResponseInv'
  BY NextResponse
<1>3. ResponseInv => BodyInOrder
  BY ResponseFollows
<1> QED BY <1>1, <1>2, <1>3, PTL DEF ResponseSpec

\* Likewise, it takes no response for complete before all of it was written, and
\* between responses it has every byte that was passed to WebbyWrite.
THEOREM ResponsesComplete == 0 \notin WriteSizes /\ ResponseSpec => []CompleteWhenEnded
<1> SUFFICES ASSUME 0 \notin WriteSizes PROVE ResponseSpec => []CompleteWhenEnded
  OBVIOUS
<1>1. ResponseInit => ResponseInv
  BY InitResponse
<1>2. ResponseInv /\ [ResponseNext]_responseVars => ResponseInv'
  BY NextResponse
<1>3. ResponseInv => CompleteWhenEnded
  BY ResponseFollows
<1> QED BY <1>1, <1>2, <1>3, PTL DEF ResponseSpec
=============================================================================
