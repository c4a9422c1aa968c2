---------------------- MODULE SessionStreamProofs ----------------------
(***************************************************************************)
(* Theorems about SessionStream: the encoder, EncodeSize and the viewer's  *)
(* reader agree at every offset, so the viewer reads back what the session *)
(* wrote; strings come before the events that name them, as far as the     *)
(* table tells them apart; and the session implements EventStream.         *)
(*                                                                         *)
(* The invariant says that there is a log of all that the session has      *)
(* encoded, of which the messages under way and the buffer are pieces, and *)
(* that the viewer has read it up to an item.                              *)
(***************************************************************************)
EXTENDS SessionStream, SequenceTheorems, Induction

-----------------------------------------------------------------------------
(* Offsets *)

\* A field of encoded data.
Field == [value : Int, width : Nat]

\* at holds what Offset says of data: where each field begins, and the end.
Offsets(at, data) == /\ at \in [1 .. Len(data) + 1 -> Nat]
                     /\ at[1] = 0
                     /\ \A k \in 1 .. Len(data) : at[k + 1] = at[k] + data[k].width

\* Some function does.
LEMMA OffsetsExist ==
  ASSUME NEW data \in Seq(Field)
  PROVE  \E at : Offsets(at, data)
<1> DEFINE h == [n \in Nat |-> [x \in Nat |-> IF n \in 1 .. Len(data) THEN x + data[n].width ELSE x]]
<1>0. Len(data) \in Nat /\ \A n \in 1 .. Len(data) : data[n].width \in Nat
  <2>1. \A n \in 1 .. Len(data) : data[n] \in Field
    OBVIOUS
  <2> QED BY <2>1 DEF Field
<1>1. h \in [Nat -> [Nat -> Nat]]
  BY <1>0
<1>2. Recursions(Nat, 0, h, Len(data)) # {}
  <2> HIDE DEF h
  <2> QED BY <1>0, <1>1, RecursionsExist
<1>3. PICK f \in [0 .. Len(data) -> Nat] : f[0] = 0 /\ \A n \in 1 .. Len(data) : f[n] = h[n][f[n - 1]]
  <2> HIDE DEF h
  <2> QED BY <1>2 DEF Recursions
<1> DEFINE at == [k \in 1 .. Len(data) + 1 |-> f[k - 1]]
<1>4. at \in [1 .. Len(data) + 1 -> Nat] /\ at[1] = 0
  <2>1. \A k \in 1 .. Len(data) + 1 : k - 1 \in 0 .. Len(data)
    BY <1>0
  <2> QED BY <1>0, <1>3, <2>1
<1>5. ASSUME NEW k \in 1 .. Len(data) PROVE at[k + 1] = at[k] + data[k].width
  <2>1. k \in Nat /\ k - 1 \in 0 .. Len(data) /\ (k + 1) - 1 = k /\ k + 1 \in 1 .. Len(data) + 1
        /\ k \in 1 .. Len(data) + 1
    BY <1>0
  <2>2. f[k - 1] \in Nat /\ f[k] = h[k][f[k - 1]]
    BY <1>3, <2>1
  <2>3. f[k] = f[k - 1] + data[k].width
    BY <2>1, <2>2
  <2> QED BY <2>1, <2>3
<1>6. Offsets(at, data)
  <2> HIDE DEF at
  <2> QED BY <1>4, <1>5 DEF Offsets
<1> QED BY <1>6

\* Only one does.
LEMMA OffsetsUnique ==
  ASSUME NEW data \in Seq(Field), NEW f, Offsets(f, data), NEW g,
         g = [k \in 1 .. Len(data) + 1 |-> g[k]], g[1] = 0,
         \A k \in 1 .. Len(data) : g[k + 1] = g[k] + data[k].width
  PROVE  g = f
<1> DEFINE T == {n \in Nat : n + 1 \in 1 .. Len(data) + 1 => g[n + 1] = f[n + 1]}
<1>1. Len(data) \in Nat /\ 0 \in T
  BY DEF Offsets
<1>2. ASSUME NEW n \in Nat, n \in T PROVE n + 1 \in T
  <2> SUFFICES ASSUME (n + 1) + 1 \in 1 .. Len(data) + 1 PROVE g[(n + 1) + 1] = f[(n + 1) + 1]
    OBVIOUS
  <2>1. n + 1 \in 1 .. Len(data) /\ n + 1 \in 1 .. Len(data) + 1
    BY <1>1
  <2>2. g[n + 1] = f[n + 1]
    BY <1>2, <2>1
  <2>3. /\ g[(n + 1) + 1] = g[n + 1] + data[n + 1].width
        /\ f[(n + 1) + 1] = f[n + 1] + data[n + 1].width
    BY <2>1 DEF Offsets
  <2> QED BY <2>2, <2>3
<1>3. Nat \subseteq T
  <2> HIDE DEF T
  <2> QED BY <1>1, <1>2, SetInduction
<1>4. ASSUME NEW k \in 1 .. Len(data) + 1 PROVE g[k] = f[k]
  <2>1. k - 1 \in Nat /\ (k - 1) + 1 = k
    OBVIOUS
  <2>2. k - 1 \in T
    <3> HIDE DEF T
    <3> QED BY <1>3, <2>1
  <2>3. g[(k - 1) + 1] = f[(k - 1) + 1]
    BY <2>1, <2>2
  <2> QED BY <2>1, <2>3
<1> QED BY <1>4 DEF Offsets

\* So Offset does.
LEMMA OffsetOf ==
  ASSUME NEW data \in Seq(Field)
  PROVE  Offsets(Offset(data), data)
<1> DEFINE Step(s) == [k \in 1 .. Len(data) + 1 |-> IF k = 1 THEN 0 ELSE s[k - 1] + data[k - 1].width]
           at == CHOOSE s : s = Step(s)
<1>1. PICK f : Offsets(f, data)
  BY OffsetsExist
<1>2. Len(data) \in Nat
  OBVIOUS
<1>3. f = Step(f)
  <2>1. f \in [1 .. Len(data) + 1 -> Nat] /\ f[1] = 0
    BY <1>1 DEF Offsets
  <2>2. ASSUME NEW k \in 1 .. Len(data) + 1, k # 1 PROVE f[k] = f[k - 1] + data[k - 1].width
    <3>1. k - 1 \in 1 .. Len(data) /\ (k - 1) + 1 = k
      BY <1>2, <2>2
    <3>2. f[(k - 1) + 1] = f[k - 1] + data[k - 1].width
      BY <1>1, <3>1 DEF Offsets
    <3> QED BY <3>1, <3>2
  <2> QED BY <2>1, <2>2
<1>4. at = Step(at)
  <2> HIDE DEF Step
  <2> QED BY <1>3
<1>5. Offset(data) = at
  BY DEF Offset
<1> HIDE DEF at
<1>6. at[1] = 0 /\ \A k \in 1 .. Len(data) : at[k + 1] = at[k] + data[k].width
  <2>1. \A k \in 1 .. Len(data) + 1 : at[k] = IF k = 1 THEN 0 ELSE at[k - 1] + data[k - 1].width
    BY <1>4
  <2>2. ASSUME NEW k \in 1 .. Len(data) PROVE at[k + 1] = at[k] + data[k].width
    <3>1. k + 1 \in 1 .. Len(data) + 1 /\ k + 1 # 1 /\ (k + 1) - 1 = k
      BY <1>2
    <3>2. at[k + 1] = at[(k + 1) - 1] + data[(k + 1) - 1].width
      BY <2>1, <3>1
    <3> QED BY <3>1, <3>2
  <2> QED BY <1>2, <2>1, <2>2
<1>7. DOMAIN at = 1 .. Len(data) + 1
  BY <1>4
<1>8. at = [k \in 1 .. Len(data) + 1 |-> at[k]]
  BY <1>4
<1> HIDE DEF Step
<1>9. at = f
  BY <1>1, <1>6, <1>8, OffsetsUnique
<1> QED BY <1>1, <1>5, <1>9

\* Later fields begin later.
LEMMA OffsetsGrow ==
  ASSUME NEW data \in Seq(Field), NEW at, Offsets(at, data),
         NEW j \in 1 .. Len(data) + 1, NEW k \in 1 .. Len(data) + 1, j <= k
  PROVE  at[j] <= at[k]
<1> DEFINE T == {n \in Nat : j + n <= Len(data) + 1 => at[j] <= at[j + n]}
<1>0. Len(data) \in Nat /\ j \in Nat /\ k \in Nat /\ at \in [1 .. Len(data) + 1 -> Nat]
  BY DEF Offsets
<1>1. 0 \in T
  BY <1>0
<1>2. ASSUME NEW n \in Nat, n \in T PROVE n + 1 \in T
  <2> SUFFICES ASSUME j + (n + 1) <= Len(data) + 1 PROVE at[j] <= at[j + (n + 1)]
    OBVIOUS
  <2>1. j + n \in 1 .. Len(data) /\ j + n \in 1 .. Len(data) + 1 /\ (j + n) + 1 = j + (n + 1)
        /\ (j + n) + 1 \in 1 .. Len(data) + 1 /\ j + n <= Len(data) + 1
    BY <1>0
  <2>2. at[(j + n) + 1] = at[j + n] + data[j + n].width /\ data[j + n] \in Field
    BY <2>1 DEF Offsets
  <2>3. at[j] <= at[j + n]
    BY <1>2, <2>1
  <2>4. at[j] \in Nat /\ at[j + n] \in Nat /\ at[(j + n) + 1] \in Nat /\ data[j + n].width \in Nat
    BY <1>0, <2>1, <2>2 DEF Field
  <2>5. at[j] <= at[(j + n) + 1]
    <3>1. \A x, y, z, w \in Nat : z = y + w /\ x <= y => x <= z
      OBVIOUS
    <3> QED BY <2>2, <2>3, <2>4, <3>1
  <2> QED BY <2>1, <2>5
<1>3. k - j \in Nat /\ j + (k - j) = k /\ j + (k - j) <= Len(data) + 1
  BY <1>0
<1>4. k - j \in T
  <2> HIDE DEF T
  <2> QED BY <1>1, <1>2, <1>3, SetInduction
<1> QED BY <1>3, <1>4

-----------------------------------------------------------------------------
(* What the reader finds *)

\* No two fields without bytes follow each other.
Dense(data) == \A k \in 1 .. Len(data) - 1 : data[k].width > 0 \/ data[k + 1].width > 0

\* Then a field is found by where it begins and its width.
LEMMA OneField ==
  ASSUME NEW data \in Seq(Field), Dense(data), NEW at, Offsets(at, data),
         NEW j \in 1 .. Len(data), NEW k \in 1 .. Len(data), j < k, at[j] = at[k],
         data[j].width = data[k].width
  PROVE  FALSE
<1>0. /\ Len(data) \in Nat /\ j \in Nat /\ k \in Nat /\ at \in [1 .. Len(data) + 1 -> Nat]
      /\ \A i \in 1 .. Len(data) : data[i].width \in Nat
      /\ \A i \in 1 .. Len(data) : at[i + 1] = at[i] + data[i].width
  <2>1. \A i \in 1 .. Len(data) : data[i] \in Field
    OBVIOUS
  <2>2. \A i \in 1 .. Len(data) : data[i].width \in Nat
    BY <2>1 DEF Field
  <2>3. \A i \in 1 .. Len(data) : at[i + 1] = at[i] + data[i].width
    BY DEF Offsets
  <2>4. at \in [1 .. Len(data) + 1 -> Nat]
    BY DEF Offsets
  <2>5. Len(data) \in Nat /\ j \in Nat /\ k \in Nat
    OBVIOUS
  <2> QED BY <2>2, <2>3, <2>4, <2>5, Zenon
<1>1. j + 1 \in 1 .. Len(data) /\ j \in 1 .. Len(data) - 1 /\ j + 1 \in 1 .. Len(data) + 1
      /\ k \in 1 .. Len(data) + 1 /\ j \in 1 .. Len(data) + 1 /\ j + 1 <= k
  BY <1>0
<1>2. at[j + 1] <= at[k]
  BY <1>1, OffsetsGrow
<1>3. at[j + 1] = at[j] + data[j].width /\ at[j] \in Nat /\ at[k] \in Nat /\ data[j].width \in Nat
      /\ data[j + 1].width \in Nat
  BY <1>0, <1>1
<1>4. data[j].width = 0
  BY <1>2, <1>3
<1>5. data[j + 1].width > 0
  BY <1>1, <1>3, <1>4 DEF Dense
<1>6. j + 1 # k
  <2>1. data[k].width = 0
    BY <1>4
  <2>2. ~(0 > 0)
    OBVIOUS
  <2> QED BY <1>5, <2>1, <2>2
<1>7. j + 2 \in 1 .. Len(data) + 1 /\ j + 2 <= k /\ (j + 1) + 1 = j + 2
  BY <1>0, <1>1, <1>6
<1>8. at[j + 2] <= at[k]
  BY <1>1, <1>7, OffsetsGrow
<1>9. at[(j + 1) + 1] = at[j + 1] + data[j + 1].width /\ at[j + 2] \in Nat /\ at[j + 1] \in Nat
  BY <1>0, <1>1, <1>7
<1> QED BY <1>3, <1>4, <1>5, <1>7, <1>8, <1>9

\* Get finds the field that begins where it looks.
LEMMA GetFinds ==
  ASSUME NEW data \in Seq(Field), Dense(data), NEW k \in 1 .. Len(data),
         NEW place, place = Offset(data)[k], NEW w, w = data[k].width
  PROVE  Get(data, place, w) = data[k].value
<1> DEFINE fields == {j \in 1 .. Len(data) : Offset(data)[j] = place /\ data[j].width = w}
<1>1. Offsets(Offset(data), data)
  BY OffsetOf
<1>2. k \in fields
  OBVIOUS
<1>3. ASSUME NEW j \in fields PROVE j = k
  <2>1. j \in 1 .. Len(data) /\ Offset(data)[j] = Offset(data)[k] /\ data[j].width = data[k].width
    OBVIOUS
  <2>2. ~(j < k)
    BY <1>1, <2>1, OneField
  <2>3. ~(k < j)
    BY <1>1, <2>1, OneField
  <2> QED BY <2>1, <2>2, <2>3
<1>4. fields = {k}
  BY <1>2, <1>3
<1>5. Get(data, place, w) = IF fields = {} THEN Garbage ELSE data[CHOOSE j \in fields : TRUE].value
  BY DEF Get
<1> HIDE DEF fields
<1>6. (CHOOSE j \in fields : TRUE) = k
  BY <1>4
<1> QED BY <1>4, <1>5, <1>6

\* Sizes add up.
LEMMA SizeConcat ==
  ASSUME NEW a \in Seq(Field), NEW b \in Seq(Field)
  PROVE  Size(a \o b) = Size(a) + Size(b)
<1> DEFINE c == a \o b
           m == Len(a)
           n == Len(b)
<1>1. /\ m \in Nat /\ n \in Nat /\ c \in Seq(Field) /\ Len(c) = m + n
      /\ \A k \in 1 .. m + n : c[k] = IF k <= m THEN a[k] ELSE b[k - m]
  OBVIOUS
<1>2. Offsets(Offset(a), a) /\ Offsets(Offset(b), b) /\ Offsets(Offset(c), c)
  BY <1>1, OffsetOf
<1> HIDE DEF c, m, n
<1> DEFINE f == Offset(a)
           e == Offset(b)
<1>3. /\ f \in [1 .. m + 1 -> Nat] /\ f[1] = 0 /\ \A k \in 1 .. m : f[k + 1] = f[k] + a[k].width
      /\ e \in [1 .. n + 1 -> Nat] /\ e[1] = 0 /\ \A k \in 1 .. n : e[k + 1] = e[k] + b[k].width
  BY <1>2 DEF Offsets, m, n
<1> HIDE DEF f, e
<1> DEFINE g == [k \in 1 .. m + n + 1 |-> IF k <= m + 1 THEN f[k] ELSE f[m + 1] + e[k - m]]
<1>4. g[1] = 0 /\ g[m + n + 1] = f[m + 1] + e[n + 1]
  <2>1. g[1] = 0
    BY <1>1, <1>3
  <2>2. CASE n = 0
    BY <1>1, <1>3, <2>2
  <2>3. CASE n # 0
    <3>1. m + n + 1 \in 1 .. m + n + 1 /\ ~(m + n + 1 <= m + 1) /\ (m + n + 1) - m = n + 1
      BY <1>1, <2>3
    <3> QED BY <2>1, <3>1
  <2> QED BY <2>1, <2>2, <2>3
<1>5. ASSUME NEW k \in 1 .. m + n PROVE g[k + 1] = g[k] + c[k].width
  <2>1. k \in Nat /\ k \in 1 .. m + n + 1 /\ k + 1 \in 1 .. m + n + 1
    BY <1>1
  <2>2. CASE k <= m
    <3>1. k \in 1 .. m /\ k <= m + 1 /\ k + 1 <= m + 1
      BY <1>1, <2>1, <2>2
    <3>2. g[k + 1] = f[k + 1] /\ g[k] = f[k] /\ c[k] = a[k]
      BY <1>1, <2>1, <2>2, <3>1
    <3> QED BY <1>3, <3>1, <3>2
  <2>3. CASE k = m + 1
    <3>1. ~(k + 1 <= m + 1) /\ (k + 1) - m = 2 /\ k - m = 1 /\ ~(k <= m) /\ 1 \in 1 .. n /\ k <= m + 1
      BY <1>1, <2>1, <2>3
    <3>2. g[k + 1] = f[m + 1] + e[2] /\ g[k] = f[m + 1] /\ c[k] = b[1]
      BY <1>1, <2>1, <2>3, <3>1
    <3>3. e[1 + 1] = e[1] + b[1].width /\ 1 + 1 = 2 /\ e[1] = 0
      BY <1>3, <3>1
    <3>4. b[1].width \in Nat
      <4>1. b[1] \in Field
        BY <3>1 DEF n
      <4> QED BY <4>1 DEF Field
    <3>5. e[2] = b[1].width
      BY <3>3, <3>4
    <3> QED BY <3>2, <3>5
  <2>4. CASE k > m + 1
    <3>1. ~(k + 1 <= m + 1) /\ ~(k <= m + 1) /\ ~(k <= m) /\ (k + 1) - m = (k - m) + 1
          /\ k - m \in 1 .. n /\ k - m \in 1 .. n + 1 /\ (k - m) + 1 \in 1 .. n + 1 /\ m + 1 \in 1 .. m + 1
      BY <1>1, <2>1, <2>4
    <3>2. g[k + 1] = f[m + 1] + e[(k - m) + 1] /\ g[k] = f[m + 1] + e[k - m] /\ c[k] = b[k - m]
      BY <1>1, <2>1, <3>1
    <3>3. e[(k - m) + 1] = e[k - m] + b[k - m].width
      BY <1>3, <3>1
    <3>4. b[k - m].width \in Nat /\ e[k - m] \in Nat /\ f[m + 1] \in Nat
      <4>1. b[k - m] \in Field
        BY <3>1 DEF n
      <4> QED BY <1>3, <3>1, <4>1 DEF Field
    <3> HIDE DEF g
    <3> QED BY <3>2, <3>3, <3>4
  <2> QED BY <1>1, <2>1, <2>2, <2>3, <2>4
<1>6. g = Offset(c)
  <2>1. g = [k \in 1 .. Len(c) + 1 |-> g[k]]
    BY <1>1
  <2>2. \A k \in 1 .. Len(c) : g[k + 1] = g[k] + c[k].width
    BY <1>1, <1>5
  <2> HIDE DEF g
  <2> QED BY <1>1, <1>2, <1>4, <2>1, <2>2, OffsetsUnique
<1>7. Size(c) = g[m + n + 1]
  BY <1>1, <1>6 DEF Size
<1>8. Size(a) = f[m + 1] /\ Size(b) = e[n + 1]
  BY DEF Size, f, e, m, n
<1> QED BY <1>4, <1>7, <1>8 DEF c

-----------------------------------------------------------------------------
(* Encoded events *)

\* What a session can write: events, and strings it adds.
Items == AllEvents \cup [type : {"string"}, id : Handles, size : Nat]

\* What a session adds is one of them.
LEMMA StringItem ==
  ASSUME NEW h \in Handles
  PROVE  StringEvent(h) \in Items /\ StringEvent(h).type = "string" /\ StringEvent(h).id = h
<1>1. StrLen[h] \in Nat
  BY StreamAssumption
<1>2. StrLen[h] % 65536 \in Nat
  BY <1>1
<1> QED BY <1>2 DEF StringEvent, Items

\* A value and a width make a field.
LEMMA FieldOf ==
  ASSUME NEW v \in Int, NEW w \in Nat
  PROVE  F(v, w) \in Field /\ F(v, w).value = v /\ F(v, w).width = w
BY DEF F, Field

\* Two fields in a row, the first of one byte.
LEMMA TwoFields ==
  ASSUME NEW a \in Field, NEW b \in Field, a.width = 1
  PROVE  <<a, b>> \in Seq(Field) /\ Len(<<a, b>>) = 2 /\ <<a, b>>[1].width = 1 /\ Dense(<<a, b>>)
BY DEF Dense

\* Three fields in a row.
LEMMA ThreeFields ==
  ASSUME NEW a \in Field, NEW b \in Field, NEW c \in Field,
         a.width = 1, b.width > 0
  PROVE  <<a, b, c>> \in Seq(Field) /\ Len(<<a, b, c>>) = 3 /\ <<a, b, c>>[1].width = 1 /\ Dense(<<a, b, c>>)
<1>1. <<a, b, c>> \in Seq(Field) /\ Len(<<a, b, c>>) = 3 /\ <<a, b, c>>[1] = a /\ <<a, b, c>>[2] = b
  OBVIOUS
<1>2. \A k \in 1 .. 2 : k = 1 \/ k = 2
  OBVIOUS
<1> QED BY <1>1, <1>2 DEF Dense

\* Four fields in a row.
LEMMA FourFields ==
  ASSUME NEW a \in Field, NEW b \in Field, NEW c \in Field, NEW e \in Field, a.width = 1, b.width > 0, c.width > 0
  PROVE  <<a, b, c, e>> \in Seq(Field) /\ Len(<<a, b, c, e>>) = 4 /\ <<a, b, c, e>>[1].width = 1 /\ Dense(<<a, b, c, e>>)
<1>1. <<a, b, c, e>> \in Seq(Field) /\ Len(<<a, b, c, e>>) = 4 /\ <<a, b, c, e>>[1] = a /\ <<a, b, c, e>>[2] = b /\ <<a, b, c, e>>[3] = c
  OBVIOUS
<1>2. \A k \in 1 .. 3 : k = 1 \/ k = 2 \/ k = 3
  OBVIOUS
<1> QED BY <1>1, <1>2 DEF Dense

\* Six fields in a row.
LEMMA SixFields ==
  ASSUME NEW d \in Seq(Field), Len(d) = 6, d[1].width = 1, d[2].width > 0, d[3].width > 0,
         d[4].width > 0, d[5].width > 0
  PROVE  Dense(d)
<1>1. \A k \in 1 .. 5 : k = 1 \/ k = 2 \/ k = 3 \/ k = 4 \/ k = 5
  OBVIOUS
<1>2. d[1].width > 0
  OBVIOUS
<1> QED BY <1>1, <1>2 DEF Dense

\* What EncodeEvent writes: fields of the sizes that EncodeSize counts, the first
\* of which has a byte; only the last one may have none.
LEMMA EncodeFields ==
  ASSUME NEW ev \in Items
  PROVE  /\ Encode(ev) \in Seq(Field) /\ Len(Encode(ev)) \in 2 .. 6
         /\ Encode(ev)[1].width = 1
         /\ Dense(Encode(ev))
<1>1. Handles \subseteq Int
  BY StreamAssumption
<1>2. CASE ev \in [type : {"header"}, frequency : Int, start : Int]
  <2> DEFINE a == F(1, 1)
             b == F(ev.frequency, 8)
             c == F(ev.start, 8)
  <2>1. Encode(ev) = <<a, b, c>>
    BY <1>2 DEF Encode
  <2>2. ev.frequency \in Int /\ ev.start \in Int
    BY <1>1, <1>2
  <2>3. /\ a \in Field /\ a.width = 1
        /\ b \in Field /\ b.width = 8
        /\ c \in Field /\ c.width = 8
    BY <2>2, FieldOf
  <2> HIDE DEF a, b, c
  <2>4. <<a, b, c>> \in Seq(Field) /\ Len(<<a, b, c>>) = 3 /\ <<a, b, c>>[1].width = 1 /\ Dense(<<a, b, c>>)
    BY <2>3, ThreeFields
  <2> QED BY <2>1, <2>4
<1>3. CASE ev \in [type : {"tick"}, when : Int]
  <2> DEFINE a == F(2, 1)
             b == F(ev.when, 8)
  <2>1. Encode(ev) = <<a, b>>
    BY <1>3 DEF Encode
  <2>2. ev.when \in Int
    BY <1>1, <1>3
  <2>3. /\ a \in Field /\ a.width = 1
        /\ b \in Field /\ b.width = 8
    BY <2>2, FieldOf
  <2> HIDE DEF a, b
  <2>4. <<a, b>> \in Seq(Field) /\ Len(<<a, b>>) = 2 /\ <<a, b>>[1].width = 1 /\ Dense(<<a, b>>)
    BY <2>3, TwoFields
  <2> QED BY <2>1, <2>4
<1>4. CASE ev \in [type : {"region"}, line : Int, name : Handles, file : Handles, start : Int, end : Int]
  <2> DEFINE a == F(3, 1)
             b == F(ev.line, 4)
             c == F(ev.name, 4)
             e == F(ev.file, 4)
             f == F(ev.start, 8)
             g == F(ev.end, 8)
  <2>1. Encode(ev) = <<a, b, c, e, f, g>>
    BY <1>4 DEF Encode
  <2>2. ev.line \in Int /\ ev.name \in Int /\ ev.file \in Int /\ ev.start \in Int /\ ev.end \in Int
    BY <1>1, <1>4
  <2>3. /\ a \in Field /\ a.width = 1
        /\ b \in Field /\ b.width = 4
        /\ c \in Field /\ c.width = 4
        /\ e \in Field /\ e.width = 4
        /\ f \in Field /\ f.width = 8
        /\ g \in Field /\ g.width = 8
    BY <2>2, FieldOf
  <2> HIDE DEF a, b, c, e, f, g
  <2>4. PICK d : d = <<a, b, c, e, f, g>>
    OBVIOUS
  <2>5. d \in Seq(Field) /\ Len(d) = 6
    BY <2>3, <2>4
  <2>6. d[1] = a /\ d[2] = b /\ d[3] = c /\ d[4] = e /\ d[5] = f
    BY <2>4
  <2>7. d[1].width = 1 /\ d[2].width > 0 /\ d[3].width > 0 /\ d[4].width > 0 /\ d[5].width > 0
    BY <2>3, <2>6
  <2>8. Dense(d)
    BY <2>5, <2>7, SixFields
  <2> QED BY <2>1, <2>4, <2>5, <2>7, <2>8
<1>5. CASE ev \in [type : {"counter_set"}, line : Int, name : Handles, file : Handles, when : Int, value : Int]
  <2> DEFINE a == F(4, 1)
             b == F(ev.line, 4)
             c == F(ev.name, 4)
             e == F(ev.file, 4)
             f == F(ev.when, 8)
             g == F(ev.value, 8)
  <2>1. Encode(ev) = <<a, b, c, e, f, g>>
    BY <1>5 DEF Encode
  <2>2. ev.line \in Int /\ ev.name \in Int /\ ev.file \in Int /\ ev.when \in Int /\ ev.value \in Int
    BY <1>1, <1>5
  <2>3. /\ a \in Field /\ a.width = 1
        /\ b \in Field /\ b.width = 4
        /\ c \in Field /\ c.width = 4
        /\ e \in Field /\ e.width = 4
        /\ f \in Field /\ f.width = 8
        /\ g \in Field /\ g.width = 8
    BY <2>2, FieldOf
  <2> HIDE DEF a, b, c, e, f, g
  <2>4. PICK d : d = <<a, b, c, e, f, g>>
    OBVIOUS
  <2>5. d \in Seq(Field) /\ Len(d) = 6
    BY <2>3, <2>4
  <2>6. d[1] = a /\ d[2] = b /\ d[3] = c /\ d[4] = e /\ d[5] = f
    BY <2>4
  <2>7. d[1].width = 1 /\ d[2].width > 0 /\ d[3].width > 0 /\ d[4].width > 0 /\ d[5].width > 0
    BY <2>3, <2>6
  <2>8. Dense(d)
    BY <2>5, <2>7, SixFields
  <2> QED BY <2>1, <2>4, <2>5, <2>7, <2>8
<1>6. CASE ev \in [type : {"string"}, id : Handles, size : Nat]
  <2> DEFINE a == F(5, 1)
             b == F(ev.id, 4)
             c == F(ev.size, 2)
             e == F(ev.id, ev.size)
  <2>1. Encode(ev) = <<a, b, c, e>>
    BY <1>6 DEF Encode
  <2>2. ev.id \in Int /\ ev.size \in Int /\ ev.size \in Nat
    <3>1. ev.id \in Handles /\ ev.size \in Nat
      BY <1>6
    <3>2. ev.id \in Int
      BY <1>1, <3>1
    <3> QED BY <3>1, <3>2
  <2>3. /\ a \in Field /\ a.width = 1
        /\ b \in Field /\ b.width = 4
        /\ c \in Field /\ c.width = 2
        /\ e \in Field /\ e.width = ev.size
    BY <2>2, FieldOf
  <2> HIDE DEF a, b, c, e
  <2>4. <<a, b, c, e>> \in Seq(Field) /\ Len(<<a, b, c, e>>) = 4 /\ <<a, b, c, e>>[1].width = 1 /\ Dense(<<a, b, c, e>>)
    BY <2>3, FourFields
  <2> QED BY <2>1, <2>4
<1>7. CASE ev \in [type : {"counter_add"}, name : Handles, amount : Int]
  <2> DEFINE a == F(6, 1)
             b == F(ev.name, 4)
             c == F(ev.amount, 8)
  <2>1. Encode(ev) = <<a, b, c>>
    BY <1>7 DEF Encode
  <2>2. ev.name \in Int /\ ev.amount \in Int
    BY <1>1, <1>7
  <2>3. /\ a \in Field /\ a.width = 1
        /\ b \in Field /\ b.width = 4
        /\ c \in Field /\ c.width = 8
    BY <2>2, FieldOf
  <2> HIDE DEF a, b, c
  <2>4. <<a, b, c>> \in Seq(Field) /\ Len(<<a, b, c>>) = 3 /\ <<a, b, c>>[1].width = 1 /\ Dense(<<a, b, c>>)
    BY <2>3, ThreeFields
  <2> QED BY <2>1, <2>4
<1> QED BY <1>2, <1>3, <1>4, <1>5, <1>6, <1>7 DEF Items, AllEvents

\* Where the fields of an encoded event are in the data around it.
LEMMA FieldAt ==
  ASSUME NEW data \in Seq(Field), Dense(data), NEW e \in Seq(Field), NEW p \in Nat,
         p + Len(e) <= Len(data), \A k \in 1 .. Len(e) : data[p + k] = e[k]
  PROVE  \A k \in 1 .. Len(e) :
           /\ Get(data, Offset(data)[p + k], e[k].width) = e[k].value
           /\ Offset(data)[p + k] \in Nat
           /\ Offset(data)[p + k + 1] = Offset(data)[p + k] + e[k].width
<1> SUFFICES ASSUME NEW k \in 1 .. Len(e)
             PROVE  /\ Get(data, Offset(data)[p + k], e[k].width) = e[k].value
                    /\ Offset(data)[p + k] \in Nat
                    /\ Offset(data)[p + k + 1] = Offset(data)[p + k] + e[k].width
  OBVIOUS
<1>1. p + k \in 1 .. Len(data) /\ p + k \in 1 .. Len(data) + 1 /\ data[p + k] = e[k]
  <2>1. Len(e) \in Nat /\ Len(data) \in Nat
    OBVIOUS
  <2> QED BY <2>1
<1>2. Offsets(Offset(data), data)
  BY OffsetOf
<1>3. Get(data, Offset(data)[p + k], e[k].width) = e[k].value
  BY <1>1, GetFinds
<1>4. Offset(data)[p + k] \in Nat /\ Offset(data)[p + k + 1] = Offset(data)[p + k] + e[k].width
  BY <1>1, <1>2 DEF Offsets
<1> QED BY <1>3, <1>4

\* What the viewer makes of an event.
Seen(ev) == IF ev.type = "string"
            THEN [type |-> "string", id |-> ev.id, size |-> ev.size, string |-> ev.id]
            ELSE ev

\* How a header is read.
LEMMA ReadHeader ==
  ASSUME NEW data, NEW a, Get(data, a, 1) = 1
  PROVE  ReadEvent(data, a) =
           [next |-> a + 17,
            event |-> [type |-> "header", frequency |-> Get(data, a + 1, 8), start |-> Get(data, a + 9, 8)]]
BY DEF ReadEvent

\* How a tick is read.
LEMMA ReadTick ==
  ASSUME NEW data, NEW a, Get(data, a, 1) = 2
  PROVE  ReadEvent(data, a) =
           [next |-> a + 9,
            event |-> [type |-> "tick", when |-> Get(data, a + 1, 8)]]
BY DEF ReadEvent

\* How a region is read.
LEMMA ReadRegion ==
  ASSUME NEW data, NEW a, Get(data, a, 1) = 3
  PROVE  ReadEvent(data, a) =
           [next |-> a + 29,
            event |-> [type |-> "region", line |-> Get(data, a + 1, 4), name |-> Get(data, a + 5, 4), file |-> Get(data, a + 9, 4), start |-> Get(data, a + 13, 8), end |-> Get(data, a + 21, 8)]]
BY DEF ReadEvent

\* How a counter set is read.
LEMMA ReadCounterSet ==
  ASSUME NEW data, NEW a, Get(data, a, 1) = 4
  PROVE  ReadEvent(data, a) =
           [next |-> a + 29,
            event |-> [type |-> "counter_set", line |-> Get(data, a + 1, 4), name |-> Get(data, a + 5, 4), file |-> Get(data, a + 9, 4), when |-> Get(data, a + 13, 8), value |-> Get(data, a + 21, 8)]]
BY DEF ReadEvent

\* How a string is read.
LEMMA ReadString ==
  ASSUME NEW data, NEW a, Get(data, a, 1) = 5,
         NEW n, Get(data, a + 5, 2) = n, n # Garbage
  PROVE  ReadEvent(data, a) =
           [next |-> a + 7 + n,
            event |-> [type |-> "string", id |-> Get(data, a + 1, 4), size |-> n, string |-> Get(data, a + 7, n)]]
BY DEF ReadEvent

\* How a counter add is read.
LEMMA ReadCounterAdd ==
  ASSUME NEW data, NEW a, Get(data, a, 1) = 6
  PROVE  ReadEvent(data, a) =
           [next |-> a + 13,
            event |-> [type |-> "counter_add", name |-> Get(data, a + 1, 4), amount |-> Get(data, a + 5, 8)]]
BY DEF ReadEvent

\* The reader reads an event where one begins, and finds the end of it; it is as
\* far away as EncodeSize says.
LEMMA ReadItem ==
  ASSUME NEW data \in Seq(Field), Dense(data), NEW ev \in Items, NEW p \in Nat,
         p + Len(Encode(ev)) <= Len(data),
         \A k \in 1 .. Len(Encode(ev)) : data[p + k] = Encode(ev)[k]
  PROVE  /\ ReadEvent(data, Offset(data)[p + 1]).next = Offset(data)[p + Len(Encode(ev)) + 1]
         /\ ReadEvent(data, Offset(data)[p + 1]).event = Seen(ev)
         /\ Offset(data)[p + Len(Encode(ev)) + 1] = Offset(data)[p + 1] + EncodeSize(ev)
<1> DEFINE at(k) == Offset(data)[p + k]
<1>1. \A k \in 1 .. Len(Encode(ev)) :
        /\ Get(data, at(k), Encode(ev)[k].width) = Encode(ev)[k].value
        /\ at(k) \in Nat
        /\ at(k + 1) = at(k) + Encode(ev)[k].width
  <2>1. \A k \in 1 .. Len(Encode(ev)) :
          /\ Get(data, Offset(data)[p + k], Encode(ev)[k].width) = Encode(ev)[k].value
          /\ Offset(data)[p + k] \in Nat
          /\ Offset(data)[p + k + 1] = Offset(data)[p + k] + Encode(ev)[k].width
    BY EncodeFields, FieldAt
  <2>2. \A k \in 1 .. Len(Encode(ev)) : p + k + 1 = p + (k + 1)
    BY EncodeFields
  <2> QED BY <2>1, <2>2
<1>2. p + Len(Encode(ev)) + 1 = p + (Len(Encode(ev)) + 1)
  BY EncodeFields
<1> HIDE DEF at
<1>3. SUFFICES /\ ReadEvent(data, at(1)).next = at(Len(Encode(ev)) + 1)
               /\ ReadEvent(data, at(1)).event = Seen(ev)
               /\ at(Len(Encode(ev)) + 1) = at(1) + EncodeSize(ev)
  BY <1>2 DEF at
<1>4. Handles \subseteq Int /\ Garbage \notin Int
  BY StreamAssumption
<1>5. CASE ev \in [type : {"header"}, frequency : Int, start : Int]
  <2>1. Encode(ev) = <<F(1, 1), F(ev.frequency, 8), F(ev.start, 8)>>
    BY <1>5 DEF Encode
  <2>2. Len(Encode(ev)) = 3 /\ at(Len(Encode(ev)) + 1) = at(4)
    BY <2>1
  <2>3. PICK a \in Nat : at(1) = a
    BY <1>1, <2>2
  <2>4. Get(data, a, 1) = 1 /\ at(2) = a + 1
    <3>1. Encode(ev)[1].value = 1 /\ Encode(ev)[1].width = 1
      BY <2>1 DEF F
    <3>2. Get(data, at(1), 1) = 1 /\ at(2) = at(1) + 1
      BY <1>1, <2>2, <3>1
    <3> QED BY <2>3, <3>2
  <2>5. Get(data, a + 1, 8) = ev.frequency /\ at(3) = a + 9
    <3>1. Encode(ev)[2].value = ev.frequency /\ Encode(ev)[2].width = 8
      BY <2>1 DEF F
    <3>2. Get(data, at(2), 8) = ev.frequency /\ at(3) = at(2) + 8
      BY <1>1, <2>2, <3>1
    <3> QED BY <2>4, <3>2
  <2>6. Get(data, a + 9, 8) = ev.start /\ at(4) = a + 17
    <3>1. Encode(ev)[3].value = ev.start /\ Encode(ev)[3].width = 8
      BY <2>1 DEF F
    <3>2. Get(data, at(3), 8) = ev.start /\ at(4) = at(3) + 8
      BY <1>1, <2>2, <3>1
    <3> QED BY <2>5, <3>2
  <2>7. EncodeSize(ev) = 17
    BY <1>5 DEF EncodeSize
  <2>8. ReadEvent(data, a) = [next |-> a + 17, event |-> [type |-> "header", frequency |-> ev.frequency, start |-> ev.start]]
    BY <2>4, <2>5, <2>6, ReadHeader
  <2>9. Seen(ev) = [type |-> "header", frequency |-> ev.frequency, start |-> ev.start]
    BY <1>5 DEF Seen
  <2>10. at(Len(Encode(ev)) + 1) = a + 17 /\ at(Len(Encode(ev)) + 1) = a + EncodeSize(ev)
    BY <2>2, <2>6, <2>7
  <2> QED BY <2>3, <2>8, <2>9, <2>10
<1>6. CASE ev \in [type : {"tick"}, when : Int]
  <2>1. Encode(ev) = <<F(2, 1), F(ev.when, 8)>>
    BY <1>6 DEF Encode
  <2>2. Len(Encode(ev)) = 2 /\ at(Len(Encode(ev)) + 1) = at(3)
    BY <2>1
  <2>3. PICK a \in Nat : at(1) = a
    BY <1>1, <2>2
  <2>4. Get(data, a, 1) = 2 /\ at(2) = a + 1
    <3>1. Encode(ev)[1].value = 2 /\ Encode(ev)[1].width = 1
      BY <2>1 DEF F
    <3>2. Get(data, at(1), 1) = 2 /\ at(2) = at(1) + 1
      BY <1>1, <2>2, <3>1
    <3> QED BY <2>3, <3>2
  <2>5. Get(data, a + 1, 8) = ev.when /\ at(3) = a + 9
    <3>1. Encode(ev)[2].value = ev.when /\ Encode(ev)[2].width = 8
      BY <2>1 DEF F
    <3>2. Get(data, at(2), 8) = ev.when /\ at(3) = at(2) + 8
      BY <1>1, <2>2, <3>1
    <3> QED BY <2>4, <3>2
  <2>6. EncodeSize(ev) = 9
    BY <1>6 DEF EncodeSize
  <2>7. ReadEvent(data, a) = [next |-> a + 9, event |-> [type |-> "tick", when |-> ev.when]]
    BY <2>4, <2>5, ReadTick
  <2>8. Seen(ev) = [type |-> "tick", when |-> ev.when]
    BY <1>6 DEF Seen
  <2>9. at(Len(Encode(ev)) + 1) = a + 9 /\ at(Len(Encode(ev)) + 1) = a + EncodeSize(ev)
    BY <2>2, <2>5, <2>6
  <2> QED BY <2>3, <2>7, <2>8, <2>9
<1>7. CASE ev \in [type : {"region"}, line : Int, name : Handles, file : Handles, start : Int, end : Int]
  <2>1. Encode(ev) = <<F(3, 1), F(ev.line, 4), F(ev.name, 4), F(ev.file, 4), F(ev.start, 8), F(ev.end, 8)>>
    BY <1>7 DEF Encode
  <2>2. Len(Encode(ev)) = 6 /\ at(Len(Encode(ev)) + 1) = at(7)
    BY <2>1
  <2>3. PICK a \in Nat : at(1) = a
    BY <1>1, <2>2
  <2>4. Get(data, a, 1) = 3 /\ at(2) = a + 1
    <3>1. Encode(ev)[1].value = 3 /\ Encode(ev)[1].width = 1
      BY <2>1 DEF F
    <3>2. Get(data, at(1), 1) = 3 /\ at(2) = at(1) + 1
      BY <1>1, <2>2, <3>1
    <3> QED BY <2>3, <3>2
  <2>5. Get(data, a + 1, 4) = ev.line /\ at(3) = a + 5
    <3>1. Encode(ev)[2].value = ev.line /\ Encode(ev)[2].width = 4
      BY <2>1 DEF F
    <3>2. Get(data, at(2), 4) = ev.line /\ at(3) = at(2) + 4
      BY <1>1, <2>2, <3>1
    <3> QED BY <2>4, <3>2
  <2>6. Get(data, a + 5, 4) = ev.name /\ at(4) = a + 9
    <3>1. Encode(ev)[3].value = ev.name /\ Encode(ev)[3].width = 4
      BY <2>1 DEF F
    <3>2. Get(data, at(3), 4) = ev.name /\ at(4) = at(3) + 4
      BY <1>1, <2>2, <3>1
    <3> QED BY <2>5, <3>2
  <2>7. Get(data, a + 9, 4) = ev.file /\ at(5) = a + 13
    <3>1. Encode(ev)[4].value = ev.file /\ Encode(ev)[4].width = 4
      BY <2>1 DEF F
    <3>2. Get(data, at(4), 4) = ev.file /\ at(5) = at(4) + 4
      BY <1>1, <2>2, <3>1
    <3> QED BY <2>6, <3>2
  <2>8. Get(data, a + 13, 8) = ev.start /\ at(6) = a + 21
    <3>1. Encode(ev)[5].value = ev.start /\ Encode(ev)[5].width = 8
      BY <2>1 DEF F
    <3>2. Get(data, at(5), 8) = ev.start /\ at(6) = at(5) + 8
      BY <1>1, <2>2, <3>1
    <3> QED BY <2>7, <3>2
  <2>9. Get(data, a + 21, 8) = ev.end /\ at(7) = a + 29
    <3>1. Encode(ev)[6].value = ev.end /\ Encode(ev)[6].width = 8
      BY <2>1 DEF F
    <3>2. Get(data, at(6), 8) = ev.end /\ at(7) = at(6) + 8
      BY <1>1, <2>2, <3>1
    <3> QED BY <2>8, <3>2
  <2>10. EncodeSize(ev) = 29
    BY <1>7 DEF EncodeSize
  <2>11. ReadEvent(data, a) = [next |-> a + 29, event |-> [type |-> "region", line |-> ev.line, name |-> ev.name, file |-> ev.file, start |-> ev.start, end |-> ev.end]]
    BY <2>4, <2>5, <2>6, <2>7, <2>8, <2>9, ReadRegion
  <2>12. Seen(ev) = [type |-> "region", line |-> ev.line, name |-> ev.name, file |-> ev.file, start |-> ev.start, end |-> ev.end]
    BY <1>7 DEF Seen
  <2>13. at(Len(Encode(ev)) + 1) = a + 29 /\ at(Len(Encode(ev)) + 1) = a + EncodeSize(ev)
    BY <2>2, <2>9, <2>10
  <2> QED BY <2>3, <2>11, <2>12, <2>13
<1>8. CASE ev \in [type : {"counter_set"}, line : Int, name : Handles, file : Handles, when : Int, value : Int]
  <2>1. Encode(ev) = <<F(4, 1), F(ev.line, 4), F(ev.name, 4), F(ev.file, 4), F(ev.when, 8), F(ev.value, 8)>>
    BY <1>8 DEF Encode
  <2>2. Len(Encode(ev)) = 6 /\ at(Len(Encode(ev)) + 1) = at(7)
    BY <2>1
  <2>3. PICK a \in Nat : at(1) = a
    BY <1>1, <2>2
  <2>4. Get(data, a, 1) = 4 /\ at(2) = a + 1
    <3>1. Encode(ev)[1].value = 4 /\ Encode(ev)[1].width = 1
      BY <2>1 DEF F
    <3>2. Get(data, at(1), 1) = 4 /\ at(2) = at(1) + 1
      BY <1>1, <2>2, <3>1
    <3> QED BY <2>3, <3>2
  <2>5. Get(data, a + 1, 4) = ev.line /\ at(3) = a + 5
    <3>1. Encode(ev)[2].value = ev.line /\ Encode(ev)[2].width = 4
      BY <2>1 DEF F
    <3>2. Get(data, at(2), 4) = ev.line /\ at(3) = at(2) + 4
      BY <1>1, <2>2, <3>1
    <3> QED BY <2>4, <3>2
  <2>6. Get(data, a + 5, 4) = ev.name /\ at(4) = a + 9
    <3>1. Encode(ev)[3].value = ev.name /\ Encode(ev)[3].width = 4
      BY <2>1 DEF F
    <3>2. Get(data, at(3), 4) = ev.name /\ at(4) = at(3) + 4
      BY <1>1, <2>2, <3>1
    <3> QED BY <2>5, <3>2
  <2>7. Get(data, a + 9, 4) = ev.file /\ at(5) = a + 13
    <3>1. Encode(ev)[4].value = ev.file /\ Encode(ev)[4].width = 4
      BY <2>1 DEF F
    <3>2. Get(data, at(4), 4) = ev.file /\ at(5) = at(4) + 4
      BY <1>1, <2>2, <3>1
    <3> QED BY <2>6, <3>2
  <2>8. Get(data, a + 13, 8) = ev.when /\ at(6) = a + 21
    <3>1. Encode(ev)[5].value = ev.when /\ Encode(ev)[5].width = 8
      BY <2>1 DEF F
    <3>2. Get(data, at(5), 8) = ev.when /\ at(6) = at(5) + 8
      BY <1>1, <2>2, <3>1
    <3> QED BY <2>7, <3>2
  <2>9. Get(data, a + 21, 8) = ev.value /\ at(7) = a + 29
    <3>1. Encode(ev)[6].value = ev.value /\ Encode(ev)[6].width = 8
      BY <2>1 DEF F
    <3>2. Get(data, at(6), 8) = ev.value /\ at(7) = at(6) + 8
      BY <1>1, <2>2, <3>1
    <3> QED BY <2>8, <3>2
  <2>10. EncodeSize(ev) = 29
    BY <1>8 DEF EncodeSize
  <2>11. ReadEvent(data, a) = [next |-> a + 29, event |-> [type |-> "counter_set", line |-> ev.line, name |-> ev.name, file |-> ev.file, when |-> ev.when, value |-> ev.value]]
    BY <2>4, <2>5, <2>6, <2>7, <2>8, <2>9, ReadCounterSet
  <2>12. Seen(ev) = [type |-> "counter_set", line |-> ev.line, name |-> ev.name, file |-> ev.file, when |-> ev.when, value |-> ev.value]
    BY <1>8 DEF Seen
  <2>13. at(Len(Encode(ev)) + 1) = a + 29 /\ at(Len(Encode(ev)) + 1) = a + EncodeSize(ev)
    BY <2>2, <2>9, <2>10
  <2> QED BY <2>3, <2>11, <2>12, <2>13
<1>9. CASE ev \in [type : {"string"}, id : Handles, size : Nat]
  <2>1. Encode(ev) = <<F(5, 1), F(ev.id, 4), F(ev.size, 2), F(ev.id, ev.size)>>
    BY <1>9 DEF Encode
  <2>2. Len(Encode(ev)) = 4 /\ at(Len(Encode(ev)) + 1) = at(5)
    BY <2>1
  <2>3. ev.size \in Nat /\ ev.size # Garbage /\ ev.type = "string"
    BY <1>4, <1>9
  <2>4. PICK a \in Nat : at(1) = a
    BY <1>1, <2>2
  <2>5. Get(data, a, 1) = 5 /\ at(2) = a + 1
    <3>1. Encode(ev)[1].value = 5 /\ Encode(ev)[1].width = 1
      BY <2>1 DEF F
    <3>2. Get(data, at(1), 1) = 5 /\ at(2) = at(1) + 1
      BY <1>1, <2>2, <3>1
    <3> QED BY <2>4, <3>2
  <2>6. Get(data, a + 1, 4) = ev.id /\ at(3) = a + 5
    <3>1. Encode(ev)[2].value = ev.id /\ Encode(ev)[2].width = 4
      BY <2>1 DEF F
    <3>2. Get(data, at(2), 4) = ev.id /\ at(3) = at(2) + 4
      BY <1>1, <2>2, <3>1
    <3> QED BY <2>5, <3>2
  <2>7. Get(data, a + 5, 2) = ev.size /\ at(4) = a + 7
    <3>1. Encode(ev)[3].value = ev.size /\ Encode(ev)[3].width = 2
      BY <2>1 DEF F
    <3>2. Get(data, at(3), 2) = ev.size /\ at(4) = at(3) + 2
      BY <1>1, <2>2, <3>1
    <3> QED BY <2>6, <3>2
  <2>8. Get(data, a + 7, ev.size) = ev.id /\ at(5) = (a + 7) + ev.size
    <3>1. Encode(ev)[4].value = ev.id /\ Encode(ev)[4].width = ev.size
      BY <2>1 DEF F
    <3>2. Get(data, at(4), ev.size) = ev.id /\ at(5) = at(4) + ev.size
      BY <1>1, <2>2, <3>1
    <3> QED BY <2>7, <3>2
  <2>9. EncodeSize(ev) = 7 + ev.size
    BY <1>9 DEF EncodeSize
  <2>10. ReadEvent(data, a) = [next |-> a + 7 + ev.size, event |-> [type |-> "string", id |-> ev.id, size |-> ev.size, string |-> ev.id]]
    BY <2>3, <2>5, <2>6, <2>7, <2>8, ReadString
  <2>11. Seen(ev) = [type |-> "string", id |-> ev.id, size |-> ev.size, string |-> ev.id]
    BY <2>3 DEF Seen
  <2>12. at(Len(Encode(ev)) + 1) = a + 7 + ev.size /\ at(Len(Encode(ev)) + 1) = a + EncodeSize(ev)
    <3>1. \A x, y \in Nat : x + 7 + y = x + (7 + y)
      OBVIOUS
    <3>2. a + 7 + ev.size = a + (7 + ev.size)
      BY <2>3, <3>1
    <3> QED BY <2>2, <2>8, <2>9, <3>2
  <2> QED BY <2>4, <2>10, <2>11, <2>12
<1>10. CASE ev \in [type : {"counter_add"}, name : Handles, amount : Int]
  <2>1. Encode(ev) = <<F(6, 1), F(ev.name, 4), F(ev.amount, 8)>>
    BY <1>10 DEF Encode
  <2>2. Len(Encode(ev)) = 3 /\ at(Len(Encode(ev)) + 1) = at(4)
    BY <2>1
  <2>3. PICK a \in Nat : at(1) = a
    BY <1>1, <2>2
  <2>4. Get(data, a, 1) = 6 /\ at(2) = a + 1
    <3>1. Encode(ev)[1].value = 6 /\ Encode(ev)[1].width = 1
      BY <2>1 DEF F
    <3>2. Get(data, at(1), 1) = 6 /\ at(2) = at(1) + 1
      BY <1>1, <2>2, <3>1
    <3> QED BY <2>3, <3>2
  <2>5. Get(data, a + 1, 4) = ev.name /\ at(3) = a + 5
    <3>1. Encode(ev)[2].value = ev.name /\ Encode(ev)[2].width = 4
      BY <2>1 DEF F
    <3>2. Get(data, at(2), 4) = ev.name /\ at(3) = at(2) + 4
      BY <1>1, <2>2, <3>1
    <3> QED BY <2>4, <3>2
  <2>6. Get(data, a + 5, 8) = ev.amount /\ at(4) = a + 13
    <3>1. Encode(ev)[3].value = ev.amount /\ Encode(ev)[3].width = 8
      BY <2>1 DEF F
    <3>2. Get(data, at(3), 8) = ev.amount /\ at(4) = at(3) + 8
      BY <1>1, <2>2, <3>1
    <3> QED BY <2>5, <3>2
  <2>7. EncodeSize(ev) = 13
    BY <1>10 DEF EncodeSize
  <2>8. ReadEvent(data, a) = [next |-> a + 13, event |-> [type |-> "counter_add", name |-> ev.name, amount |-> ev.amount]]
    BY <2>4, <2>5, <2>6, ReadCounterAdd
  <2>9. Seen(ev) = [type |-> "counter_add", name |-> ev.name, amount |-> ev.amount]
    BY <1>10 DEF Seen
  <2>10. at(Len(Encode(ev)) + 1) = a + 13 /\ at(Len(Encode(ev)) + 1) = a + EncodeSize(ev)
    BY <2>2, <2>6, <2>7
  <2> QED BY <2>3, <2>8, <2>9, <2>10
<1> QED BY <1>5, <1>6, <1>7, <1>8, <1>9, <1>10 DEF Items, AllEvents

-----------------------------------------------------------------------------
(* What has been written *)

\* A ghost keeps everything the session has encoded: log is the strings and
\* events in order, fields and events count the fields and the events up to an
\* item, and cut says where in it the messages end that are under way, the
\* first one being the message at the viewer.  Nothing that was written changes.
Extends(g, h) ==
  /\ Len(g.log) <= Len(h.log)
  /\ \A i \in 1 .. Len(g.log) : h.log[i] = g.log[i]
  /\ \A i \in 0 .. Len(g.log) : h.fields[i] = g.fields[i] /\ h.events[i] = g.events[i]
  /\ h.cut[0] = g.cut[0]

\* The items of a log are laid out one after the other.
Laid(g) ==
  /\ g.log \in Seq(Items)
  /\ g.fields \in [0 .. Len(g.log) -> Nat] /\ g.fields[0] = 0
  /\ \A i \in 1 .. Len(g.log) : g.fields[i] = g.fields[i - 1] + Len(Encode(g.log[i]))

\* The events of the log are those emitted, in order.
Emitted(g, em) ==
  /\ em \in Seq(AllEvents)
  /\ g.events \in [0 .. Len(g.log) -> Nat] /\ g.events[0] = 0
  /\ \A i \in 1 .. Len(g.log) :
       /\ g.log[i].type = "string" => g.events[i] = g.events[i - 1]
       /\ g.log[i].type # "string" => g.events[i] = g.events[i - 1] + 1
       /\ g.log[i].type # "string" => g.events[i] \in 1 .. Len(em) /\ em[g.events[i]] = g.log[i]
  /\ g.events[Len(g.log)] = Len(em)

\* The strings of the log are what WriteSessionString makes, each once.
StringsOnce(g) ==
  /\ \A i \in 1 .. Len(g.log) :
       g.log[i].type = "string" => g.log[i].id \in Handles /\ g.log[i] = StringEvent(g.log[i].id)
  /\ \A i \in 1 .. Len(g.log), j \in 1 .. Len(g.log) :
       i < j /\ g.log[i].type = "string" /\ g.log[j].type = "string"
         => Bit(g.log[i].id) # Bit(g.log[j].id)

\* An event comes after the strings it names, as far as the table can tell.
NamesBefore(g) ==
  \A i \in 1 .. Len(g.log) : g.log[i].type # "string" =>
    \A n \in Names(g.log[i]) :
      \E k \in 1 .. i - 1 : g.log[k].type = "string" /\ Bit(g.log[k].id) = Bit(n)

Coded(g, em) == Laid(g) /\ Emitted(g, em) /\ StringsOnce(g) /\ NamesBefore(g)

\* data is what the items after a up to b are encoded as.
Piece(data, g, a, b) ==
  /\ a \in 0 .. Len(g.log) /\ b \in 0 .. Len(g.log) /\ a <= b
  /\ data \in Seq(Field) /\ Dense(data)
  /\ Len(data) = g.fields[b] - g.fields[a]
  /\ \A i \in a + 1 .. b :
       /\ g.fields[i - 1] >= g.fields[a] /\ g.fields[i] <= g.fields[b]
       /\ \A k \in 1 .. Len(Encode(g.log[i])) :
            data[(g.fields[i - 1] - g.fields[a]) + k] = Encode(g.log[i])[k]

\* The log with one more item.
Add(g, ev) ==
  LET n == Len(g.log)
  IN  [log |-> Append(g.log, ev),
       fields |-> [i \in 0 .. n + 1 |-> IF i <= n THEN g.fields[i]
                                        ELSE g.fields[n] + Len(Encode(ev))],
       events |-> [i \in 0 .. n + 1 |-> IF i <= n THEN g.events[i]
                                        ELSE IF ev.type = "string" THEN g.events[n]
                                        ELSE g.events[n] + 1],
       cut |-> g.cut]

\* The log with a message that ends here, the one after the first n.
End(g, n) ==
  [log |-> g.log, fields |-> g.fields, events |-> g.events,
   cut |-> [j \in 0 .. n + 1 |-> IF j <= n THEN g.cut[j] ELSE Len(g.log)]]

\* An item after the others changes nothing before it.
LEMMA AddFacts ==
  ASSUME NEW g, Laid(g), NEW ev \in Items
  PROVE  /\ Laid(Add(g, ev)) /\ Extends(g, Add(g, ev))
         /\ Len(Add(g, ev).log) = Len(g.log) + 1 /\ Add(g, ev).log[Len(g.log) + 1] = ev
         /\ Add(g, ev).fields[Len(g.log) + 1] = g.fields[Len(g.log)] + Len(Encode(ev))
         /\ Add(g, ev).cut = g.cut
<1> DEFINE n == Len(g.log)
           log == Append(g.log, ev)
           fields == [i \in 0 .. n + 1 |-> IF i <= n THEN g.fields[i] ELSE g.fields[n] + Len(Encode(ev))]
           h == Add(g, ev)
<1>1. /\ n \in Nat /\ log \in Seq(Items) /\ Len(log) = n + 1 /\ log[n + 1] = ev
      /\ \A i \in 1 .. n : log[i] = g.log[i]
  BY DEF Laid
<1>2. h.log = log /\ h.fields = fields /\ h.cut = g.cut
  BY DEF Add
<1>3. \A i \in 0 .. n : h.events[i] = g.events[i]
  <2>1. \A i \in 0 .. n : i \in 0 .. n + 1 /\ i <= n
    BY <1>1
  <2> QED BY <2>1 DEF Add
<1>4. Len(Encode(ev)) \in Nat
  BY EncodeFields
<1>5. /\ fields \in [0 .. n + 1 -> Nat] /\ fields[n + 1] = g.fields[n] + Len(Encode(ev))
      /\ \A i \in 0 .. n : fields[i] = g.fields[i]
  <2>1. \A i \in 0 .. n : g.fields[i] \in Nat
    BY DEF Laid
  <2>2. n \in 0 .. n /\ n + 1 \in 0 .. n + 1 /\ ~(n + 1 <= n) /\ \A i \in 0 .. n : i \in 0 .. n + 1 /\ i <= n
    BY <1>1
  <2>3. g.fields[n] + Len(Encode(ev)) \in Nat
    BY <1>4, <2>1, <2>2
  <2>4. \A i \in 0 .. n + 1 : i <= n => i \in 0 .. n
    BY <1>1
  <2> HIDE DEF n
  <2> QED BY <2>1, <2>2, <2>3, <2>4
<1> HIDE DEF n, log, fields, h
<1>6. ASSUME NEW i \in 1 .. n + 1 PROVE fields[i] = fields[i - 1] + Len(Encode(log[i]))
  <2>1. CASE i = n + 1
    <3>1. i - 1 = n /\ n \in 0 .. n
      BY <1>1, <2>1
    <3> QED BY <1>1, <1>5, <2>1, <3>1
  <2>2. CASE i # n + 1
    <3>1. i \in 1 .. n /\ i \in 0 .. n /\ i - 1 \in 0 .. n
      BY <1>1, <2>2
    <3>2. g.fields[i] = g.fields[i - 1] + Len(Encode(g.log[i]))
      BY <3>1 DEF Laid, n
    <3> QED BY <1>1, <1>5, <3>1, <3>2
  <2> QED BY <2>1, <2>2
<1>7. fields[0] = 0
  <2>1. 0 \in 0 .. n /\ g.fields[0] = 0
    BY <1>1 DEF Laid
  <2> QED BY <1>5, <2>1
<1>8. Laid(h)
  BY <1>1, <1>2, <1>5, <1>6, <1>7 DEF Laid
<1>9. Extends(g, h)
  <2>1. n <= n + 1
    BY <1>1
  <2> QED BY <1>1, <1>2, <1>3, <1>5, <2>1 DEF Extends, n
<1> QED BY <1>1, <1>2, <1>5, <1>8, <1>9 DEF n, h

\* A piece stays one when the log grows.
LEMMA PieceStays ==
  ASSUME NEW g, NEW h, Laid(g), Extends(g, h), NEW data, NEW a, NEW b, Piece(data, g, a, b), Laid(h)
  PROVE  Piece(data, h, a, b)
<1>1. /\ Len(g.log) \in Nat /\ Len(h.log) \in Nat /\ Len(g.log) <= Len(h.log)
      /\ a \in 0 .. Len(g.log) /\ b \in 0 .. Len(g.log) /\ a <= b
  BY DEF Laid, Extends, Piece
<1>2. a \in 0 .. Len(h.log) /\ b \in 0 .. Len(h.log)
  BY <1>1
<1>3. h.fields[a] = g.fields[a] /\ h.fields[b] = g.fields[b]
  BY <1>1 DEF Extends
<1>4. ASSUME NEW i \in a + 1 .. b
      PROVE  h.fields[i - 1] = g.fields[i - 1] /\ h.fields[i] = g.fields[i] /\ h.log[i] = g.log[i]
  <2>1. i \in 1 .. Len(g.log) /\ i - 1 \in 0 .. Len(g.log) /\ i \in 0 .. Len(g.log)
    BY <1>1
  <2> QED BY <2>1 DEF Extends
<1>5. data \in Seq(Field) /\ Dense(data) /\ Len(data) = h.fields[b] - h.fields[a]
  BY <1>3 DEF Piece
<1>6. ASSUME NEW i \in a + 1 .. b
      PROVE  /\ h.fields[i - 1] >= h.fields[a] /\ h.fields[i] <= h.fields[b]
             /\ \A k \in 1 .. Len(Encode(h.log[i])) :
                  data[(h.fields[i - 1] - h.fields[a]) + k] = Encode(h.log[i])[k]
  BY <1>3, <1>4 DEF Piece
<1> QED BY <1>1, <1>2, <1>5, <1>6 DEF Piece

\* Data without bytes in a row stays so when an event follows it.
LEMMA DenseConcat ==
  ASSUME NEW a \in Seq(Field), NEW b \in Seq(Field), Dense(a), Dense(b), Len(b) > 0, b[1].width = 1
  PROVE  Dense(a \o b)
<1> DEFINE c == a \o b
           m == Len(a)
           n == Len(b)
<1>1. /\ m \in Nat /\ n \in Nat /\ Len(c) = m + n
      /\ \A k \in 1 .. m + n : c[k] = IF k <= m THEN a[k] ELSE b[k - m]
  OBVIOUS
<1> HIDE DEF c
<1>2. ASSUME NEW k \in 1 .. m + n - 1 PROVE c[k].width > 0 \/ c[k + 1].width > 0
  <2>1. k \in 1 .. m + n /\ k + 1 \in 1 .. m + n
    BY <1>1
  <2>2. CASE k < m
    <3>1. k \in 1 .. m - 1 /\ k <= m /\ k + 1 <= m
      BY <1>1, <2>2
    <3>2. c[k] = a[k] /\ c[k + 1] = a[k + 1]
      BY <1>1, <2>1, <3>1
    <3> QED BY <3>1, <3>2 DEF Dense
  <2>3. CASE k = m
    <3>1. ~(k + 1 <= m) /\ (k + 1) - m = 1
      BY <1>1, <2>3
    <3>2. c[k + 1] = b[1]
      BY <1>1, <2>1, <3>1
    <3> QED BY <3>2
  <2>4. CASE k > m
    <3>1. k - m \in 1 .. n - 1 /\ ~(k <= m) /\ ~(k + 1 <= m) /\ (k + 1) - m = (k - m) + 1
      BY <1>1, <2>4
    <3>2. c[k] = b[k - m] /\ c[k + 1] = b[(k - m) + 1]
      BY <1>1, <2>1, <3>1
    <3> QED BY <3>1, <3>2 DEF Dense
  <2> QED BY <1>1, <2>2, <2>3, <2>4
<1> QED BY <1>1, <1>2 DEF Dense, c

\* Nothing is a piece, anywhere.
LEMMA PieceEmpty ==
  ASSUME NEW g, Laid(g), NEW a \in 0 .. Len(g.log)
  PROVE  Piece(<< >>, g, a, a)
<1>1. Len(g.log) \in Nat /\ a \in Int /\ g.fields[a] \in Nat
  BY DEF Laid
<1>2. << >> \in Seq(Field) /\ Len(<< >>) = 0 /\ Dense(<< >>)
  BY DEF Dense
<1>3. a + 1 .. a = {} /\ a <= a /\ g.fields[a] - g.fields[a] = 0
  BY <1>1
<1> QED BY <1>2, <1>3 DEF Piece

\* The last piece grows by what is encoded behind it.
LEMMA PieceGrows ==
  ASSUME NEW g, Laid(g), NEW ev \in Items, NEW data, NEW a, Piece(data, g, a, Len(g.log))
  PROVE  Piece(data \o Encode(ev), Add(g, ev), a, Len(g.log) + 1)
<1> DEFINE n == Len(g.log)
           h == Add(g, ev)
           e == Encode(ev)
           d == data \o e
<1>0. n \in Nat /\ a \in 0 .. n /\ a <= n
  BY DEF Laid, Piece
<1>1. /\ Laid(h) /\ Extends(g, h) /\ Len(h.log) = n + 1 /\ h.log[n + 1] = ev
      /\ h.fields[n + 1] = g.fields[n] + Len(e)
  BY AddFacts
<1>2. Piece(data, h, a, n)
  BY <1>1, PieceStays
<1>3. e \in Seq(Field) /\ Len(e) \in Nat /\ Len(e) > 0 /\ e[1].width = 1 /\ Dense(e)
  BY EncodeFields
<1>4. data \in Seq(Field) /\ Dense(data) /\ Len(data) = h.fields[n] - h.fields[a]
  BY <1>2 DEF Piece
<1>5. h.fields[n] = g.fields[n] /\ h.fields[n] \in Nat /\ h.fields[a] \in Nat
  <2>1. n \in 0 .. n /\ n \in 0 .. n + 1 /\ a \in 0 .. n + 1
    BY <1>0
  <2>2. h.fields[n] = g.fields[n]
    BY <1>1, <2>1 DEF Extends
  <2> QED BY <1>1, <2>1, <2>2 DEF Laid
<1> HIDE DEF n, h, e
<1>6. d \in Seq(Field) /\ Dense(d)
  BY <1>3, <1>4, DenseConcat
<1>7. /\ Len(d) = Len(data) + Len(e)
      /\ \A k \in 1 .. Len(data) : d[k] = data[k]
      /\ \A k \in 1 .. Len(e) : d[Len(data) + k] = e[k]
  BY <1>3, <1>4
<1> HIDE DEF d
<1>8. Len(d) = h.fields[n + 1] - h.fields[a] /\ h.fields[n + 1] \in Nat /\ h.fields[n] <= h.fields[n + 1]
  <2>1. Len(data) \in Nat
    BY <1>4
  <2>2. \A x, y, z \in Nat : (x - y) + z = (x + z) - y
    OBVIOUS
  <2>3. h.fields[n + 1] = h.fields[n] + Len(e)
    BY <1>1, <1>5
  <2>4. Len(d) = (h.fields[n] + Len(e)) - h.fields[a]
    BY <1>3, <1>4, <1>5, <1>7, <2>2
  <2> QED BY <1>3, <1>5, <2>3, <2>4
<1>9. ASSUME NEW i \in a + 1 .. n + 1
      PROVE  /\ h.fields[i - 1] >= h.fields[a] /\ h.fields[i] <= h.fields[n + 1]
             /\ \A k \in 1 .. Len(Encode(h.log[i])) :
                  d[(h.fields[i - 1] - h.fields[a]) + k] = Encode(h.log[i])[k]
  <2>1. CASE i = n + 1
    <3>1. i - 1 = n
      BY <1>0, <2>1
    <3>2. h.fields[n] >= h.fields[a]
      <4>1. Len(data) \in Nat
        BY <1>4
      <4> QED BY <1>4, <1>5, <4>1
    <3>3. Encode(h.log[i]) = e
      BY <1>1, <2>1 DEF e
    <3>4. \A k \in 1 .. Len(e) : d[(h.fields[n] - h.fields[a]) + k] = e[k]
      BY <1>4, <1>7
    <3> QED BY <1>8, <2>1, <3>1, <3>2, <3>3, <3>4
  <2>2. CASE i # n + 1
    <3>1. i \in a + 1 .. n /\ i \in 1 .. n + 1 /\ i \in 0 .. n + 1 /\ i - 1 \in 0 .. n + 1
      BY <1>0, <2>2
    <3>2. /\ h.fields[i - 1] >= h.fields[a] /\ h.fields[i] <= h.fields[n]
          /\ \A k \in 1 .. Len(Encode(h.log[i])) :
               data[(h.fields[i - 1] - h.fields[a]) + k] = Encode(h.log[i])[k]
      BY <1>2, <3>1 DEF Piece
    <3>3. h.fields[i] \in Nat /\ h.fields[i - 1] \in Nat /\ h.fields[i] = h.fields[i - 1] + Len(Encode(h.log[i]))
      BY <1>1, <3>1 DEF Laid
    <3>4. h.log[i] \in Items
      BY <1>1, <3>1 DEF Laid
    <3>5. Len(Encode(h.log[i])) \in Nat
      BY <3>4, EncodeFields
    <3>6. ASSUME NEW k \in 1 .. Len(Encode(h.log[i]))
          PROVE  d[(h.fields[i - 1] - h.fields[a]) + k] = Encode(h.log[i])[k]
      <4>1. \A x, y, z, u, v \in Nat : x >= y /\ x + u <= z /\ v \in 1 .. u
              => (x - y) + v \in 1 .. z - y
        OBVIOUS
      <4>2. k \in Nat /\ h.fields[i - 1] + Len(Encode(h.log[i])) <= h.fields[n]
        BY <3>2, <3>3
      <4>3. (h.fields[i - 1] - h.fields[a]) + k \in 1 .. Len(data)
        BY <1>4, <1>5, <3>2, <3>3, <3>5, <4>1, <4>2
      <4> QED BY <1>7, <3>2, <4>3
    <3>7. h.fields[i] <= h.fields[n + 1]
      BY <1>5, <1>8, <3>2, <3>3
    <3> QED BY <3>2, <3>6, <3>7
  <2> QED BY <2>1, <2>2
<1>10. Piece(d, h, a, n + 1)
  <2>1. a \in 0 .. n + 1 /\ n + 1 \in 0 .. n + 1 /\ a <= n + 1
    BY <1>0
  <2> QED BY <1>1, <1>6, <1>8, <1>9, <2>1 DEF Piece
<1> QED BY <1>10 DEF n, h, d, e

-----------------------------------------------------------------------------
(* The session *)

\* The values of a session.
Sessions == [buffer : Seq(Field), bufpos : Nat, table : SUBSET {Bit(h) : h \in Handles},
             out : Seq(Seq(Field)), error : {FALSE}]

\* The messages of a session and its buffer are the pieces of a log, and _bufpos
\* counts what is in the buffer.
Held(s, g) ==
  /\ s \in Sessions
  /\ s.bufpos = Size(s.buffer) /\ s.bufpos <= BufSize
  /\ s.bufpos = 0 => g.cut[Len(s.out)] = Len(g.log)
  /\ g.cut \in [0 .. Len(s.out) -> Nat]
  /\ \A j \in 1 .. Len(s.out) : Piece(s.out[j], g, g.cut[j - 1], g.cut[j])
  /\ Piece(s.buffer, g, g.cut[Len(s.out)], Len(g.log))

\* The table tells the strings of the log.
Told(s, g) ==
  s.table = {Bit(g.log[i].id) : i \in {k \in 1 .. Len(g.log) : g.log[k].type = "string"}}

\* Two ghosts that only differ in where messages end.
SameLog(g, h) == /\ h.log = g.log /\ h.fields = g.fields /\ h.events = g.events
                 /\ h.cut[0] = g.cut[0]

\* What is known of a log does not depend on that.
LEMMA SameLogFacts ==
  ASSUME NEW g, NEW h, Laid(g), SameLog(g, h)
  PROVE  /\ Laid(h) /\ Extends(g, h) /\ Len(h.log) = Len(g.log)
         /\ \A em : Coded(g, em) => Coded(h, em)
         /\ \A s : Told(s, g) => Told(s, h)
         /\ \A data, a, b : Piece(data, g, a, b) => Piece(data, h, a, b)
<1>1. h.log = g.log /\ h.fields = g.fields /\ h.events = g.events /\ h.cut[0] = g.cut[0]
  BY DEF SameLog
<1>2. Laid(h)
  BY <1>1 DEF Laid
<1>3. Extends(g, h)
  <2>1. Len(g.log) <= Len(g.log)
    BY DEF Laid
  <2> QED BY <1>1, <2>1 DEF Extends
<1>4. ASSUME NEW em, Coded(g, em) PROVE Coded(h, em)
  <2>1. Emitted(h, em)
    BY <1>1, <1>4 DEF Coded, Emitted
  <2>2. StringsOnce(h)
    BY <1>1, <1>4 DEF Coded, StringsOnce
  <2>3. NamesBefore(h)
    BY <1>1, <1>4 DEF Coded, NamesBefore
  <2> QED BY <1>2, <2>1, <2>2, <2>3 DEF Coded
<1>5. ASSUME NEW s, Told(s, g) PROVE Told(s, h)
  BY <1>1, <1>5 DEF Told
<1>6. ASSUME NEW data, NEW a, NEW b, Piece(data, g, a, b) PROVE Piece(data, h, a, b)
  BY <1>2, <1>3, <1>6, PieceStays
<1> QED BY <1>1, <1>2, <1>3, <1>4, <1>5, <1>6

\* No bytes in no data.
LEMMA SizeEmpty == Size(<< >>) = 0
<1>1. << >> \in Seq(Field) /\ Len(<< >>) + 1 = 1
  OBVIOUS
<1>2. Offset(<< >>)[1] = 0
  BY <1>1, OffsetOf DEF Offsets
<1> QED BY <1>1, <1>2 DEF Size

\* A message that is sent is the last piece, and the buffer begins a new one.
LEMMA SendHolds ==
  ASSUME NEW g, NEW s, Laid(g), NEW b, NEW data,
         s \in Sessions, g.cut \in [0 .. Len(s.out) -> Nat],
         \A j \in 1 .. Len(s.out) : Piece(s.out[j], g, g.cut[j - 1], g.cut[j]),
         Piece(data, g, g.cut[Len(s.out)], Len(g.log)),
         b = [s EXCEPT !.out = Append(@, data), !.buffer = << >>, !.bufpos = 0]
  PROVE  Held(b, End(g, Len(s.out))) /\ SameLog(g, End(g, Len(s.out)))
<1> DEFINE n == Len(s.out)
           h == End(g, n)
           cut == [j \in 0 .. n + 1 |-> IF j <= n THEN g.cut[j] ELSE Len(g.log)]
<1>1. n \in Nat /\ s.out \in Seq(Seq(Field)) /\ data \in Seq(Field) /\ Len(g.log) \in Nat
      /\ n \in 0 .. n /\ Len(g.log) \in 0 .. Len(g.log)
  BY DEF Sessions, Piece, Laid
<1>2. h.log = g.log /\ h.fields = g.fields /\ h.events = g.events /\ h.cut = cut
  BY DEF End
<1>3. cut \in [0 .. n + 1 -> Nat] /\ cut[n + 1] = Len(g.log) /\ \A j \in 0 .. n : cut[j] = g.cut[j]
  <2>1. \A j \in 0 .. n : g.cut[j] \in Nat
    OBVIOUS
  <2>2. n + 1 \in 0 .. n + 1 /\ ~(n + 1 <= n) /\ \A j \in 0 .. n : j \in 0 .. n + 1 /\ j <= n
    BY <1>1
  <2>3. \A j \in 0 .. n + 1 : j <= n => j \in 0 .. n
    BY <1>1
  <2> HIDE DEF n
  <2> QED BY <1>1, <2>1, <2>2, <2>3
<1>4. 0 \in 0 .. n
  BY <1>1
<1> HIDE DEF h, cut
<1>5. SameLog(g, h)
  BY <1>2, <1>3, <1>4 DEF SameLog
<1>6. Laid(h) /\ Len(h.log) = Len(g.log) /\ \A d, x, y : Piece(d, g, x, y) => Piece(d, h, x, y)
  BY <1>5, SameLogFacts
<1>7. /\ b \in Sessions /\ b.bufpos = 0 /\ b.buffer = << >>
      /\ b.out = Append(s.out, data)
  <2>1. Append(s.out, data) \in Seq(Seq(Field)) /\ << >> \in Seq(Field)
    BY <1>1
  <2> QED BY <2>1 DEF Sessions
<1>8. /\ Len(b.out) = n + 1 /\ b.out[n + 1] = data /\ \A j \in 1 .. n : b.out[j] = s.out[j]
  BY <1>1, <1>7
<1>9. ASSUME NEW j \in 1 .. n + 1 PROVE Piece(b.out[j], h, cut[j - 1], cut[j])
  <2>1. CASE j = n + 1
    <3>1. j - 1 = n
      BY <1>1, <2>1
    <3>2. Piece(data, h, g.cut[n], Len(g.log))
      BY <1>6
    <3> QED BY <1>1, <1>3, <1>8, <2>1, <3>1, <3>2
  <2>2. CASE j # n + 1
    <3>0. \A x \in Nat : \A y \in 1 .. x + 1 : y # x + 1 => y \in 1 .. x /\ y - 1 \in 0 .. x /\ y \in 0 .. x
      OBVIOUS
    <3>1. j \in 1 .. n /\ j - 1 \in 0 .. n /\ j \in 0 .. n
      BY <1>1, <2>2, <3>0
    <3>2. Piece(s.out[j], h, g.cut[j - 1], g.cut[j])
      BY <1>6, <3>1
    <3> QED BY <1>3, <1>8, <3>1, <3>2
  <2> QED BY <2>1, <2>2
<1>10. Piece(<< >>, h, Len(h.log), Len(h.log))
  BY <1>1, <1>6, PieceEmpty
<1>11. Held(b, h)
  <2>1. b.bufpos = Size(b.buffer) /\ b.bufpos <= BufSize
    BY <1>7, SizeEmpty, StreamAssumption
  <2>2. h.cut[Len(b.out)] = Len(h.log)
    BY <1>2, <1>3, <1>6, <1>8
  <2>3. h.cut \in [0 .. Len(b.out) -> Nat]
    BY <1>2, <1>3, <1>8
  <2>4. \A j \in 1 .. Len(b.out) : Piece(b.out[j], h, h.cut[j - 1], h.cut[j])
    BY <1>2, <1>8, <1>9
  <2>5. Piece(b.buffer, h, h.cut[Len(b.out)], Len(h.log))
    BY <1>7, <1>10, <2>2
  <2> QED BY <1>7, <2>1, <2>2, <2>3, <2>4, <2>5 DEF Held
<1> QED BY <1>5, <1>11 DEF h, n

\* FlushSession keeps the pieces together.
LEMMA FlushHolds ==
  ASSUME NEW g, NEW s, Laid(g), Held(s, g)
  PROVE  /\ FlushSession(s).bufpos = 0 /\ FlushSession(s).table = s.table
         /\ \E h : Held(FlushSession(s), h) /\ SameLog(g, h)
<1>1. CASE s.bufpos = 0
  <2>1. FlushSession(s) = s
    BY <1>1 DEF FlushSession
  <2>2. SameLog(g, g)
    BY DEF SameLog
  <2> QED BY <1>1, <2>1, <2>2
<1>2. CASE s.bufpos # 0
  <2>1. FlushSession(s) = [s EXCEPT !.out = Append(@, s.buffer), !.buffer = << >>, !.bufpos = 0]
    BY <1>2 DEF FlushSession
  <2>2. s \in Sessions
    BY DEF Held
  <2>3. FlushSession(s).bufpos = 0 /\ FlushSession(s).table = s.table
    BY <2>1, <2>2 DEF Sessions
  <2>4. Held(FlushSession(s), End(g, Len(s.out))) /\ SameLog(g, End(g, Len(s.out)))
    BY <2>1, SendHolds DEF Held
  <2> QED BY <2>3, <2>4
<1> QED BY <1>1, <1>2

\* So does making room; then there is room, or nothing in the buffer.
LEMMA RoomHolds ==
  ASSUME NEW g, NEW s, Laid(g), Held(s, g), NEW size \in Nat
  PROVE  /\ size <= BufSize - MakeRoom(s, size).bufpos \/ MakeRoom(s, size).bufpos = 0
         /\ MakeRoom(s, size).table = s.table
         /\ \E h : Held(MakeRoom(s, size), h) /\ SameLog(g, h)
<1>1. s.bufpos \in Nat /\ BufSize \in Nat
  BY StreamAssumption DEF Held, Sessions
<1>2. CASE size > BufSize - s.bufpos
  <2>1. MakeRoom(s, size) = FlushSession(s)
    BY <1>2 DEF MakeRoom
  <2> QED BY <2>1, FlushHolds
<1>3. CASE ~(size > BufSize - s.bufpos)
  <2>1. MakeRoom(s, size) = s
    BY <1>3 DEF MakeRoom
  <2>2. SameLog(g, g)
    BY DEF SameLog
  <2>3. size <= BufSize - s.bufpos
    BY <1>1, <1>3
  <2> QED BY <2>1, <2>2, <2>3
<1> QED BY <1>2, <1>3

\* EncodeSize is the size of what EncodeEvent writes; the buffer has room for an
\* event.
LEMMA SizeEncode ==
  ASSUME NEW ev \in Items
  PROVE  /\ Size(Encode(ev)) = EncodeSize(ev) /\ EncodeSize(ev) \in Nat /\ EncodeSize(ev) > 0
         /\ ev \in AllEvents => EncodeSize(ev) <= BufSize
<1> DEFINE e == Encode(ev)
<1>1. e \in Seq(Field) /\ Dense(e) /\ Len(e) \in Nat
  BY EncodeFields
<1>2. Size(e) = EncodeSize(ev)
  <2>1. 0 + Len(e) <= Len(e) /\ 0 + Len(e) + 1 = Len(e) + 1 /\ 0 + 1 = 1 /\ 0 \in Nat
        /\ \A k \in 1 .. Len(e) : e[0 + k] = e[k]
    BY <1>1
  <2>2. Offset(e)[0 + Len(e) + 1] = Offset(e)[0 + 1] + EncodeSize(ev)
    BY <1>1, <2>1, ReadItem
  <2>3. Offset(e)[1] = 0
    BY <1>1, OffsetOf DEF Offsets
  <2>4. Offset(e)[Len(e) + 1] = 0 + EncodeSize(ev)
    BY <2>1, <2>2, <2>3
  <2>5. EncodeSize(ev) \in Int
    BY DEF Items, AllEvents, EncodeSize
  <2> QED BY <2>4, <2>5 DEF Size
<1>3. EncodeSize(ev) \in Nat /\ EncodeSize(ev) > 0
  BY DEF Items, AllEvents, EncodeSize
<1>4. ASSUME ev \in AllEvents PROVE EncodeSize(ev) <= BufSize
  <2>1. EncodeSize(ev) <= 29
    BY <1>4 DEF AllEvents, EncodeSize
  <2> QED BY <1>3, <2>1, StreamAssumption
<1> QED BY <1>2, <1>3, <1>4

\* What EncodeEvent looks at the room for is no more than what it writes.
LEMMA SizeChecked ==
  ASSUME NEW ev \in Items
  PROVE  Size(Checked(ev)) <= EncodeSize(ev) /\ Size(Checked(ev)) \in Nat
<1>1. Size(Encode(ev)) = EncodeSize(ev) /\ EncodeSize(ev) \in Nat
  BY SizeEncode
<1>2. Encode(ev) \in Seq(Field)
  BY EncodeFields
<1>3. CASE ev.type # "string"
  <2>1. Checked(ev) = Encode(ev)
    BY <1>3 DEF Checked
  <2> QED BY <1>1, <2>1
<1>4. CASE ev.type = "string"
  <2> DEFINE e == Encode(ev)
             c == <<F(5, 1), F(ev.id, 4), F(ev.size, 2)>>
             d == <<F(ev.id, ev.size)>>
  <2>0. ev.id \in Int /\ ev.size \in Nat
    <3>1. ev \notin AllEvents
      BY <1>4 DEF AllEvents
    <3>2. ev \in [type : {"string"}, id : Handles, size : Nat]
      BY <3>1 DEF Items
    <3>3. ev.id \in Handles /\ ev.size \in Nat
      BY <3>2
    <3>4. Handles \subseteq Nat
      BY StreamAssumption
    <3>5. ev.id \in Nat
      BY <3>3, <3>4
    <3> QED BY <3>3, <3>5
  <2>1. /\ F(5, 1) \in Field /\ F(ev.id, 4) \in Field /\ F(ev.size, 2) \in Field
        /\ F(ev.id, ev.size) \in Field
    BY <2>0, FieldOf
  <2>2. c \in Seq(Field) /\ d \in Seq(Field) /\ e = c \o d
    <3>1. e = <<F(5, 1), F(ev.id, 4), F(ev.size, 2), F(ev.id, ev.size)>>
      BY <1>4 DEF Encode
    <3>2. c \in Seq(Field) /\ d \in Seq(Field) /\ e \in Seq(Field)
      BY <1>2, <2>1
    <3>3. Len(c \o d) = 4 /\ Len(e) = 4
      BY <3>1, <3>2
    <3>4. (c \o d)[1] = e[1] /\ (c \o d)[2] = e[2] /\ (c \o d)[3] = e[3] /\ (c \o d)[4] = e[4]
      BY <3>1, <3>2
    <3>5. \A i \in 1 .. 4 : i = 1 \/ i = 2 \/ i = 3 \/ i = 4
      OBVIOUS
    <3> HIDE DEF c, d, e
    <3>6. c \o d \in Seq(Field)
      BY <3>2
    <3> QED BY <3>2, <3>3, <3>4, <3>5, <3>6, SeqEqual
  <2> HIDE DEF c, d, e
  <2>3. Size(e) = Size(c) + Size(d)
    BY <2>2, SizeConcat
  <2>4. \A x \in Seq(Field) : Size(x) \in Nat
    <3> SUFFICES ASSUME NEW x \in Seq(Field) PROVE Size(x) \in Nat
      OBVIOUS
    <3>1. Len(x) + 1 \in 1 .. Len(x) + 1
      OBVIOUS
    <3> QED BY <3>1, OffsetOf DEF Size, Offsets
  <2>5. Size(c) \in Nat /\ Size(d) \in Nat
    BY <2>2, <2>4
  <2>6. Checked(ev) = c
    BY <1>4 DEF Checked, c
  <2> QED BY <1>1, <2>3, <2>5, <2>6 DEF e
<1> QED BY <1>3, <1>4

\* EncodeEvent with enough room adds to the last piece.
LEMMA PutHolds ==
  ASSUME NEW g, NEW s, Laid(g), Held(s, g), NEW ev \in Items, EncodeSize(ev) <= BufSize - s.bufpos
  PROVE  Held(Put(s, ev), Add(g, ev)) /\ Put(s, ev).table = s.table
<1> DEFINE b == Put(s, ev)
           h == Add(g, ev)
           n == Len(s.out)
<1>1. /\ s \in Sessions /\ s.bufpos \in Nat /\ s.bufpos = Size(s.buffer) /\ n \in Nat
      /\ s.buffer \in Seq(Field) /\ s.out \in Seq(Seq(Field)) /\ BufSize \in Nat
  <2>1. s \in Sessions /\ s.bufpos = Size(s.buffer)
    BY DEF Held
  <2>2. s.bufpos \in Nat /\ s.buffer \in Seq(Field) /\ s.out \in Seq(Seq(Field))
    BY <2>1 DEF Sessions
  <2> QED BY <2>1, <2>2, StreamAssumption
<1>2. Size(Encode(ev)) = EncodeSize(ev) /\ EncodeSize(ev) \in Nat /\ EncodeSize(ev) > 0
  BY SizeEncode
<1>3. Encode(ev) \in Seq(Field)
  BY EncodeFields
<1>4. b = [s EXCEPT !.buffer = @ \o Encode(ev), !.bufpos = @ + Size(Encode(ev))]
  <2>1. Size(Checked(ev)) <= EncodeSize(ev) /\ Size(Checked(ev)) \in Nat
    BY SizeChecked
  <2>2. ~(Size(Checked(ev)) > BufSize - s.bufpos)
    BY <1>1, <1>2, <2>1
  <2> QED BY <2>2 DEF Put
<1>5. /\ b.buffer = s.buffer \o Encode(ev) /\ b.bufpos = s.bufpos + EncodeSize(ev)
      /\ b.table = s.table /\ b.out = s.out /\ b \in Sessions
  <2>1. s.buffer \o Encode(ev) \in Seq(Field) /\ s.bufpos + EncodeSize(ev) \in Nat
    BY <1>1, <1>2, <1>3
  <2> QED BY <1>1, <1>2, <1>4, <2>1 DEF Sessions
<1>6. Laid(h) /\ Extends(g, h) /\ Len(h.log) = Len(g.log) + 1 /\ h.cut = g.cut
  BY AddFacts
<1> HIDE DEF b, h
<1>7. b.bufpos = Size(b.buffer) /\ b.bufpos <= BufSize /\ b.bufpos # 0
  <2>1. Size(s.buffer \o Encode(ev)) = Size(s.buffer) + Size(Encode(ev))
    BY <1>1, <1>3, SizeConcat
  <2>2. b.bufpos = Size(b.buffer)
    BY <1>1, <1>2, <1>5, <2>1
  <2> QED BY <1>1, <1>2, <1>5, <2>2
<1>8. h.cut \in [0 .. Len(b.out) -> Nat]
  BY <1>5, <1>6 DEF Held
<1>9. \A j \in 1 .. Len(b.out) : Piece(b.out[j], h, h.cut[j - 1], h.cut[j])
  <2> SUFFICES ASSUME NEW j \in 1 .. Len(b.out) PROVE Piece(b.out[j], h, h.cut[j - 1], h.cut[j])
    OBVIOUS
  <2>1. Piece(s.out[j], g, g.cut[j - 1], g.cut[j])
    BY <1>5 DEF Held
  <2>2. Piece(s.out[j], h, g.cut[j - 1], g.cut[j])
    BY <1>6, <2>1, PieceStays
  <2> QED BY <1>5, <1>6, <2>2
<1>10. Piece(b.buffer, h, h.cut[Len(b.out)], Len(h.log))
  <2>1. Piece(s.buffer, g, g.cut[n], Len(g.log))
    BY DEF Held
  <2>2. Piece(s.buffer \o Encode(ev), h, g.cut[n], Len(g.log) + 1)
    BY <2>1, PieceGrows DEF h
  <2> QED BY <1>5, <1>6, <2>2
<1>11. Held(b, h)
  BY <1>5, <1>7, <1>8, <1>9, <1>10 DEF Held
<1> QED BY <1>5, <1>11 DEF b, h

\* So does a string sent past an empty buffer.
LEMMA PastHolds ==
  ASSUME NEW g, NEW s, Laid(g), Held(s, g), NEW ev \in Items, s.bufpos = 0, NEW b,
         b = [s EXCEPT !.out = Append(@, Encode(ev))]
  PROVE  \E h : Held(b, h) /\ SameLog(Add(g, ev), h)
<1> DEFINE k == Add(g, ev)
           n == Len(s.out)
<1>1. /\ s \in Sessions /\ n \in Nat /\ s.buffer \in Seq(Field) /\ g.cut[n] = Len(g.log)
      /\ Len(g.log) \in Nat
  <2>1. s \in Sessions /\ g.cut[n] = Len(g.log)
    BY DEF Held
  <2>2. s.buffer \in Seq(Field) /\ s.out \in Seq(Seq(Field))
    BY <2>1 DEF Sessions
  <2>3. Len(g.log) \in Nat
    BY DEF Laid
  <2> QED BY <2>1, <2>2, <2>3
<1>2. s.buffer = << >>
  <2>1. Piece(s.buffer, g, Len(g.log), Len(g.log))
    BY <1>1 DEF Held
  <2>2. Len(s.buffer) = g.fields[Len(g.log)] - g.fields[Len(g.log)] /\ g.fields[Len(g.log)] \in Nat
    <3>1. Len(g.log) \in 0 .. Len(g.log)
      BY <1>1
    <3> QED BY <2>1, <3>1 DEF Piece, Laid
  <2>3. Len(s.buffer) = 0
    BY <2>2
  <2> QED BY <1>1, <2>3
<1>3. b = [s EXCEPT !.out = Append(@, Encode(ev)), !.buffer = << >>, !.bufpos = 0]
  BY <1>1, <1>2 DEF Sessions
<1>4. Laid(k) /\ Extends(g, k) /\ Len(k.log) = Len(g.log) + 1 /\ k.cut = g.cut
  BY AddFacts
<1>5. k.cut \in [0 .. n -> Nat]
  BY <1>4 DEF Held
<1>6. Piece(Encode(ev), k, k.cut[n], Len(k.log))
  <2>1. Piece(<< >>, g, Len(g.log), Len(g.log))
    <3>1. Len(g.log) \in 0 .. Len(g.log)
      BY <1>1
    <3> QED BY <3>1, PieceEmpty
  <2>2. Piece(<< >> \o Encode(ev), k, Len(g.log), Len(g.log) + 1)
    BY <2>1, PieceGrows
  <2>3. << >> \o Encode(ev) = Encode(ev)
    <3>1. Encode(ev) \in Seq(Field)
      BY EncodeFields
    <3> QED BY <3>1
  <2> QED BY <1>1, <1>4, <2>2, <2>3
<1> HIDE DEF k
<1>7. \A j \in 1 .. Len(s.out) : Piece(s.out[j], k, k.cut[j - 1], k.cut[j])
  <2> SUFFICES ASSUME NEW j \in 1 .. Len(s.out) PROVE Piece(s.out[j], k, k.cut[j - 1], k.cut[j])
    OBVIOUS
  <2>1. Piece(s.out[j], g, g.cut[j - 1], g.cut[j])
    BY DEF Held
  <2>2. Piece(s.out[j], k, g.cut[j - 1], g.cut[j])
    BY <1>4, <2>1, PieceStays
  <2> QED BY <1>4, <2>2
<1>8. Held(b, End(k, n)) /\ SameLog(k, End(k, n))
  BY <1>1, <1>3, <1>4, <1>5, <1>6, <1>7, SendHolds
<1> QED BY <1>8 DEF k

\* The strings of a log with one more item.
LEMMA AddedEvents ==
  ASSUME NEW g, NEW em, Coded(g, em), NEW ev \in Items
  PROVE  LET h == Add(g, ev)
             n == Len(g.log)
         IN  /\ n \in Nat /\ Len(h.log) = n + 1 /\ h.log[n + 1] = ev
             /\ \A i \in 1 .. n : h.log[i] = g.log[i]
             /\ \A i \in 0 .. n : h.events[i] = g.events[i]
             /\ g.events[n] = Len(em) /\ Len(em) \in Nat
             /\ h.events[n + 1] = (IF ev.type = "string" THEN Len(em) ELSE Len(em) + 1)
             /\ h.events \in [0 .. n + 1 -> Nat] /\ h.events[0] = 0
<1> DEFINE h == Add(g, ev)
           n == Len(g.log)
<1>1. Laid(g) /\ Emitted(g, em)
  BY DEF Coded
<1>2. n \in Nat /\ 0 \in 0 .. n /\ n + 1 \in 0 .. n + 1 /\ ~(n + 1 <= n)
  BY <1>1 DEF Laid
<1>3. Len(h.log) = n + 1 /\ h.log[n + 1] = ev /\ Extends(g, h)
  BY <1>1, AddFacts
<1>4. /\ \A i \in 1 .. n : h.log[i] = g.log[i]
      /\ \A i \in 0 .. n : h.events[i] = g.events[i]
  BY <1>3 DEF Extends
<1>5. g.events[n] = Len(em) /\ Len(em) \in Nat /\ g.events[0] = 0 /\ g.events \in [0 .. n -> Nat]
  BY <1>1 DEF Emitted
<1>6. h.events = [i \in 0 .. n + 1 |-> IF i <= n THEN g.events[i]
                                       ELSE IF ev.type = "string" THEN g.events[n]
                                       ELSE g.events[n] + 1]
  BY DEF Add
<1>7. h.events[n + 1] = IF ev.type = "string" THEN Len(em) ELSE Len(em) + 1
  BY <1>2, <1>5, <1>6
<1>8. h.events \in [0 .. n + 1 -> Nat]
  <2>1. \A i \in 0 .. n + 1 : i <= n => i \in 0 .. n
    BY <1>2
  <2>2. \A i \in 0 .. n : g.events[i] \in Nat
    BY <1>5
  <2>3. g.events[n] \in Nat /\ g.events[n] + 1 \in Nat
    BY <1>5
  <2> QED BY <1>6, <2>1, <2>2, <2>3
<1>9. h.events[0] = 0
  BY <1>2, <1>4, <1>5
<1> QED BY <1>2, <1>3, <1>4, <1>5, <1>7, <1>8, <1>9

\* A string that is not in the log yet can be added to it.
LEMMA AddString ==
  ASSUME NEW g, NEW em, Coded(g, em), NEW s, Told(s, g), NEW id \in Handles, Bit(id) \notin s.table
  PROVE  Coded(Add(g, StringEvent(id)), em)
<1> DEFINE ev == StringEvent(id)
           h == Add(g, ev)
           n == Len(g.log)
<1>1. ev \in Items /\ ev.type = "string" /\ ev.id = id
  BY StringItem
<1> HIDE DEF ev
<1>2. Laid(g) /\ Emitted(g, em) /\ StringsOnce(g) /\ NamesBefore(g)
  BY DEF Coded
<1>3. Laid(h)
  BY <1>1, <1>2, AddFacts
<1>4. /\ n \in Nat /\ Len(h.log) = n + 1 /\ h.log[n + 1] = ev
      /\ \A i \in 1 .. n : h.log[i] = g.log[i]
      /\ \A i \in 0 .. n : h.events[i] = g.events[i]
      /\ g.events[n] = Len(em) /\ Len(em) \in Nat
      /\ h.events[n + 1] = Len(em)
      /\ h.events \in [0 .. n + 1 -> Nat] /\ h.events[0] = 0
  BY <1>1, AddedEvents
<1> HIDE DEF h, n
<1>5. \A i \in 1 .. n + 1 : i = n + 1 \/ (i \in 1 .. n /\ i - 1 \in 0 .. n /\ i \in 0 .. n /\ i # n + 1)
  BY <1>4
<1>6. Emitted(h, em)
  <2>1. ASSUME NEW i \in 1 .. n + 1
        PROVE  /\ h.log[i].type = "string" => h.events[i] = h.events[i - 1]
               /\ h.log[i].type # "string" => h.events[i] = h.events[i - 1] + 1
               /\ h.log[i].type # "string" => h.events[i] \in 1 .. Len(em) /\ em[h.events[i]] = h.log[i]
    <3>1. CASE i = n + 1
      <4>1. i - 1 = n /\ n \in 0 .. n
        BY <1>4, <3>1
      <4> QED BY <1>1, <1>4, <3>1, <4>1
    <3>2. CASE i \in 1 .. n /\ i - 1 \in 0 .. n /\ i \in 0 .. n
      <4>1. h.log[i] = g.log[i] /\ h.events[i] = g.events[i] /\ h.events[i - 1] = g.events[i - 1]
        BY <1>4, <3>2
      <4>2. /\ g.log[i].type = "string" => g.events[i] = g.events[i - 1]
            /\ g.log[i].type # "string" => g.events[i] = g.events[i - 1] + 1
            /\ g.log[i].type # "string" => g.events[i] \in 1 .. Len(em) /\ em[g.events[i]] = g.log[i]
        BY <1>2, <3>2 DEF Emitted, n
      <4> QED BY <4>1, <4>2
    <3> QED BY <1>5, <3>1, <3>2
  <2>2. em \in Seq(AllEvents)
    BY <1>2 DEF Emitted
  <2> QED BY <1>4, <2>1, <2>2 DEF Emitted
<1>7. StringsOnce(h)
  <2>1. ASSUME NEW i \in 1 .. n + 1, h.log[i].type = "string"
        PROVE  h.log[i].id \in Handles /\ h.log[i] = StringEvent(h.log[i].id)
    <3>1. CASE i = n + 1
      BY <1>1, <1>4, <3>1 DEF ev
    <3>2. CASE i \in 1 .. n
      BY <1>2, <1>4, <2>1, <3>2 DEF StringsOnce, n
    <3> QED BY <1>5, <3>1, <3>2
  <2>2. ASSUME NEW i \in 1 .. n + 1, NEW j \in 1 .. n + 1, i < j,
               h.log[i].type = "string", h.log[j].type = "string"
        PROVE  Bit(h.log[i].id) # Bit(h.log[j].id)
    <3>0. i \in 1 .. n
      BY <1>4, <2>2
    <3>1. h.log[i] = g.log[i]
      BY <1>4, <3>0
    <3>2. CASE j = n + 1
      <4>1. Bit(g.log[i].id) \in s.table
        BY <2>2, <3>0, <3>1 DEF Told, n
      <4> QED BY <1>1, <1>4, <3>1, <3>2, <4>1
    <3>3. CASE j \in 1 .. n
      <4>1. h.log[j] = g.log[j]
        BY <1>4, <3>3
      <4> QED BY <1>2, <2>2, <3>0, <3>1, <3>3, <4>1 DEF StringsOnce, n
    <3> QED BY <1>5, <3>2, <3>3
  <2> QED BY <1>4, <2>1, <2>2 DEF StringsOnce
<1>8. NamesBefore(h)
  <2> SUFFICES ASSUME NEW i \in 1 .. n + 1, h.log[i].type # "string", NEW m \in Names(h.log[i])
               PROVE  \E k \in 1 .. i - 1 : h.log[k].type = "string" /\ Bit(h.log[k].id) = Bit(m)
    BY <1>4 DEF NamesBefore
  <2>1. i \in 1 .. n /\ h.log[i] = g.log[i]
    BY <1>1, <1>4, <1>5
  <2>2. PICK k \in 1 .. i - 1 : g.log[k].type = "string" /\ Bit(g.log[k].id) = Bit(m)
    BY <1>2, <2>1 DEF NamesBefore, n
  <2>3. k \in 1 .. n
    BY <1>4, <2>1
  <2>4. h.log[k] = g.log[k]
    BY <1>4, <2>3
  <2> QED BY <2>2, <2>4
<1> QED BY <1>3, <1>6, <1>7, <1>8 DEF Coded, h, ev

\* So can an event whose names are in the log, when it is emitted.
LEMMA AddEvent ==
  ASSUME NEW g, NEW em, Coded(g, em), NEW ev \in AllEvents,
         \A m \in Names(ev) : \E k \in 1 .. Len(g.log) : g.log[k].type = "string" /\ Bit(g.log[k].id) = Bit(m)
  PROVE  Coded(Add(g, ev), Append(em, ev))
<1> DEFINE h == Add(g, ev)
           n == Len(g.log)
           en == Append(em, ev)
<1>1. ev \in Items /\ ev.type # "string"
  BY DEF Items, AllEvents
<1>2. Laid(g) /\ Emitted(g, em) /\ StringsOnce(g) /\ NamesBefore(g)
  BY DEF Coded
<1>3. Laid(h)
  BY <1>1, <1>2, AddFacts
<1>4. /\ n \in Nat /\ Len(h.log) = n + 1 /\ h.log[n + 1] = ev
      /\ \A i \in 1 .. n : h.log[i] = g.log[i]
      /\ \A i \in 0 .. n : h.events[i] = g.events[i]
      /\ g.events[n] = Len(em) /\ Len(em) \in Nat
      /\ h.events[n + 1] = Len(em) + 1
      /\ h.events \in [0 .. n + 1 -> Nat] /\ h.events[0] = 0
  BY <1>1, AddedEvents
<1>5. \A i \in 1 .. n + 1 : i = n + 1 \/ (i \in 1 .. n /\ i - 1 \in 0 .. n /\ i \in 0 .. n /\ i # n + 1)
  BY <1>4
<1>9. /\ en \in Seq(AllEvents) /\ Len(en) = Len(em) + 1 /\ en[Len(em) + 1] = ev
      /\ \A k \in 1 .. Len(em) : en[k] = em[k]
  BY <1>2 DEF Emitted
<1> HIDE DEF h, n, en
<1>6. Emitted(h, en)
  <2>1. ASSUME NEW i \in 1 .. n + 1
        PROVE  /\ h.log[i].type = "string" => h.events[i] = h.events[i - 1]
               /\ h.log[i].type # "string" => h.events[i] = h.events[i - 1] + 1
               /\ h.log[i].type # "string" => h.events[i] \in 1 .. Len(en) /\ en[h.events[i]] = h.log[i]
    <3>1. CASE i = n + 1
      <4>1. i - 1 = n /\ n \in 0 .. n
        BY <1>4, <3>1
      <4>2. Len(em) + 1 \in 1 .. Len(em) + 1
        BY <1>4
      <4> QED BY <1>1, <1>4, <1>9, <3>1, <4>1, <4>2
    <3>2. CASE i \in 1 .. n /\ i - 1 \in 0 .. n /\ i \in 0 .. n
      <4>1. h.log[i] = g.log[i] /\ h.events[i] = g.events[i] /\ h.events[i - 1] = g.events[i - 1]
        BY <1>4, <3>2
      <4>2. /\ g.log[i].type = "string" => g.events[i] = g.events[i - 1]
            /\ g.log[i].type # "string" => g.events[i] = g.events[i - 1] + 1
            /\ g.log[i].type # "string" => g.events[i] \in 1 .. Len(em) /\ em[g.events[i]] = g.log[i]
        BY <1>2, <3>2 DEF Emitted, n
      <4>3. \A k \in 1 .. Len(em) : k \in 1 .. Len(em) + 1
        BY <1>4
      <4> QED BY <1>9, <4>1, <4>2, <4>3
    <3> QED BY <1>5, <3>1, <3>2
  <2> QED BY <1>4, <1>9, <2>1 DEF Emitted
<1>7. StringsOnce(h)
  <2>1. ASSUME NEW i \in 1 .. n + 1, h.log[i].type = "string"
        PROVE  i \in 1 .. n /\ h.log[i] = g.log[i]
    BY <1>1, <1>4, <1>5, <2>1
  <2>2. ASSUME NEW i \in 1 .. n + 1, h.log[i].type = "string"
        PROVE  h.log[i].id \in Handles /\ h.log[i] = StringEvent(h.log[i].id)
    BY <1>2, <2>1, <2>2 DEF StringsOnce, n
  <2>3. ASSUME NEW i \in 1 .. n + 1, NEW j \in 1 .. n + 1, i < j,
               h.log[i].type = "string", h.log[j].type = "string"
        PROVE  Bit(h.log[i].id) # Bit(h.log[j].id)
    <3>1. i \in 1 .. n /\ h.log[i] = g.log[i] /\ j \in 1 .. n /\ h.log[j] = g.log[j]
      BY <2>1, <2>3
    <3> QED BY <1>2, <2>3, <3>1 DEF StringsOnce, n
  <2> QED BY <1>4, <2>2, <2>3 DEF StringsOnce
<1>8. NamesBefore(h)
  <2> SUFFICES ASSUME NEW i \in 1 .. n + 1, h.log[i].type # "string", NEW m \in Names(h.log[i])
               PROVE  \E k \in 1 .. i - 1 : h.log[k].type = "string" /\ Bit(h.log[k].id) = Bit(m)
    BY <1>4 DEF NamesBefore
  <2>1. CASE i = n + 1
    <3>1. PICK k \in 1 .. n : g.log[k].type = "string" /\ Bit(g.log[k].id) = Bit(m)
      BY <1>4, <2>1 DEF n
    <3>2. i - 1 = n /\ h.log[k] = g.log[k]
      BY <1>4, <2>1
    <3> QED BY <3>1, <3>2
  <2>2. CASE i \in 1 .. n
    <3>1. PICK k \in 1 .. i - 1 : g.log[k].type = "string" /\ Bit(g.log[k].id) = Bit(m)
      BY <1>2, <1>4, <2>2 DEF NamesBefore, n
    <3>2. k \in 1 .. n
      BY <1>4, <2>2
    <3>3. h.log[k] = g.log[k]
      BY <1>4, <3>2
    <3> QED BY <3>1, <3>3
  <2> QED BY <1>5, <2>1, <2>2
<1> QED BY <1>3, <1>6, <1>7, <1>8 DEF Coded, h, en

\* The table goes on telling the strings.
LEMMA AddTold ==
  ASSUME NEW g, Laid(g), NEW s, Told(s, g), NEW ev \in Items, NEW b,
         b.table = s.table \cup (IF ev.type = "string" THEN {Bit(ev.id)} ELSE {})
  PROVE  Told(b, Add(g, ev))
<1> DEFINE h == Add(g, ev)
           n == Len(g.log)
<1>1. n \in Nat /\ Len(h.log) = n + 1 /\ h.log[n + 1] = ev /\ Extends(g, h)
  BY AddFacts DEF Laid
<1>2. \A i \in 1 .. n : h.log[i] = g.log[i]
  BY <1>1 DEF Extends
<1> HIDE DEF h
<1>3. \A i \in 1 .. n + 1 : i = n + 1 \/ i \in 1 .. n
  BY <1>1
<1>4. n + 1 \in 1 .. n + 1 /\ \A i \in 1 .. n : i \in 1 .. n + 1
  BY <1>1
<1>5. ASSUME NEW x \in b.table
      PROVE  x \in {Bit(h.log[i].id) : i \in {k \in 1 .. n + 1 : h.log[k].type = "string"}}
  <2>1. CASE x \in s.table
    <3>1. PICK i \in 1 .. n : g.log[i].type = "string" /\ x = Bit(g.log[i].id)
      BY <2>1 DEF Told
    <3>2. i \in 1 .. n + 1 /\ h.log[i] = g.log[i]
      BY <1>2, <1>4
    <3> QED BY <3>1, <3>2
  <2>2. CASE ev.type = "string" /\ x = Bit(ev.id)
    BY <1>1, <1>4, <2>2
  <2> QED BY <2>1, <2>2
<1>6. ASSUME NEW i \in 1 .. n + 1, h.log[i].type = "string"
      PROVE  Bit(h.log[i].id) \in b.table
  <2>1. CASE i = n + 1
    BY <1>1, <1>6, <2>1
  <2>2. CASE i \in 1 .. n
    <3>1. Bit(g.log[i].id) \in s.table
      BY <1>2, <1>6, <2>2 DEF Told
    <3> QED BY <1>2, <2>2, <3>1
  <2> QED BY <1>3, <2>1, <2>2
<1>7. b.table = {Bit(h.log[i].id) : i \in {k \in 1 .. n + 1 : h.log[k].type = "string"}}
  BY <1>5, <1>6
<1> QED BY <1>1, <1>7 DEF Told, h

\* Growing goes on.
LEMMA ExtendsTransitive ==
  ASSUME NEW g, NEW h, NEW k, Laid(g), Laid(h), Laid(k), Extends(g, h), Extends(h, k)
  PROVE  Extends(g, k)
<1>1. Len(g.log) \in Nat /\ Len(h.log) \in Nat /\ Len(k.log) \in Nat
  BY DEF Laid
<1>2. Len(g.log) <= Len(h.log) /\ Len(h.log) <= Len(k.log)
  BY DEF Extends
<1>3. \A i \in 1 .. Len(g.log) : i \in 1 .. Len(h.log)
  BY <1>1, <1>2
<1>4. \A i \in 0 .. Len(g.log) : i \in 0 .. Len(h.log)
  BY <1>1, <1>2
<1>5. Len(g.log) <= Len(k.log)
  BY <1>1, <1>2
<1>6. \A i \in 1 .. Len(g.log) : k.log[i] = g.log[i]
  BY <1>3 DEF Extends
<1>7. \A i \in 0 .. Len(g.log) : k.fields[i] = g.fields[i] /\ k.events[i] = g.events[i]
  BY <1>4 DEF Extends
<1>8. k.cut[0] = g.cut[0]
  BY DEF Extends
<1> QED BY <1>5, <1>6, <1>7, <1>8 DEF Extends

\* A session, and a log that says what it wrote.
Sound(s, em, g) == Coded(g, em) /\ Held(s, g) /\ Told(s, g)

\* MakeRoom keeps a session sound.
LEMMA RoomSound ==
  ASSUME NEW g, NEW s, NEW em, Sound(s, em, g), NEW size \in Nat
  PROVE  \E h : Sound(MakeRoom(s, size), em, h) /\ Extends(g, h) /\ h.log = g.log
<1>1. Laid(g) /\ Held(s, g) /\ Told(s, g) /\ Coded(g, em)
  BY DEF Sound, Coded
<1>2. PICK h : Held(MakeRoom(s, size), h) /\ SameLog(g, h)
  BY <1>1, RoomHolds
<1>3. MakeRoom(s, size).table = s.table
  BY <1>1, RoomHolds
<1>4. Extends(g, h) /\ Coded(h, em) /\ Told(s, h)
  BY <1>1, <1>2, SameLogFacts
<1>5. Told(MakeRoom(s, size), h)
  BY <1>3, <1>4 DEF Told
<1> QED BY <1>2, <1>4, <1>5 DEF Sound, SameLog

\* A session that differs in the table holds the same.
LEMMA HeldTable ==
  ASSUME NEW g, NEW s, Held(s, g), NEW bit \in {Bit(h) : h \in Handles}, NEW b,
         b = [s EXCEPT !.table = @ \cup {bit}]
  PROVE  Held(b, g) /\ b.table = s.table \cup {bit}
<1>1. s \in Sessions
  BY DEF Held
<1>2. /\ b \in Sessions /\ b.buffer = s.buffer /\ b.bufpos = s.bufpos /\ b.out = s.out
      /\ b.table = s.table \cup {bit}
  BY <1>1 DEF Sessions
<1> QED BY <1>2 DEF Held

\* WriteSessionString writes a string the table does not tell, and marks it.
LEMMA StringStep ==
  ASSUME NEW g, NEW s, NEW em, Sound(s, em, g), NEW id \in Handles
  PROVE  /\ \E h : Sound(WriteSessionString(s, id), em, h) /\ Extends(g, h)
         /\ Bit(id) \in WriteSessionString(s, id).table
         /\ s.table \subseteq WriteSessionString(s, id).table
<1> DEFINE ev == StringEvent(id)
           size == EncodeSize(ev)
           r == MakeRoom(s, size)
           past == [r EXCEPT !.out = Append(@, <<F(5, 1), F(id, 4), F(ev.size, 2), F(id, ev.size)>>)]
           w == IF size <= BufSize - r.bufpos THEN Put(r, ev) ELSE past
           b == [w EXCEPT !.table = @ \cup {Bit(id)}]
<1>1. CASE Bit(id) \in s.table
  <2>1. WriteSessionString(s, id) = s
    BY <1>1 DEF WriteSessionString
  <2>2. Extends(g, g)
    <3>1. SameLog(g, g) /\ Laid(g)
      BY DEF SameLog, Sound, Coded
    <3> QED BY <3>1, SameLogFacts
  <2> QED BY <1>1, <2>1, <2>2
<1>2. CASE Bit(id) \notin s.table
  <2>1. WriteSessionString(s, id) = IF w.error THEN w ELSE b
    BY <1>2 DEF WriteSessionString
  <2>2. ev \in Items /\ ev.type = "string" /\ ev.id = id
    BY StringItem
  <2>3. size \in Nat
    BY <2>2, SizeEncode
  <2>4. Encode(ev) = <<F(5, 1), F(id, 4), F(ev.size, 2), F(id, ev.size)>>
    BY <2>2 DEF Encode
  <2>5. Laid(g) /\ Held(s, g) /\ Told(s, g) /\ Coded(g, em)
    BY DEF Sound, Coded
  <2> HIDE DEF ev, size
  <2>6. PICK h : Sound(r, em, h) /\ Extends(g, h) /\ h.log = g.log
    BY <2>3, RoomSound
  <2>7. /\ size <= BufSize - r.bufpos \/ r.bufpos = 0
        /\ r.table = s.table
    BY <2>3, <2>5, RoomHolds
  <2> HIDE DEF r
  <2>8. Laid(h) /\ Held(r, h) /\ Told(r, h) /\ Coded(h, em)
    BY <2>6 DEF Sound, Coded
  <2> DEFINE k == Add(h, ev)
  <2>9. Laid(k) /\ Extends(h, k)
    BY <2>2, <2>8, AddFacts
  <2>10. Coded(k, em)
    BY <1>2, <2>7, <2>8, AddString DEF ev
  <2> HIDE DEF k
  <2>11. w.table = r.table /\ \E m : Held(w, m) /\ SameLog(k, m)
    <3>1. CASE size <= BufSize - r.bufpos
      <4>1. w = Put(r, ev)
        BY <3>1
      <4>2. Held(w, k) /\ w.table = r.table
        BY <2>2, <2>8, <3>1, <4>1, PutHolds DEF size, k
      <4>3. SameLog(k, k)
        BY DEF SameLog
      <4> QED BY <4>2, <4>3
    <3>2. CASE ~(size <= BufSize - r.bufpos)
      <4>1. w = past
        BY <3>2
      <4>2. w = [r EXCEPT !.out = Append(@, Encode(ev))]
        BY <2>4, <4>1
      <4>3. r.bufpos = 0
        BY <2>7, <3>2
      <4>4. w.table = r.table
        <5>1. r \in Sessions
          BY <2>8 DEF Held
        <5> QED BY <4>2, <5>1 DEF Sessions
      <4>5. \E m : Held(w, m) /\ SameLog(k, m)
        BY <2>2, <2>8, <4>2, <4>3, PastHolds DEF k
      <4> QED BY <4>4, <4>5
    <3> QED BY <3>1, <3>2
  <2> HIDE DEF w
  <2>12. PICK m : Held(w, m) /\ SameLog(k, m)
    BY <2>11
  <2>13. Held(b, m) /\ b.table = r.table \cup {Bit(id)}
    BY <2>11, <2>12, HeldTable
  <2> HIDE DEF b
  <2>14. Told(b, k)
    BY <2>2, <2>8, <2>13, AddTold DEF k
  <2>15. Coded(m, em) /\ Told(b, m) /\ Extends(k, m) /\ Laid(m)
    BY <2>9, <2>10, <2>12, <2>14, SameLogFacts
  <2>16. Extends(g, m)
    BY <2>5, <2>6, <2>8, <2>9, <2>15, ExtendsTransitive
  <2>17. Sound(b, em, m)
    BY <2>13, <2>15 DEF Sound
  <2>18. WriteSessionString(s, id) = b
    BY <2>1, <2>12 DEF Held, Sessions
  <2> QED BY <2>7, <2>13, <2>16, <2>17, <2>18
<1> QED BY <1>1, <1>2

\* The names of an event are handles.
LEMMA NamesHandles ==
  ASSUME NEW ev \in AllEvents
  PROVE  /\ ev.type \in {"region", "counter_set"}
              => ev.name \in Handles /\ ev.file \in Handles /\ Names(ev) = {ev.name, ev.file}
         /\ ev.type = "counter_add" => ev.name \in Handles /\ Names(ev) = {ev.name}
         /\ ev.type \notin {"region", "counter_set", "counter_add"} => Names(ev) = {}
BY DEF AllEvents, Names

\* WriteEvent writes the strings an event names and the event.
LEMMA EventStep ==
  ASSUME NEW g, NEW s, NEW em, Sound(s, em, g), NEW ev \in AllEvents
  PROVE  \E h : Sound(WriteSessionEvent(s, ev), Append(em, ev), h) /\ Extends(g, h)
<1> DEFINE two == WriteSessionString(WriteSessionString(s, ev.name), ev.file)
           named == WriteNames(s, ev)
           size == EncodeSize(ev)
           r == MakeRoom(named, size)
<1>1. ev \in Items /\ ev.type # "string"
  BY DEF Items, AllEvents
<1>2. size \in Nat /\ size <= BufSize
  BY <1>1, SizeEncode
<1>3. Laid(g)
  BY DEF Sound, Coded
<1>4. /\ \E h : Sound(named, em, h) /\ Extends(g, h)
      /\ \A m \in Names(ev) : Bit(m) \in named.table
  <2>1. CASE ev.type \in {"region", "counter_set"}
    <3>1. ev.name \in Handles /\ ev.file \in Handles /\ Names(ev) = {ev.name, ev.file}
      BY <2>1, NamesHandles
    <3> DEFINE one == WriteSessionString(s, ev.name)
    <3>3. PICK h : Sound(one, em, h) /\ Extends(g, h)
      BY <3>1, StringStep
    <3>2. named = two
      <4>1. ~one.error
        BY <3>3 DEF Sound, Held, Sessions
      <4> QED BY <2>1, <4>1 DEF WriteNames
    <3>4. Bit(ev.name) \in one.table
      BY <3>1, StringStep
    <3> HIDE DEF named
    <3>5. PICK k : Sound(two, em, k) /\ Extends(h, k)
      BY <3>1, <3>3, StringStep
    <3>6. Bit(ev.file) \in two.table /\ one.table \subseteq two.table
      BY <3>1, <3>3, StringStep
    <3>7. Extends(g, k)
      BY <1>3, <3>3, <3>5, ExtendsTransitive DEF Sound, Coded
    <3> HIDE DEF two, one
    <3> QED BY <3>1, <3>2, <3>4, <3>5, <3>6, <3>7
  <2>2. CASE ev.type = "counter_add"
    <3>1. ev.name \in Handles /\ Names(ev) = {ev.name}
      BY <2>2, NamesHandles
    <3>2. named = WriteSessionString(s, ev.name)
      BY <2>2 DEF WriteNames
    <3> HIDE DEF named
    <3>3. PICK h : Sound(named, em, h) /\ Extends(g, h)
      BY <3>1, <3>2, StringStep
    <3>4. Bit(ev.name) \in named.table
      BY <3>1, <3>2, StringStep
    <3> QED BY <3>1, <3>3, <3>4
  <2>3. CASE ev.type \notin {"region", "counter_set", "counter_add"}
    <3>1. named = s
      BY <2>3 DEF WriteNames
    <3>2. Names(ev) = {}
      BY <2>3, NamesHandles
    <3>3. Extends(g, g)
      <4>1. SameLog(g, g)
        BY DEF SameLog
      <4> QED BY <1>3, <4>1, SameLogFacts
    <3> HIDE DEF named
    <3> QED BY <3>1, <3>2, <3>3
  <2> QED BY <2>1, <2>2, <2>3
<1>6. PICK h : Sound(named, em, h) /\ Extends(g, h)
  BY <1>4
<1>5. WriteSessionEvent(s, ev) = Put(r, ev)
  <2>1. ~named.error
    BY <1>6 DEF Sound, Held, Sessions
  <2> QED BY <2>1 DEF WriteSessionEvent
<1> HIDE DEF named, size
<1>7. PICK k : Sound(r, em, k) /\ Extends(h, k) /\ k.log = h.log
  BY <1>2, <1>6, RoomSound
<1>8. /\ size <= BufSize - r.bufpos \/ r.bufpos = 0
      /\ r.table = named.table
  BY <1>2, <1>6, RoomHolds DEF Sound, Coded
<1> HIDE DEF r
<1>9. size <= BufSize - r.bufpos
  <2>1. BufSize - 0 = BufSize
    BY StreamAssumption
  <2> QED BY <1>2, <1>8, <2>1
<1>10. Laid(k) /\ Held(r, k) /\ Told(r, k) /\ Coded(k, em) /\ Laid(h)
  BY <1>6, <1>7 DEF Sound, Coded
<1> DEFINE z == Add(k, ev)
           b == Put(r, ev)
<1>11. Held(b, z) /\ b.table = r.table
  BY <1>1, <1>9, <1>10, PutHolds DEF size
<1>12. Laid(z) /\ Extends(k, z)
  BY <1>1, <1>10, AddFacts
<1>13. Coded(z, Append(em, ev))
  <2>1. ASSUME NEW m \in Names(ev)
        PROVE  \E i \in 1 .. Len(k.log) : k.log[i].type = "string" /\ Bit(k.log[i].id) = Bit(m)
    <3>1. Bit(m) \in r.table
      BY <1>4, <1>8
    <3> QED BY <1>10, <3>1 DEF Told
  <2> QED BY <1>10, <2>1, AddEvent
<1> HIDE DEF b
<1>14. Told(b, z)
  <2>1. b.table = r.table \cup (IF ev.type = "string" THEN {Bit(ev.id)} ELSE {})
    BY <1>1, <1>11
  <2> QED BY <1>1, <1>10, <2>1, AddTold
<1> HIDE DEF z
<1>15. Extends(g, z)
  <2>1. Extends(g, k)
    BY <1>3, <1>6, <1>7, <1>10, ExtendsTransitive
  <2> QED BY <1>3, <1>10, <1>12, <2>1, ExtendsTransitive
<1> QED BY <1>5, <1>11, <1>13, <1>14, <1>15 DEF Sound, b

-----------------------------------------------------------------------------
(* The viewer *)

\* The viewer has read the items up to r of the message msg, which begins after
\* m, and at is where the next one begins.
Reading(msg, at, g, m, r) ==
  /\ m \in Nat /\ r \in Nat /\ m <= r /\ r <= g.cut[0]
  /\ Piece(msg, g, m, g.cut[0])
  /\ at = Offset(msg)[(g.fields[r] - g.fields[m]) + 1]

\* It has seen the events up to there.
Saw(seen, em, g, r) ==
  /\ seen \in Seq(AllEvents) /\ Len(seen) = g.events[r] /\ Len(seen) <= Len(em)
  /\ \A i \in 1 .. Len(seen) : seen[i] = em[i]

\* What the viewer keeps of a string.
Learned == [id : Handles, string : Handles, size : Nat]

\* The strings up to there.
StringIds(g, r) == {g.log[i].id : i \in {k \in 1 .. r : g.log[k].type = "string"}}

\* It has learnt them.
Learnt(strs, g, r) ==
  /\ strs \in Seq(Learned)
  /\ {strs[i].id : i \in 1 .. Len(strs)} = StringIds(g, r)
  /\ \A i \in 1 .. Len(strs) : /\ strs[i].string = strs[i].id
                               /\ strs[i].size = StrLen[strs[i].id] % 65536
  /\ \A i \in 1 .. Len(strs), j \in 1 .. Len(strs) : Bit(strs[i].id) = Bit(strs[j].id) => i = j

\* It knows the names of what it has seen, as far as the table can tell.
Marked(seen, strs) ==
  \A i \in 1 .. Len(seen) : \A n \in Names(seen[i]) :
    \E j \in 1 .. Len(strs) : Bit(strs[j].id) = Bit(n)

\* The items of a piece are in it.
LEMMA PieceItem ==
  ASSUME NEW g, Laid(g), NEW data, NEW a, NEW b, Piece(data, g, a, b), NEW r \in a .. b
  PROVE  /\ g.fields[r] - g.fields[a] \in 0 .. Len(data)
         /\ r < b => /\ g.log[r + 1] \in Items
                     /\ (g.fields[r] - g.fields[a]) + Len(Encode(g.log[r + 1])) <= Len(data)
                     /\ g.fields[r + 1] - g.fields[a] = (g.fields[r] - g.fields[a]) + Len(Encode(g.log[r + 1]))
                     /\ \A k \in 1 .. Len(Encode(g.log[r + 1])) :
                          data[(g.fields[r] - g.fields[a]) + k] = Encode(g.log[r + 1])[k]
<1>1. /\ Len(g.log) \in Nat /\ a \in 0 .. Len(g.log) /\ b \in 0 .. Len(g.log) /\ r \in 0 .. Len(g.log)
      /\ a \in Nat /\ b \in Nat /\ r \in Nat /\ a <= r /\ r <= b
  BY DEF Piece, Laid
<1>2. g.fields[a] \in Nat /\ g.fields[b] \in Nat /\ g.fields[r] \in Nat
  BY <1>1 DEF Laid
<1>3. Len(data) = g.fields[b] - g.fields[a] /\ Len(data) \in Nat
  BY DEF Piece
<1>4. g.fields[r] >= g.fields[a] /\ g.fields[r] <= g.fields[b]
  <2>1. CASE r = a
    BY <1>2, <1>3, <2>1
  <2>2. CASE r # a
    <3>1. r \in a + 1 .. b /\ r \in 1 .. Len(g.log) /\ r - 1 \in 0 .. Len(g.log)
      BY <1>1, <2>2
    <3>2. g.fields[r - 1] >= g.fields[a] /\ g.fields[r] <= g.fields[b]
      BY <3>1 DEF Piece
    <3>3. g.fields[r] = g.fields[r - 1] + Len(Encode(g.log[r])) /\ g.fields[r - 1] \in Nat
          /\ g.log[r] \in Items
      BY <3>1 DEF Laid
    <3>4. Len(Encode(g.log[r])) \in Nat
      BY <3>3, EncodeFields
    <3> QED BY <1>2, <3>2, <3>3, <3>4
  <2> QED BY <2>1, <2>2
<1>5. g.fields[r] - g.fields[a] \in 0 .. Len(data)
  BY <1>2, <1>3, <1>4
<1>6. ASSUME r < b
      PROVE  /\ g.log[r + 1] \in Items
             /\ (g.fields[r] - g.fields[a]) + Len(Encode(g.log[r + 1])) <= Len(data)
             /\ g.fields[r + 1] - g.fields[a] = (g.fields[r] - g.fields[a]) + Len(Encode(g.log[r + 1]))
             /\ \A k \in 1 .. Len(Encode(g.log[r + 1])) :
                  data[(g.fields[r] - g.fields[a]) + k] = Encode(g.log[r + 1])[k]
  <2>1. r + 1 \in a + 1 .. b /\ r + 1 \in 1 .. Len(g.log) /\ r + 1 \in 0 .. Len(g.log) /\ (r + 1) - 1 = r
    BY <1>1, <1>6
  <2>2. /\ g.fields[r + 1] <= g.fields[b]
        /\ \A k \in 1 .. Len(Encode(g.log[r + 1])) :
             data[(g.fields[(r + 1) - 1] - g.fields[a]) + k] = Encode(g.log[r + 1])[k]
    BY <2>1 DEF Piece
  <2>3. g.fields[r + 1] = g.fields[r] + Len(Encode(g.log[r + 1])) /\ g.fields[r + 1] \in Nat
        /\ g.log[r + 1] \in Items
    <3>1. \A i \in 1 .. Len(g.log) : g.fields[i] = g.fields[i - 1] + Len(Encode(g.log[i]))
      BY DEF Laid
    <3>2. g.fields[r + 1] = g.fields[(r + 1) - 1] + Len(Encode(g.log[r + 1]))
      BY <2>1, <3>1
    <3>3. g.log[r + 1] \in Items
      BY <2>1 DEF Laid
    <3>4. g.fields[r + 1] \in Nat
      BY <2>1 DEF Laid
    <3> QED BY <2>1, <3>2, <3>3, <3>4
  <2>4. Len(Encode(g.log[r + 1])) \in Nat
    BY <2>3, EncodeFields
  <2>5. \A x, y, z, u \in Nat : z = x + u /\ z <= y
          => \A c \in Nat : (x - c) + u <= y - c /\ z - c = (x - c) + u
    OBVIOUS
  <2>6. /\ (g.fields[r] - g.fields[a]) + Len(Encode(g.log[r + 1])) <= g.fields[b] - g.fields[a]
        /\ g.fields[r + 1] - g.fields[a] = (g.fields[r] - g.fields[a]) + Len(Encode(g.log[r + 1]))
    <3>1. g.fields[r + 1] <= g.fields[b]
      BY <2>2
    <3> QED BY <1>2, <2>3, <2>4, <2>5, <3>1
  <2> QED BY <1>3, <2>1, <2>2, <2>3, <2>6
<1> QED BY <1>5, <1>6

\* The viewer is at the end of a message exactly when it has read all of it.
LEMMA ReadingPlace ==
  ASSUME NEW g, Laid(g), NEW msg, NEW at, NEW m, NEW r, Reading(msg, at, g, m, r)
  PROVE  /\ at \in Nat /\ Size(msg) \in Nat /\ at <= Size(msg)
         /\ r = g.cut[0] => at >= Size(msg)
         /\ r # g.cut[0] => ~(at >= Size(msg))
<1> DEFINE b == g.cut[0]
           p == g.fields[r] - g.fields[m]
<1>1. /\ m \in Nat /\ b \in Nat /\ r \in m .. b /\ Piece(msg, g, m, b) /\ at = Offset(msg)[p + 1]
      /\ msg \in Seq(Field) /\ Dense(msg) /\ Len(msg) = g.fields[b] - g.fields[m]
  BY DEF Reading, Piece
<1>2. p \in 0 .. Len(msg) /\ Len(msg) \in Nat
  BY <1>1, PieceItem
<1>3. Offsets(Offset(msg), msg)
  BY <1>1, OffsetOf
<1> HIDE DEF b
<1>4. p + 1 \in 1 .. Len(msg) + 1 /\ Len(msg) + 1 \in 1 .. Len(msg) + 1 /\ p + 1 <= Len(msg) + 1
  BY <1>2
<1>5. at \in Nat /\ Size(msg) \in Nat
  BY <1>1, <1>3, <1>4 DEF Offsets, Size
<1>6. at <= Size(msg)
  BY <1>1, <1>3, <1>4, OffsetsGrow DEF Size
<1>7. ASSUME r = b PROVE at >= Size(msg)
  <2>1. p + 1 = Len(msg) + 1
    BY <1>1, <1>7
  <2> QED BY <1>1, <1>5, <2>1 DEF Size
<1>8. ASSUME r # b PROVE ~(at >= Size(msg))
  <2>1. r < b
    BY <1>1, <1>8
  <2>2. /\ g.log[r + 1] \in Items /\ p + Len(Encode(g.log[r + 1])) <= Len(msg)
        /\ \A k \in 1 .. Len(Encode(g.log[r + 1])) : msg[p + k] = Encode(g.log[r + 1])[k]
    BY <1>1, <2>1, PieceItem
  <2> HIDE DEF p
  <2>3. p \in Nat
    BY <1>2
  <2> DEFINE n == Len(Encode(g.log[r + 1]))
             z == EncodeSize(g.log[r + 1])
  <2>4. Offset(msg)[p + n + 1] = at + z
    BY <1>1, <2>2, <2>3, ReadItem
  <2>5. z \in Nat /\ z > 0 /\ n \in Nat
    BY <2>2, EncodeFields, SizeEncode
  <2> HIDE DEF n, z
  <2>6. p + n + 1 \in 1 .. Len(msg) + 1 /\ p + n + 1 <= Len(msg) + 1
    <3>1. p + n <= Len(msg)
      BY <2>2 DEF n
    <3> QED BY <1>2, <2>3, <2>5, <3>1
  <2>7. Offset(msg)[p + n + 1] <= Size(msg)
    BY <1>1, <1>3, <1>4, <2>6, OffsetsGrow DEF Size
  <2> QED BY <1>5, <2>4, <2>5, <2>7
<1> QED BY <1>5, <1>6, <1>7, <1>8 DEF b

\* What the viewer has read stays true when the session writes.
LEMMA ViewStays ==
  ASSUME NEW g, NEW h, Laid(g), Laid(h), Extends(g, h), NEW msg, NEW at, NEW m, NEW r,
         Reading(msg, at, g, m, r)
  PROVE  /\ Reading(msg, at, h, m, r)
         /\ \A strs : Learnt(strs, g, r) => Learnt(strs, h, r)
         /\ \A seen, em : Saw(seen, em, g, r) => Saw(seen, em, h, r)
<1>1. /\ m \in Nat /\ r \in Nat /\ m <= r /\ r <= g.cut[0] /\ h.cut[0] = g.cut[0]
      /\ g.cut[0] \in 0 .. Len(g.log) /\ Len(g.log) \in Nat
  BY DEF Reading, Piece, Laid, Extends
<1>2. r \in 0 .. Len(g.log) /\ m \in 0 .. Len(g.log) /\ \A k \in 1 .. r : k \in 1 .. Len(g.log)
  BY <1>1
<1>3. /\ h.fields[r] = g.fields[r] /\ h.fields[m] = g.fields[m] /\ h.events[r] = g.events[r]
      /\ \A k \in 1 .. r : h.log[k] = g.log[k]
  BY <1>2 DEF Extends
<1>4. Piece(msg, h, m, g.cut[0])
  BY PieceStays DEF Reading
<1>5. Reading(msg, at, h, m, r)
  BY <1>1, <1>3, <1>4 DEF Reading
<1>6. ASSUME NEW strs, Learnt(strs, g, r) PROVE Learnt(strs, h, r)
  <2>1. StringIds(h, r) = StringIds(g, r)
    BY <1>3 DEF StringIds
  <2> QED BY <1>6, <2>1 DEF Learnt
<1>7. ASSUME NEW seen, NEW em, Saw(seen, em, g, r) PROVE Saw(seen, em, h, r)
  BY <1>3, <1>7 DEF Saw
<1> QED BY <1>5, <1>6, <1>7

\* What an item can be.
LEMMA ItemKinds ==
  ASSUME NEW x \in Items
  PROVE  /\ x.type # "unknown"
         /\ x.type # "string" => x \in AllEvents /\ Seen(x) = x
         /\ x.type = "string" => Seen(x) = [type |-> "string", id |-> x.id, size |-> x.size, string |-> x.id]
                                 /\ x.size \in Nat
BY DEF Items, AllEvents, Seen

\* The viewer reads a string: one it has not read before.
LEMMA LearnString ==
  ASSUME NEW g, NEW em, Coded(g, em), NEW r \in Nat, r + 1 \in 1 .. Len(g.log),
         g.log[r + 1].type = "string", NEW strs, Learnt(strs, g, r), NEW new,
         new = [id |-> g.log[r + 1].id, string |-> g.log[r + 1].id, size |-> g.log[r + 1].size]
  PROVE  Learnt(Append(strs, new), g, r + 1)
<1> DEFINE x == g.log[r + 1]
           n == Len(strs)
           more == Append(strs, new)
<1>0. Laid(g) /\ StringsOnce(g) /\ Len(g.log) \in Nat
  <2>1. Laid(g) /\ StringsOnce(g)
    BY DEF Coded
  <2>2. g.log \in Seq(Items)
    BY <2>1 DEF Laid
  <2> QED BY <2>1, <2>2
<1>1. x.id \in Handles /\ x = StringEvent(x.id)
  BY <1>0 DEF StringsOnce
<1>2. x.size = StrLen[x.id] % 65536 /\ x.size \in Nat
  <2>1. StringEvent(x.id).size = StrLen[x.id] % 65536
    BY DEF StringEvent
  <2>2. StrLen[x.id] \in Nat
    BY <1>1, StreamAssumption
  <2> HIDE DEF x
  <2> QED BY <1>1, <2>1, <2>2
<1>3. /\ new \in Learned
      /\ new.id = x.id /\ new.string = new.id /\ new.size = StrLen[new.id] % 65536
  BY <1>1, <1>2 DEF Learned
<1>4. strs \in Seq(Learned)
  BY DEF Learnt
<1>5. /\ more \in Seq(Learned) /\ n \in Nat
      /\ Len(more) = n + 1 /\ more[n + 1] = new /\ \A i \in 1 .. n : more[i] = strs[i]
  BY <1>3, <1>4
<1>6. \A i \in 1 .. n + 1 : i = n + 1 \/ i \in 1 .. n
  BY <1>5
<1>7. \A id \in StringIds(g, r) : Bit(id) # Bit(x.id)
  <2> SUFFICES ASSUME NEW k \in 1 .. r, g.log[k].type = "string", Bit(g.log[k].id) = Bit(x.id)
               PROVE  FALSE
    BY DEF StringIds
  <2>1. k \in 1 .. Len(g.log) /\ k < r + 1
    BY <1>0
  <2> QED BY <1>0, <2>1 DEF StringsOnce
<1>8. StringIds(g, r + 1) = StringIds(g, r) \cup {x.id}
  <2>1. \A i \in 1 .. r + 1 : i = r + 1 \/ i \in 1 .. r
    OBVIOUS
  <2>2. r + 1 \in 1 .. r + 1 /\ \A i \in 1 .. r : i \in 1 .. r + 1
    OBVIOUS
  <2>3. ASSUME NEW y \in StringIds(g, r + 1) PROVE y \in StringIds(g, r) \cup {x.id}
    BY <2>1 DEF StringIds
  <2>4. ASSUME NEW y \in StringIds(g, r) PROVE y \in StringIds(g, r + 1)
    BY <2>2 DEF StringIds
  <2>5. x.id \in StringIds(g, r + 1)
    BY <2>2 DEF StringIds
  <2> QED BY <2>3, <2>4, <2>5
<1> HIDE DEF x, more
<1>9. {more[i].id : i \in 1 .. n + 1} = StringIds(g, r + 1)
  <2>1. {strs[i].id : i \in 1 .. n} = StringIds(g, r)
    BY DEF Learnt
  <2>2. ASSUME NEW i \in 1 .. n + 1 PROVE more[i].id \in StringIds(g, r) \cup {x.id}
    <3>1. CASE i = n + 1
      BY <1>3, <1>5, <3>1
    <3>2. CASE i \in 1 .. n
      <4>1. strs[i].id \in {strs[j].id : j \in 1 .. n}
        BY <3>2
      <4> QED BY <1>5, <2>1, <3>2, <4>1
    <3> QED BY <1>6, <3>1, <3>2
  <2>3. ASSUME NEW y \in StringIds(g, r) PROVE y \in {more[i].id : i \in 1 .. n + 1}
    <3>1. PICK i \in 1 .. n : y = strs[i].id
      BY <2>1
    <3>2. i \in 1 .. n + 1 /\ more[i] = strs[i]
      BY <1>5
    <3> QED BY <3>1, <3>2
  <2>4. x.id \in {more[i].id : i \in 1 .. n + 1}
    <3>1. n + 1 \in 1 .. n + 1 /\ more[n + 1].id = x.id
      BY <1>3, <1>5
    <3> QED BY <3>1
  <2> QED BY <1>8, <2>2, <2>3, <2>4
<1>10. ASSUME NEW i \in 1 .. n + 1
       PROVE  more[i].string = more[i].id /\ more[i].size = StrLen[more[i].id] % 65536
  <2>1. CASE i = n + 1
    BY <1>3, <1>5, <2>1
  <2>2. CASE i \in 1 .. n
    <3>1. strs[i].string = strs[i].id /\ strs[i].size = StrLen[strs[i].id] % 65536
      BY <2>2 DEF Learnt
    <3> QED BY <1>5, <2>2, <3>1
  <2> QED BY <1>6, <2>1, <2>2
<1>11. ASSUME NEW i \in 1 .. n PROVE Bit(more[i].id) # Bit(x.id)
  <2>1. strs[i].id \in StringIds(g, r)
    <3>1. strs[i].id \in {strs[j].id : j \in 1 .. n}
      OBVIOUS
    <3> QED BY <3>1 DEF Learnt
  <2> QED BY <1>5, <1>7, <2>1
<1>12. ASSUME NEW i \in 1 .. n + 1, NEW j \in 1 .. n + 1, Bit(more[i].id) = Bit(more[j].id)
       PROVE  i = j
  <2>1. CASE i \in 1 .. n /\ j \in 1 .. n
    <3>1. Bit(strs[i].id) = Bit(strs[j].id)
      BY <1>5, <1>12, <2>1
    <3> QED BY <2>1, <3>1 DEF Learnt
  <2>2. CASE i \in 1 .. n /\ j = n + 1
    BY <1>3, <1>5, <1>11, <1>12, <2>2
  <2>3. CASE i = n + 1 /\ j \in 1 .. n
    BY <1>3, <1>5, <1>11, <1>12, <2>3
  <2> QED BY <1>6, <2>1, <2>2, <2>3
<1> QED BY <1>5, <1>9, <1>10, <1>12 DEF Learnt, more

\* The viewer reads an event: the next one that was emitted.
LEMMA SeeEvent ==
  ASSUME NEW g, NEW em, Coded(g, em), NEW r \in Nat, r + 1 \in 1 .. Len(g.log),
         g.log[r + 1].type # "string", NEW strs, Learnt(strs, g, r),
         NEW seen, Saw(seen, em, g, r), Marked(seen, strs)
  PROVE  /\ Learnt(strs, g, r + 1)
         /\ Saw(Append(seen, g.log[r + 1]), em, g, r + 1)
         /\ Marked(Append(seen, g.log[r + 1]), strs)
<1> DEFINE x == g.log[r + 1]
           more == Append(seen, x)
           n == Len(seen)
<1>1. Laid(g) /\ Emitted(g, em) /\ NamesBefore(g) /\ x \in Items
  <2>1. Laid(g) /\ Emitted(g, em) /\ NamesBefore(g)
    BY DEF Coded
  <2>2. g.log \in Seq(Items)
    BY <2>1 DEF Laid
  <2> QED BY <2>1, <2>2
<1>2. x \in AllEvents
  BY <1>1, ItemKinds
<1>3. /\ g.events[r + 1] = g.events[r] + 1 /\ g.events[r + 1] \in 1 .. Len(em)
      /\ em[g.events[r + 1]] = x
  <2>1. (r + 1) - 1 = r
    OBVIOUS
  <2>2. g.events[r + 1] = g.events[(r + 1) - 1] + 1
    BY <1>1 DEF Emitted
  <2>3. g.events[r + 1] \in 1 .. Len(em) /\ em[g.events[r + 1]] = x
    BY <1>1 DEF Emitted
  <2> QED BY <2>1, <2>2, <2>3
<1>4. /\ seen \in Seq(AllEvents) /\ n = g.events[r] /\ \A i \in 1 .. n : seen[i] = em[i]
  BY DEF Saw
<1>5. /\ more \in Seq(AllEvents) /\ n \in Nat /\ Len(more) = n + 1 /\ more[n + 1] = x
      /\ \A i \in 1 .. n : more[i] = seen[i]
  BY <1>2, <1>4
<1> HIDE DEF more, x
<1>6. \A i \in 1 .. n + 1 : i = n + 1 \/ i \in 1 .. n
  BY <1>5
<1>7. Saw(more, em, g, r + 1)
  <2>1. Len(more) = g.events[r + 1] /\ em[n + 1] = x
    BY <1>3, <1>4, <1>5
  <2>2. Len(more) <= Len(em)
    <3>1. em \in Seq(AllEvents)
      BY <1>1 DEF Emitted
    <3>2. Len(em) \in Nat
      BY <3>1
    <3> QED BY <1>3, <2>1, <3>2
  <2>3. \A i \in 1 .. n + 1 : more[i] = em[i]
    BY <1>4, <1>5, <1>6, <2>1
  <2> QED BY <1>5, <2>1, <2>2, <2>3 DEF Saw
<1>8. StringIds(g, r + 1) = StringIds(g, r)
  <2>1. \A i \in 1 .. r + 1 : i = r + 1 \/ i \in 1 .. r
    OBVIOUS
  <2>2. \A i \in 1 .. r : i \in 1 .. r + 1
    OBVIOUS
  <2> QED BY <2>1, <2>2 DEF StringIds
<1>9. Learnt(strs, g, r + 1)
  BY <1>8 DEF Learnt
<1>10. Marked(more, strs)
  <2> SUFFICES ASSUME NEW i \in 1 .. n + 1, NEW m \in Names(more[i])
               PROVE  \E j \in 1 .. Len(strs) : Bit(strs[j].id) = Bit(m)
    BY <1>5 DEF Marked
  <2>1. CASE i = n + 1
    <3>1. m \in Names(x)
      BY <1>5, <2>1
    <3>2. (r + 1) - 1 = r
      OBVIOUS
    <3>3. PICK k \in 1 .. r : g.log[k].type = "string" /\ Bit(g.log[k].id) = Bit(m)
      BY <1>1, <3>1, <3>2 DEF NamesBefore, x
    <3>4. g.log[k].id \in StringIds(g, r)
      BY <3>3 DEF StringIds
    <3>5. {strs[j].id : j \in 1 .. Len(strs)} = StringIds(g, r)
      BY DEF Learnt
    <3>6. PICK j \in 1 .. Len(strs) : strs[j].id = g.log[k].id
      BY <3>4, <3>5
    <3> QED BY <3>3, <3>6
  <2>2. CASE i \in 1 .. n
    BY <1>5, <2>2 DEF Marked
  <2> QED BY <1>6, <2>1, <2>2
<1> QED BY <1>7, <1>9, <1>10 DEF more, x

\* More strings do not make a name unknown.
LEMMA MarkedMore ==
  ASSUME NEW seen, NEW S, NEW strs \in Seq(S), NEW new, Marked(seen, strs)
  PROVE  Marked(seen, Append(strs, new))
<1>1. /\ Len(strs) \in Nat /\ Len(Append(strs, new)) = Len(strs) + 1
      /\ \A j \in 1 .. Len(strs) : Append(strs, new)[j] = strs[j]
  OBVIOUS
<1> SUFFICES ASSUME NEW i \in 1 .. Len(seen), NEW n \in Names(seen[i])
             PROVE  \E j \in 1 .. Len(Append(strs, new)) : Bit(Append(strs, new)[j].id) = Bit(n)
  BY DEF Marked
<1>2. PICK j \in 1 .. Len(strs) : Bit(strs[j].id) = Bit(n)
  BY DEF Marked
<1>3. j \in 1 .. Len(Append(strs, new))
  BY <1>1
<1> QED BY <1>1, <1>2, <1>3

\* One round of onmessage: the viewer reads the next item of the log.
LEMMA ReadStep ==
  ASSUME NEW g, NEW em, Coded(g, em), NEW msg, NEW at, NEW m, NEW r, Reading(msg, at, g, m, r),
         ~(at >= Size(msg)), NEW read, read = ReadEvent(msg, at)
  PROVE  /\ r + 1 \in 1 .. Len(g.log) /\ r \in Nat
         /\ Reading(msg, read.next, g, m, r + 1)
         /\ read.event = Seen(g.log[r + 1])
<1> DEFINE b == g.cut[0]
           p == g.fields[r] - g.fields[m]
           x == g.log[r + 1]
<1>0. Laid(g)
  BY DEF Coded
<1>1. r # b
  BY <1>0, ReadingPlace
<1>2. /\ m \in Nat /\ r \in Nat /\ m <= r /\ r <= b /\ Piece(msg, g, m, b) /\ at = Offset(msg)[p + 1]
      /\ msg \in Seq(Field) /\ Dense(msg) /\ b \in 0 .. Len(g.log)
  BY DEF Reading, Piece
<1>3. Len(g.log) \in Nat /\ b \in Nat
  <2>1. g.log \in Seq(Items)
    BY <1>0 DEF Laid
  <2> QED BY <1>2, <2>1
<1>4. r \in m .. b /\ r < b /\ r + 1 \in Nat /\ r + 1 \in 1 .. Len(g.log) /\ m <= r + 1 /\ r + 1 <= b
  BY <1>1, <1>2, <1>3
<1>5. /\ x \in Items /\ p + Len(Encode(x)) <= Len(msg) /\ p \in 0 .. Len(msg)
      /\ g.fields[r + 1] - g.fields[m] = p + Len(Encode(x))
      /\ \A k \in 1 .. Len(Encode(x)) : msg[p + k] = Encode(x)[k]
  <2>1. p \in 0 .. Len(msg)
    BY <1>0, <1>2, <1>4, PieceItem
  <2>2. /\ x \in Items /\ p + Len(Encode(x)) <= Len(msg)
        /\ g.fields[r + 1] - g.fields[m] = p + Len(Encode(x))
        /\ \A k \in 1 .. Len(Encode(x)) : msg[p + k] = Encode(x)[k]
    <3>1. Laid(g) /\ Piece(msg, g, m, b) /\ r \in m .. b /\ r < b
      BY <1>0, <1>2, <1>4
    <3> HIDE DEF b
    <3>2. g.fields[r + 1] - g.fields[m] = p + Len(Encode(x))
      BY <3>1, PieceItem
    <3>3. /\ x \in Items /\ p + Len(Encode(x)) <= Len(msg)
          /\ \A k \in 1 .. Len(Encode(x)) : msg[p + k] = Encode(x)[k]
      BY <3>1, PieceItem
    <3> QED BY <3>2, <3>3
  <2> QED BY <2>1, <2>2
<1> HIDE DEF p, x, b
<1>6. p \in Nat
  BY <1>5
<1>7. read.next = Offset(msg)[p + Len(Encode(x)) + 1] /\ read.event = Seen(x)
  BY <1>2, <1>5, <1>6, ReadItem
<1>8. Reading(msg, read.next, g, m, r + 1)
  <2>1. read.next = Offset(msg)[(g.fields[r + 1] - g.fields[m]) + 1]
    BY <1>5, <1>7
  <2> QED BY <1>2, <1>4, <2>1 DEF Reading, b
<1> QED BY <1>2, <1>4, <1>7, <1>8 DEF x

\* A message leaves the session; the rest of the log is as it was.
LEMMA ReceiveStep ==
  ASSUME NEW g, NEW s, NEW em, Sound(s, em, g), s.out # << >>, NEW b,
         b = [s EXCEPT !.out = Tail(@)]
  PROVE  \E h : /\ Sound(b, em, h) /\ h.log = g.log /\ h.fields = g.fields /\ h.events = g.events
                /\ Piece(Head(s.out), h, g.cut[0], h.cut[0])
<1> DEFINE n == Len(s.out)
           cut == [j \in 0 .. n - 1 |-> g.cut[j + 1]]
           h == [log |-> g.log, fields |-> g.fields, events |-> g.events, cut |-> cut]
<1>1. Coded(g, em) /\ Held(s, g) /\ Told(s, g)
  BY DEF Sound
<1>2. s \in Sessions /\ s.out \in Seq(Seq(Field)) /\ g.cut \in [0 .. n -> Nat] /\ s.bufpos <= BufSize
      /\ s.bufpos = Size(s.buffer)
  BY <1>1 DEF Held, Sessions
<1>3. n \in Nat /\ n - 1 \in Nat /\ Head(s.out) = s.out[1]
      /\ Tail(s.out) \in Seq(Seq(Field)) /\ Len(Tail(s.out)) = n - 1
      /\ \A j \in 1 .. n - 1 : Tail(s.out)[j] = s.out[j + 1]
  <2>1. n \in Nat /\ n # 0
    BY <1>2
  <2>2. n - 1 \in Nat
    BY <2>1
  <2>3. Tail(s.out) \in Seq(Seq(Field)) /\ Len(Tail(s.out)) = n - 1 /\ Head(s.out) = s.out[1]
    BY <1>2
  <2>4. \A j \in 1 .. n - 1 : Tail(s.out)[j] = s.out[j + 1]
    BY <1>2
  <2> QED BY <2>1, <2>2, <2>3, <2>4
<1>4. /\ b \in Sessions /\ b.out = Tail(s.out) /\ b.buffer = s.buffer /\ b.bufpos = s.bufpos
      /\ b.table = s.table
  BY <1>2, <1>3 DEF Sessions
<1>5. h.log = g.log /\ h.fields = g.fields /\ h.events = g.events /\ h.cut = cut
  OBVIOUS
<1>6. cut \in [0 .. n - 1 -> Nat] /\ cut[0] = g.cut[1] /\ cut[n - 1] = g.cut[n]
      /\ \A j \in 1 .. n - 1 : cut[j] = g.cut[j + 1] /\ cut[j - 1] = g.cut[j]
  <2>1. \A j \in 0 .. n - 1 : j + 1 \in 0 .. n
    BY <1>3
  <2>2. 0 \in 0 .. n - 1 /\ 0 + 1 = 1 /\ n - 1 \in 0 .. n - 1 /\ (n - 1) + 1 = n
    BY <1>3
  <2>3. \A j \in 1 .. n - 1 : j \in 0 .. n - 1 /\ j - 1 \in 0 .. n - 1 /\ (j - 1) + 1 = j
    BY <1>3
  <2>4. \A j \in 0 .. n - 1 : cut[j] = g.cut[j + 1]
    OBVIOUS
  <2>5. cut \in [0 .. n - 1 -> Nat]
    BY <1>2, <2>1
  <2> HIDE DEF cut
  <2> QED BY <2>2, <2>3, <2>4, <2>5
<1> HIDE DEF h, cut
<1>7. \A d, x, y : Piece(d, g, x, y) => Piece(d, h, x, y)
  BY <1>5 DEF Piece
<1>8. Coded(h, em)
  <2>1. Laid(h)
    BY <1>1, <1>5 DEF Coded, Laid
  <2>2. Emitted(h, em)
    BY <1>1, <1>5 DEF Coded, Emitted
  <2>3. StringsOnce(h)
    BY <1>1, <1>5 DEF Coded, StringsOnce
  <2>4. NamesBefore(h)
    BY <1>1, <1>5 DEF Coded, NamesBefore
  <2> QED BY <2>1, <2>2, <2>3, <2>4 DEF Coded
<1>9. Told(b, h)
  BY <1>1, <1>4, <1>5 DEF Told
<1>10. Held(b, h)
  <2>1. b.bufpos = Size(b.buffer) /\ b.bufpos <= BufSize
    BY <1>2, <1>4
  <2>2. b.bufpos = 0 => h.cut[Len(b.out)] = Len(h.log)
    BY <1>1, <1>3, <1>4, <1>5, <1>6 DEF Held
  <2>3. h.cut \in [0 .. Len(b.out) -> Nat]
    BY <1>3, <1>4, <1>5, <1>6
  <2>4. ASSUME NEW j \in 1 .. n - 1 PROVE Piece(b.out[j], h, h.cut[j - 1], h.cut[j])
    <3>1. j + 1 \in 1 .. n /\ (j + 1) - 1 = j
      BY <1>3
    <3>2. Piece(s.out[j + 1], g, g.cut[(j + 1) - 1], g.cut[j + 1])
      BY <1>1, <3>1 DEF Held
    <3>3. Piece(s.out[j + 1], h, g.cut[j], g.cut[j + 1])
      BY <1>7, <3>1, <3>2
    <3> QED BY <1>3, <1>4, <1>5, <1>6, <3>3
  <2>5. Piece(b.buffer, h, h.cut[Len(b.out)], Len(h.log))
    <3>1. Piece(s.buffer, g, g.cut[n], Len(g.log))
      BY <1>1 DEF Held
    <3>2. Piece(s.buffer, h, g.cut[n], Len(g.log))
      BY <1>7, <3>1
    <3> QED BY <1>3, <1>4, <1>5, <1>6, <3>2
  <2>6. \A j \in 1 .. Len(b.out) : Piece(b.out[j], h, h.cut[j - 1], h.cut[j])
    BY <1>3, <1>4, <2>4
  <2> QED BY <1>4, <2>1, <2>2, <2>3, <2>5, <2>6 DEF Held
<1>11. Piece(Head(s.out), h, g.cut[0], h.cut[0])
  <2>1. 1 \in 1 .. n /\ 1 - 1 = 0
    BY <1>3
  <2>2. Piece(s.out[1], g, g.cut[1 - 1], g.cut[1])
    BY <1>1, <2>1 DEF Held
  <2>3. Piece(s.out[1], h, g.cut[0], g.cut[1])
    BY <1>7, <2>1, <2>2
  <2> QED BY <1>3, <1>5, <1>6, <2>3
<1> QED BY <1>5, <1>8, <1>9, <1>10, <1>11 DEF Sound

-----------------------------------------------------------------------------
(* The inductive invariant *)

\* The session has written a log, and the viewer has read it up to an item.
Inv ==
  /\ failed = FALSE /\ Marked(got, strings)
  /\ \E g, m, r : /\ Sound(session, emitted, g)
                  /\ Reading(message, pos, g, m, r)
                  /\ Saw(got, emitted, g, r)
                  /\ Learnt(strings, g, r)

\* At first the log is empty.
LEMMA InitInv == Init => Inv
<1> SUFFICES ASSUME Init PROVE Inv
  OBVIOUS
<1> DEFINE zero == [i \in 0 .. 0 |-> 0]
           g == [log |-> << >>, fields |-> zero, events |-> zero, cut |-> zero]
<1>1. zero \in [0 .. 0 -> Nat] /\ zero[0] = 0 /\ 0 \in 0 .. 0
  OBVIOUS
<1>2. /\ g.log = << >> /\ Len(g.log) = 0 /\ g.log \in Seq(Items) /\ 1 .. 0 = {}
      /\ g.fields = zero /\ g.events = zero /\ g.cut = zero
  OBVIOUS
<1> HIDE DEF zero, g
<1>3. Laid(g)
  BY <1>1, <1>2 DEF Laid
<1>4. Coded(g, << >>)
  <2>1. Emitted(g, << >>)
    <3>1. << >> \in Seq(AllEvents) /\ Len(<< >>) = 0
      OBVIOUS
    <3> QED BY <1>1, <1>2, <3>1 DEF Emitted
  <2>2. StringsOnce(g)
    BY <1>2 DEF StringsOnce
  <2>3. NamesBefore(g)
    BY <1>2 DEF NamesBefore
  <2> QED BY <1>3, <2>1, <2>2, <2>3 DEF Coded
<1>5. Piece(<< >>, g, 0, 0)
  <2>1. 0 \in 0 .. Len(g.log)
    BY <1>2
  <2> QED BY <1>3, <2>1, PieceEmpty
<1>6. session = [buffer |-> << >>, bufpos |-> 0, table |-> {}, out |-> << >>, error |-> FALSE]
  BY DEF Init
<1>7. /\ session.buffer = << >> /\ session.bufpos = 0 /\ session.table = {} /\ session.out = << >>
      /\ Len(session.out) = 0 /\ session \in Sessions
  <2>1. << >> \in Seq(Field) /\ << >> \in Seq(Seq(Field)) /\ Len(<< >>) = 0 /\ 0 \in Nat
    OBVIOUS
  <2> QED BY <1>6, <2>1 DEF Sessions
<1>8. Held(session, g)
  <2>1. 0 <= BufSize
    BY StreamAssumption
  <2> QED BY <1>1, <1>2, <1>5, <1>7, <2>1, SizeEmpty DEF Held
<1>9. Told(session, g)
  BY <1>2, <1>7 DEF Told
<1>10. Sound(session, emitted, g)
  BY <1>4, <1>8, <1>9 DEF Sound, Init
<1>11. Reading(message, pos, g, 0, 0)
  <2>1. << >> \in Seq(Field)
    OBVIOUS
  <2>2. Offset(<< >>)[1] = 0
    BY <2>1, OffsetOf DEF Offsets
  <2>3. (0 - 0) + 1 = 1 /\ 0 <= 0 /\ 0 \in Nat
    OBVIOUS
  <2>4. Offset(<< >>)[(g.fields[0] - g.fields[0]) + 1] = 0
    BY <1>1, <1>2, <2>2, <2>3
  <2> QED BY <1>1, <1>2, <1>5, <2>3, <2>4 DEF Reading, Init
<1>12. Saw(got, emitted, g, 0)
  <2>1. got = << >> /\ emitted = << >> /\ << >> \in Seq(AllEvents) /\ Len(<< >>) = 0 /\ 1 .. 0 = {}
        /\ 0 <= 0
    BY DEF Init
  <2> QED BY <1>1, <1>2, <2>1 DEF Saw
<1>13. Learnt(strings, g, 0)
  <2>1. strings = << >> /\ << >> \in Seq(Learned)
        /\ Len(<< >>) = 0 /\ 1 .. 0 = {}
    BY DEF Init
  <2>2. StringIds(g, 0) = {}
    BY <2>1 DEF StringIds
  <2> QED BY <2>1, <2>2 DEF Learnt
<1>14. failed = FALSE /\ Marked(got, strings)
  <2>1. got = << >> /\ Len(<< >>) = 0 /\ 1 .. 0 = {}
    BY DEF Init
  <2> QED BY <2>1 DEF Marked, Init
<1> QED BY <1>10, <1>11, <1>12, <1>13, <1>14 DEF Inv

\* What was seen is as it was when more is emitted.
LEMMA SawMore ==
  ASSUME NEW seen, NEW em \in Seq(AllEvents), NEW ev \in AllEvents, NEW g, NEW r, Saw(seen, em, g, r)
  PROVE  Saw(seen, Append(em, ev), g, r)
<1>1. Len(seen) \in Nat /\ Len(em) \in Nat /\ Len(seen) <= Len(em)
  BY DEF Saw
<1>2. Len(Append(em, ev)) = Len(em) + 1 /\ \A i \in 1 .. Len(em) : Append(em, ev)[i] = em[i]
  OBVIOUS
<1>3. Len(seen) <= Len(Append(em, ev)) /\ \A i \in 1 .. Len(seen) : i \in 1 .. Len(em)
  BY <1>1, <1>2
<1>4. \A i \in 1 .. Len(seen) : seen[i] = Append(em, ev)[i]
  BY <1>2, <1>3 DEF Saw
<1> QED BY <1>3, <1>4 DEF Saw

\* What Read makes of the item it reads.
LEMMA ReadInv ==
  ASSUME Read, NEW g, NEW m, NEW r, Marked(got, strings), failed = FALSE,
         Sound(session, emitted, g), Reading(message, pos, g, m, r),
         Saw(got, emitted, g, r), Learnt(strings, g, r)
  PROVE  /\ failed' = FALSE /\ Marked(got', strings')
         /\ Reading(message, pos', g, m, r + 1)
         /\ Saw(got', emitted, g, r + 1) /\ Learnt(strings', g, r + 1)
         /\ got' = got \/ (/\ Len(got) + 1 \in 1 .. Len(emitted)
                           /\ got' = Append(got, emitted[Len(got) + 1]))
<1> DEFINE read == ReadEvent(message, pos)
           ev == read.event
           x == g.log[r + 1]
<1>1. Coded(g, emitted) /\ Laid(g) /\ Emitted(g, emitted)
  BY DEF Sound, Coded
<1>2. ~(pos >= Size(message))
  BY DEF Read, AtEnd
<1>3. r + 1 \in 1 .. Len(g.log) /\ r \in Nat /\ Reading(message, read.next, g, m, r + 1) /\ ev = Seen(x)
  BY <1>1, <1>2, ReadStep
<1>4. x \in Items
  BY <1>1, <1>3 DEF Laid
<1>5. /\ pos' = read.next
      /\ failed' = (failed \/ ev.type = "unknown")
      /\ strings' = IF ev.type = "string"
                    THEN Append(strings, [id |-> ev.id, string |-> ev.string, size |-> ev.size])
                    ELSE strings
      /\ got' = IF ev.type \in {"string", "unknown"} THEN got ELSE Append(got, ev)
  BY DEF Read
<1> HIDE DEF read, x
<1>6. CASE x.type = "string"
  <2>1. ev = [type |-> "string", id |-> x.id, size |-> x.size, string |-> x.id]
    BY <1>3, <1>4, <1>6, ItemKinds
  <2>2. /\ ev.type = "string" /\ ev.type # "unknown"
        /\ ev.id = x.id /\ ev.size = x.size /\ ev.string = x.id
    BY <2>1
  <2>3. /\ strings' = Append(strings, [id |-> x.id, string |-> x.id, size |-> x.size])
        /\ got' = got /\ failed' = FALSE
    BY <1>5, <2>2
  <2>4. Learnt(strings', g, r + 1)
    BY <1>1, <1>3, <1>6, <2>3, LearnString DEF x
  <2>5. Marked(got', strings')
    <3>1. strings \in Seq(Learned)
      BY DEF Learnt
    <3> QED BY <2>3, <3>1, MarkedMore
  <2>6. Saw(got', emitted, g, r + 1)
    <3>1. (r + 1) - 1 = r
      BY <1>3
    <3>2. g.events[r + 1] = g.events[r]
      BY <1>1, <1>3, <1>6, <3>1 DEF Emitted, x
    <3> QED BY <2>3, <3>2 DEF Saw
  <2> QED BY <1>3, <1>5, <2>3, <2>4, <2>5, <2>6
<1>7. CASE x.type # "string"
  <2>1. ev = x /\ x.type # "unknown"
    BY <1>3, <1>4, <1>7, ItemKinds
  <2>2. strings' = strings /\ got' = Append(got, x) /\ failed' = FALSE
    BY <1>5, <1>7, <2>1
  <2>3. Learnt(strings, g, r + 1) /\ Saw(Append(got, x), emitted, g, r + 1) /\ Marked(Append(got, x), strings)
    BY <1>1, <1>3, <1>7, SeeEvent DEF x
  <2>4. Len(got) + 1 \in 1 .. Len(emitted) /\ x = emitted[Len(got) + 1]
    <3>1. got \in Seq(AllEvents) /\ Len(got) \in Nat
      BY DEF Saw
    <3>2. Len(Append(got, x)) = Len(got) + 1 /\ Append(got, x)[Len(got) + 1] = x
      BY <3>1
    <3>3. Len(got) + 1 <= Len(emitted) /\ Len(emitted) \in Nat
      BY <1>1, <2>3, <3>2 DEF Saw, Emitted
    <3>4. Len(got) + 1 \in 1 .. Len(got) + 1 /\ Len(got) + 1 \in 1 .. Len(emitted)
      BY <3>1, <3>3
    <3>5. Append(got, x)[Len(got) + 1] = emitted[Len(got) + 1]
      BY <2>3, <3>2, <3>4 DEF Saw
    <3> QED BY <3>2, <3>4, <3>5
  <2> QED BY <1>3, <1>5, <2>2, <2>3, <2>4
<1> QED BY <1>6, <1>7

\* Every step keeps it.
LEMMA NextInv == Inv /\ [Next]_vars => Inv'
<1> SUFFICES ASSUME Inv, [Next]_vars PROVE Inv'
  OBVIOUS
<1>1. PICK g, m, r : /\ Sound(session, emitted, g) /\ Reading(message, pos, g, m, r)
                     /\ Saw(got, emitted, g, r) /\ Learnt(strings, g, r)
  BY DEF Inv
<1>2. failed = FALSE /\ Marked(got, strings)
  BY DEF Inv
<1>3. Laid(g) /\ Coded(g, emitted) /\ Held(session, g) /\ Told(session, g) /\ emitted \in Seq(AllEvents)
  BY <1>1 DEF Sound, Coded, Emitted
<1>4. ASSUME NEW ev \in Events, WriteEvent(ev) PROVE Inv'
  <2>1. /\ session' = WriteSessionEvent(session, ev) /\ emitted' = Append(emitted, ev)
        /\ message' = message /\ pos' = pos /\ strings' = strings /\ failed' = failed /\ got' = got
    <3>1. [session EXCEPT !.error = FALSE] = session
      BY <1>3 DEF Held, Sessions
    <3> QED BY <1>4, <3>1 DEF WriteEvent, viewerVars
  <2>2. ev \in AllEvents
    BY StreamAssumption
  <2>3. PICK h : Sound(WriteSessionEvent(session, ev), Append(emitted, ev), h) /\ Extends(g, h)
    BY <1>1, <2>2, EventStep
  <2>4. Laid(h)
    BY <2>3 DEF Sound, Coded
  <2>5. Reading(message, pos, h, m, r) /\ Saw(got, emitted, h, r) /\ Learnt(strings, h, r)
    BY <1>1, <1>3, <2>3, <2>4, ViewStays
  <2>6. Saw(got, Append(emitted, ev), h, r)
    BY <1>3, <2>2, <2>5, SawMore
  <2> QED BY <1>2, <2>1, <2>3, <2>5, <2>6 DEF Inv
<1>5. CASE Flush
  <2>1. /\ session' = FlushSession(session) /\ emitted' = emitted
        /\ message' = message /\ pos' = pos /\ strings' = strings /\ failed' = failed /\ got' = got
    BY <1>5 DEF Flush, viewerVars
  <2>2. PICK h : Held(FlushSession(session), h) /\ SameLog(g, h)
    BY <1>3, FlushHolds
  <2>3. Laid(h) /\ Extends(g, h) /\ Coded(h, emitted) /\ Told(session, h)
    BY <1>3, <2>2, SameLogFacts
  <2>4. Told(FlushSession(session), h)
    BY <1>3, <2>3, FlushHolds DEF Told
  <2>5. Reading(message, pos, h, m, r) /\ Saw(got, emitted, h, r) /\ Learnt(strings, h, r)
    BY <1>1, <1>3, <2>3, ViewStays
  <2>6. Sound(FlushSession(session), emitted, h)
    BY <2>2, <2>3, <2>4 DEF Sound
  <2> QED BY <1>2, <2>1, <2>5, <2>6 DEF Inv
<1>6. CASE Receive
  <2>1. /\ pos >= Size(message) /\ session.out # << >> /\ message' = Head(session.out) /\ pos' = 0
        /\ session' = [session EXCEPT !.out = Tail(@)]
        /\ strings' = strings /\ failed' = failed /\ got' = got /\ emitted' = emitted
    BY <1>6 DEF Receive, AtEnd
  <2>2. r = g.cut[0] /\ r \in Nat
    BY <1>1, <1>3, <2>1, ReadingPlace DEF Reading
  <2>3. PICK h : /\ Sound([session EXCEPT !.out = Tail(@)], emitted, h)
                 /\ h.log = g.log /\ h.fields = g.fields /\ h.events = g.events
                 /\ Piece(Head(session.out), h, g.cut[0], h.cut[0])
    BY <1>1, <2>1, ReceiveStep
  <2>4. Reading(Head(session.out), 0, h, r, r)
    <3>1. /\ Head(session.out) \in Seq(Field) /\ r <= h.cut[0] /\ r \in 0 .. Len(h.log)
      BY <2>2, <2>3 DEF Piece
    <3>2. Offset(Head(session.out))[1] = 0
      BY <3>1, OffsetOf DEF Offsets
    <3>3. h.fields[r] \in Nat
      BY <1>3, <2>3, <3>1 DEF Laid
    <3>4. (h.fields[r] - h.fields[r]) + 1 = 1
      BY <3>3
    <3>5. r <= r
      BY <2>2
    <3> QED BY <2>2, <2>3, <3>1, <3>2, <3>4, <3>5 DEF Reading
  <2>5. Saw(got, emitted, h, r)
    BY <1>1, <2>3 DEF Saw
  <2>6. Learnt(strings, h, r)
    <3>1. StringIds(h, r) = StringIds(g, r)
      BY <2>3 DEF StringIds
    <3> QED BY <1>1, <3>1 DEF Learnt
  <2> QED BY <1>2, <2>1, <2>3, <2>4, <2>5, <2>6 DEF Inv
<1>7. CASE Read
  <2>1. session' = session /\ message' = message /\ emitted' = emitted
    BY <1>7 DEF Read
  <2>2. /\ failed' = FALSE /\ Marked(got', strings')
        /\ Reading(message, pos', g, m, r + 1)
        /\ Saw(got', emitted, g, r + 1) /\ Learnt(strings', g, r + 1)
    BY <1>1, <1>2, <1>7, ReadInv
  <2> QED BY <1>1, <2>1, <2>2 DEF Inv
<1>8. CASE UNCHANGED vars
  <2>1. /\ session' = session /\ emitted' = emitted
        /\ message' = message /\ pos' = pos /\ strings' = strings /\ failed' = failed /\ got' = got
    BY <1>8 DEF vars, viewerVars
  <2> QED BY <1>1, <1>2, <2>1 DEF Inv
<1> QED BY <1>4, <1>5, <1>6, <1>7, <1>8 DEF Next

-----------------------------------------------------------------------------
(* The theorems *)

\* The invariant holds in every behaviour.
THEOREM Invariance == Spec => []Inv
<1> QED BY InitInv, NextInv, PTL DEF Spec

\* Encoder, EncodeSize, _bufpos and the viewer's reader agree at every byte, for
\* strings of any length: no event is given up, nothing is written behind the end
\* of the buffer, the reader never loses its place, and strings arrive once, with
\* as many of their bytes as 16 bits can say.
THEOREM EncodingAgrees == Spec => []StreamIntact
<1>1. Inv => StreamIntact
  <2> SUFFICES ASSUME Inv PROVE StreamIntact
    OBVIOUS
  <2>1. PICK g, m, r : /\ Sound(session, emitted, g) /\ Reading(message, pos, g, m, r)
                       /\ Saw(got, emitted, g, r) /\ Learnt(strings, g, r)
    BY DEF Inv
  <2>2. /\ session.bufpos = Size(session.buffer) /\ session.bufpos <= BufSize /\ ~session.error
        /\ Laid(g)
    BY <2>1 DEF Sound, Held, Sessions, Coded
  <2>3. pos <= Size(message) /\ ~failed
    BY <2>1, <2>2, ReadingPlace DEF Inv
  <2>4. DOMAIN strings = 1 .. Len(strings)
    BY <2>1 DEF Learnt
  <2>5. \A i \in 1 .. Len(strings) : /\ strings[i].string = strings[i].id
                                     /\ strings[i].size = StrLen[strings[i].id] % 65536
    BY <2>1 DEF Learnt
  <2>6. \A i, j \in 1 .. Len(strings) : Bit(strings[i].id) = Bit(strings[j].id) => i = j
    BY <2>1 DEF Learnt
  <2> QED BY <2>2, <2>3, <2>4, <2>5, <2>6 DEF StreamIntact
<1> QED BY <1>1, Invariance, PTL

\* The viewer has been sent the names of every event it sees, except those that
\* share a bit of the table with one that was sent, whatever the handles are.
THEOREM NamesSentFirst == Spec => []NamesKnown
<1>1. Inv => NamesKnown
  <2> SUFFICES ASSUME Inv PROVE NamesKnown
    OBVIOUS
  <2>1. DOMAIN strings = 1 .. Len(strings) /\ DOMAIN got = 1 .. Len(got)
    BY DEF Inv, Learnt, Saw
  <2>2. ASSUME NEW i \in 1 .. Len(got), NEW n \in Names(got[i])
        PROVE  \E k \in Known : Bit(k) = Bit(n)
    <3>1. PICK j \in 1 .. Len(strings) : Bit(strings[j].id) = Bit(n)
      BY DEF Inv, Marked
    <3> QED BY <2>1, <3>1 DEF Known
  <2> QED BY <2>1, <2>2 DEF NamesKnown
<1> QED BY <1>1, Invariance, PTL

-----------------------------------------------------------------------------
(* Refinement *)

\* What EventStream calls pending and last.
Pending == SubSeq(emitted, Len(got) + 1, Len(emitted))
Last == IF got = << >> THEN NoEvent ELSE got[Len(got)]

\* A sequence from some place on.
LEMMA Rest ==
  ASSUME NEW S, NEW s \in Seq(S), NEW n \in Nat, n <= Len(s)
  PROVE  /\ SubSeq(s, n + 1, Len(s)) \in Seq(S) /\ Len(SubSeq(s, n + 1, Len(s))) = Len(s) - n
         /\ \A i \in 1 .. Len(s) - n : SubSeq(s, n + 1, Len(s))[i] = s[n + i]
<1>1. Len(s) \in Nat
  OBVIOUS
<1>2. \A i \in n + 1 .. Len(s) : s[i] \in S
  OBVIOUS
<1> DEFINE a == SubSeq(s, n + 1, Len(s))
<1>3. /\ a \in Seq(S) /\ Len(a) = IF n + 1 <= Len(s) THEN Len(s) - (n + 1) + 1 ELSE 0
      /\ \A i \in 1 .. Len(s) - (n + 1) + 1 : a[i] = s[(n + 1) + i - 1]
  BY <1>1, <1>2, SubSeqProperties
<1> HIDE DEF a
<1>4. Len(a) = Len(s) - n /\ Len(s) - (n + 1) + 1 = Len(s) - n
  BY <1>1, <1>3
<1>5. \A i \in 1 .. Len(s) - n : (n + 1) + i - 1 = n + i
  BY <1>1
<1> QED BY <1>3, <1>4, <1>5 DEF a

\* What is appended to a sequence is appended to its rest.
LEMMA RestOfAppend ==
  ASSUME NEW S, NEW s \in Seq(S), NEW n \in Nat, n <= Len(s), NEW e \in S
  PROVE  SubSeq(Append(s, e), n + 1, Len(Append(s, e))) = Append(SubSeq(s, n + 1, Len(s)), e)
<1> DEFINE a == SubSeq(Append(s, e), n + 1, Len(Append(s, e)))
           b == Append(SubSeq(s, n + 1, Len(s)), e)
<1>1. Len(s) \in Nat /\ Append(s, e) \in Seq(S) /\ Len(Append(s, e)) = Len(s) + 1
      /\ Append(s, e)[Len(s) + 1] = e /\ \A i \in 1 .. Len(s) : Append(s, e)[i] = s[i]
  OBVIOUS
<1>2. n <= Len(s) + 1 /\ (Len(s) + 1) - n = (Len(s) - n) + 1 /\ Len(s) - n \in Nat
      /\ n + ((Len(s) - n) + 1) = Len(s) + 1
  BY <1>1
<1>3. /\ a \in Seq(S) /\ Len(a) = (Len(s) - n) + 1
      /\ \A i \in 1 .. (Len(s) - n) + 1 : a[i] = Append(s, e)[n + i]
  BY <1>1, <1>2, Rest
<1>4. /\ SubSeq(s, n + 1, Len(s)) \in Seq(S) /\ Len(SubSeq(s, n + 1, Len(s))) = Len(s) - n
      /\ \A i \in 1 .. Len(s) - n : SubSeq(s, n + 1, Len(s))[i] = s[n + i]
  BY Rest
<1>5. /\ b \in Seq(S) /\ Len(b) = (Len(s) - n) + 1 /\ b[(Len(s) - n) + 1] = e
      /\ \A i \in 1 .. Len(s) - n : b[i] = s[n + i]
  BY <1>4
<1> HIDE DEF a, b
<1>6. ASSUME NEW i \in 1 .. (Len(s) - n) + 1 PROVE a[i] = b[i]
  <2>1. CASE i = (Len(s) - n) + 1
    BY <1>1, <1>2, <1>3, <1>5, <2>1
  <2>2. CASE i # (Len(s) - n) + 1
    <3>1. i \in 1 .. Len(s) - n /\ n + i \in 1 .. Len(s)
      BY <1>1, <1>2, <2>2
    <3> QED BY <1>1, <1>3, <1>5, <3>1
  <2> QED BY <2>1, <2>2
<1>7. a = b
  <2>1. a = [i \in 1 .. (Len(s) - n) + 1 |-> a[i]] /\ b = [i \in 1 .. (Len(s) - n) + 1 |-> b[i]]
    BY <1>3, <1>5
  <2> QED BY <1>6, <2>1
<1> QED BY <1>7 DEF a, b

\* The first element of the rest, and what comes after it.
LEMMA RestOfRest ==
  ASSUME NEW S, NEW s \in Seq(S), NEW n \in Nat, n + 1 \in 1 .. Len(s)
  PROVE  /\ SubSeq(s, n + 1, Len(s)) # << >>
         /\ Head(SubSeq(s, n + 1, Len(s))) = s[n + 1]
         /\ SubSeq(s, (n + 1) + 1, Len(s)) = Tail(SubSeq(s, n + 1, Len(s)))
<1>1. Len(s) \in Nat /\ n <= Len(s) /\ Len(s) \in n + 1 .. Len(s) /\ Len(s) - n > 0
  OBVIOUS
<1>2. Len(SubSeq(s, n + 1, Len(s))) > 0
  BY <1>1, Rest
<1>3. SubSeq(s, n + 1, Len(s)) # << >>
  BY <1>2
<1>4. /\ Head(SubSeq(s, n + 1, Len(s))) = s[n + 1]
      /\ Tail(SubSeq(s, n + 1, Len(s))) = SubSeq(s, (n + 1) + 1, Len(s))
  BY <1>1, HeadTailOfSubSeq
<1> QED BY <1>3, <1>4

\* A session and its viewer are a stream of events: each one that is emitted is
\* seen once, as it was, in the order of emission.
THEOREM Refinement == Spec => ImplementsEventStream
<1>1. Init => Stream!Init
  <2> SUFFICES ASSUME Init PROVE Pending = << >> /\ Last = NoEvent
    BY DEF Stream!Init, Pending, Last
  <2>1. emitted = << >> /\ got = << >>
    BY DEF Init
  <2>2. SubSeq(<< >>, 0 + 1, 0) = << >>
    OBVIOUS
  <2> QED BY <2>1, <2>2 DEF Pending, Last
<1>2. ASSUME Inv, [Next]_vars PROVE [Stream!Next]_<<Pending, Last>>
  <2>1. PICK g, m, r : /\ Sound(session, emitted, g) /\ Reading(message, pos, g, m, r)
                       /\ Saw(got, emitted, g, r) /\ Learnt(strings, g, r)
    BY <1>2 DEF Inv
  <2>2. /\ emitted \in Seq(AllEvents) /\ got \in Seq(AllEvents) /\ Len(got) \in Nat
        /\ Len(got) <= Len(emitted)
    BY <2>1 DEF Sound, Coded, Emitted, Saw
  <2>3. ASSUME NEW ev \in Events, WriteEvent(ev) PROVE Stream!Next
    <3>1. emitted' = Append(emitted, ev) /\ got' = got
      BY <2>3 DEF WriteEvent, viewerVars
    <3>2. ev \in AllEvents
      BY StreamAssumption
    <3>3. Pending' = Append(Pending, ev) /\ Last' = Last
      BY <2>2, <3>1, <3>2, RestOfAppend DEF Pending, Last
    <3>4. Stream!Emit(ev)
      BY <3>3 DEF Stream!Emit, Pending, Last
    <3> QED BY <3>4 DEF Stream!Next
  <2>4. ASSUME emitted' = emitted, got' = got PROVE UNCHANGED <<Pending, Last>>
    BY <2>4 DEF Pending, Last
  <2>5. CASE Read
    <3>1. emitted' = emitted
      BY <2>5 DEF Read
    <3>2. CASE got' = got
      BY <2>4, <3>1, <3>2
    <3>3. CASE got' # got
      <4>1. Len(got) + 1 \in 1 .. Len(emitted) /\ got' = Append(got, emitted[Len(got) + 1])
        BY <1>2, <2>1, <2>5, <3>3, ReadInv DEF Inv
      <4>2. /\ Len(got') = Len(got) + 1 /\ got' # << >>
            /\ got'[Len(got) + 1] = emitted[Len(got) + 1]
        BY <2>2, <4>1
      <4>3. /\ Pending # << >> /\ Head(Pending) = emitted[Len(got) + 1]
            /\ SubSeq(emitted, (Len(got) + 1) + 1, Len(emitted)) = Tail(Pending)
        BY <2>2, <4>1, RestOfRest DEF Pending
      <4>4. Pending' = Tail(Pending) /\ Last' = Head(Pending)
        BY <3>1, <4>2, <4>3 DEF Pending, Last
      <4>5. Stream!Deliver
        BY <4>3, <4>4 DEF Stream!Deliver, Pending, Last
      <4> QED BY <4>5 DEF Stream!Next
    <3> QED BY <3>2, <3>3
  <2>6. CASE Flush \/ Receive \/ UNCHANGED vars
    <3>1. emitted' = emitted /\ got' = got
      BY <2>6 DEF Flush, Receive, vars, viewerVars
    <3> QED BY <2>4, <3>1
  <2> QED BY <1>2, <2>3, <2>5, <2>6 DEF Next
<1>3. [Stream!Next]_<<Pending, Last>> <=> [Stream!Next]_<<SubSeq(emitted, Len(got) + 1, Len(emitted)),
        IF got = << >> THEN NoEvent ELSE got[Len(got)]>>
  BY DEF Pending, Last
<1> QED BY <1>1, <1>2, <1>3, Invariance, PTL DEF Spec, ImplementsEventStream, Stream!Spec
=============================================================================
