---------------------------- MODULE ViewerProofs ----------------------------
(***************************************************************************)
(* What Viewer promises, for any number of sockets, times and events.      *)
(*                                                                         *)
(* The button's property is inductive by itself.  That frames lie end to   *)
(* end needs OpenFrame: which frame is open, and when it began.  That      *)
(* charts are exact needs the values behind the first to be in time order, *)
(* which setValue keeps, and that the binary search halves its range until *)
(* nothing is left (SearchFinds, an induction over the count).  That no    *)
(* amount is lost needs the sum of the values, wherever one is inserted    *)
(* (InsertedTotal).                                                        *)
(***************************************************************************)
EXTENDS Viewer, Induction

-----------------------------------------------------------------------------
(* The values of a counter *)

\* What YsCounter keeps in _data.
Value == [time : Int, sum : Int]

\* Where setValue puts a value.
Place(d, v) ==
  LET places == {i \in 1 .. Len(d) : i = 1 \/ d[i].time <= v.time}
  IN  IF d = << >> THEN 0 ELSE CHOOSE i \in places : \A j \in places : i >= j

\* setValue finds the last place whose value is not later, or the first place.
LEMMA PlaceOf ==
  ASSUME NEW d \in Seq(Value), NEW v \in Value
  PROVE  /\ Place(d, v) \in 0 .. Len(d)
         /\ Place(d, v) = 0 => Len(d) = 0
         /\ Place(d, v) > 1 => d[Place(d, v)].time <= v.time
         /\ \A i \in 1 .. Len(d) : i > Place(d, v) => ~(d[i].time <= v.time)
<1>1. CASE d = << >>
  <2>1. Place(d, v) = 0 /\ Len(d) = 0
    BY <1>1 DEF Place
  <2> QED BY <2>1
<1>2. CASE d # << >>
  <2> DEFINE P == {i \in 1 .. Len(d) : i = 1 \/ d[i].time <= v.time}
             p == CHOOSE i \in P : \A j \in P : i >= j
  <2>1. Len(d) \in Nat /\ Len(d) >= 1
    BY <1>2
  <2>2. 1 \in P /\ P \subseteq 0 .. Len(d)
    BY <2>1
  <2>3. \E i \in P : \A j \in P : i >= j
    <3> HIDE DEF P
    <3> QED BY <2>1, <2>2, GreatestMember
  <2>4. p \in P /\ \A j \in P : p >= j
    <3> HIDE DEF P
    <3> QED BY <2>3
  <2>5. Place(d, v) = p
    BY <1>2 DEF Place
  <2> HIDE DEF p
  <2>6. p \in 1 .. Len(d) /\ (p = 1 \/ d[p].time <= v.time)
    BY <2>4
  <2>7. \A i \in 1 .. Len(d) : i > p => ~(d[i].time <= v.time)
    <3> SUFFICES ASSUME NEW i \in 1 .. Len(d), i > p, d[i].time <= v.time PROVE FALSE
      OBVIOUS
    <3>1. i \in P
      OBVIOUS
    <3> QED BY <2>4, <2>6, <3>1
  <2> HIDE DEF P
  <2> QED BY <2>1, <2>5, <2>6, <2>7
<1> QED BY <1>1, <1>2

\* How long two sequences are, one behind the other.
LEMMA ConcatLen ==
  ASSUME NEW S, NEW a \in Seq(S), NEW b \in Seq(S)
  PROVE  a \o b \in Seq(S) /\ Len(a \o b) = Len(a) + Len(b)
OBVIOUS

\* What is where in two sequences, one behind the other.
LEMMA ConcatAt ==
  ASSUME NEW S, NEW a \in Seq(S), NEW b \in Seq(S), NEW i \in 1 .. Len(a) + Len(b)
  PROVE  (a \o b)[i] = IF i <= Len(a) THEN a[i] ELSE b[i - Len(a)]
OBVIOUS

\* The value goes behind that place; the others keep their order.
LEMMA InsertedAt ==
  ASSUME NEW d \in Seq(Value), NEW v \in Value, NEW at \in 0 .. Len(d), at = Place(d, v)
  PROVE  /\ Inserted(d, v) \in Seq(Value)
         /\ Len(Inserted(d, v)) = Len(d) + 1
         /\ \A i \in 1 .. Len(d) + 1 :
              Inserted(d, v)[i] = IF i <= at THEN d[i] ELSE IF i = at + 1 THEN v ELSE d[i - 1]
<1> DEFINE a == SubSeq(d, 1, at)
           b == SubSeq(d, at + 1, Len(d))
<1>1. Inserted(d, v) = (a \o <<v>>) \o b
  <2>1. Inserted(d, v) = SubSeq(d, 1, at) \o <<v>> \o SubSeq(d, at + 1, Len(d))
    BY DEF Inserted, Place
  <2> QED BY <2>1
<1>2. at \in Nat /\ Len(d) \in Nat /\ at <= Len(d)
  OBVIOUS
<1>3. a \in Seq(Value) /\ Len(a) = at /\ \A i \in 1 .. at : a[i] = d[i]
  BY <1>2
<1>4. b \in Seq(Value) /\ Len(b) = Len(d) - at /\ \A i \in 1 .. Len(d) - at : b[i] = d[at + i]
  BY <1>2
<1> DEFINE c == a \o <<v>>
<1> HIDE DEF a, b
<1>5. c \in Seq(Value) /\ Len(c) = at + 1
  BY <1>2, <1>3
<1>6. \A i \in 1 .. at + 1 : c[i] = IF i <= at THEN d[i] ELSE v
  BY <1>2, <1>3
<1> HIDE DEF c
<1>7. c \o b \in Seq(Value) /\ Len(c \o b) = Len(d) + 1
  <2>1. c \o b \in Seq(Value) /\ Len(c \o b) = Len(c) + Len(b)
    BY ONLY <1>4, <1>5, ConcatLen
  <2>2. Len(c) + Len(b) = Len(d) + 1
    BY <1>2, <1>4, <1>5
  <2> QED BY <2>1, <2>2
<1>8. ASSUME NEW i \in 1 .. Len(d) + 1
      PROVE  (c \o b)[i] = IF i <= at THEN d[i] ELSE IF i = at + 1 THEN v ELSE d[i - 1]
  <2>1. CASE i <= at + 1
    <3>1. (c \o b)[i] = c[i]
      BY <1>2, <1>4, <1>5, <2>1
    <3> QED BY <1>2, <1>6, <2>1, <3>1
  <2>2. CASE i > at + 1
    <3>1. (c \o b)[i] = b[i - (at + 1)]
      <4>1. i \in 1 .. Len(c) + Len(b) /\ ~(i <= Len(c)) /\ i - Len(c) = i - (at + 1)
        BY <1>2, <1>4, <1>5, <2>2
      <4>2. (c \o b)[i] = b[i - Len(c)]
        BY <1>4, <1>5, <4>1, ConcatAt
      <4> QED BY <4>1, <4>2
    <3>2. i - (at + 1) \in 1 .. Len(d) - at /\ at + (i - (at + 1)) = i - 1
      BY <1>2, <2>2
    <3>3. b[i - (at + 1)] = d[at + (i - (at + 1))]
      BY <1>4, <3>2
    <3>4. ~(i <= at) /\ i # at + 1
      BY <1>2, <2>2
    <3> QED BY <3>1, <3>2, <3>3, <3>4
  <2>3. i <= at + 1 \/ i > at + 1
    BY <1>2
  <2> QED BY <2>1, <2>2, <2>3
<1>9. Inserted(d, v) = c \o b
  BY <1>1 DEF c
<1> QED BY <1>7, <1>8, <1>9

\* Every value but the first is in time order.
Ordered(d) == \A i, j \in 2 .. Len(d) : i < j => d[i].time <= d[j].time

\* setValue keeps that order.
LEMMA InsertedOrdered ==
  ASSUME NEW d \in Seq(Value), NEW v \in Value, Ordered(d)
  PROVE  Ordered(Inserted(d, v))
<1> DEFINE at == Place(d, v)
           e == Inserted(d, v)
<1>1. /\ at \in 0 .. Len(d)
      /\ at = 0 => Len(d) = 0
      /\ at > 1 => d[at].time <= v.time
      /\ \A i \in 1 .. Len(d) : i > at => ~(d[i].time <= v.time)
  BY PlaceOf
<1>2. /\ e \in Seq(Value)
      /\ Len(e) = Len(d) + 1
      /\ \A i \in 1 .. Len(d) + 1 :
           e[i] = IF i <= at THEN d[i] ELSE IF i = at + 1 THEN v ELSE d[i - 1]
  BY <1>1, InsertedAt
<1> HIDE DEF at, e
<1>3. Len(d) \in Nat /\ \A i \in 1 .. Len(d) : d[i].time \in Int
  <2>1. \A i \in 1 .. Len(d) : d[i] \in Value
    OBVIOUS
  <2> QED BY <2>1 DEF Value
<1>4. v.time \in Int
  BY DEF Value
<1> SUFFICES ASSUME NEW i \in 2 .. Len(d) + 1, NEW j \in 2 .. Len(d) + 1, i < j
             PROVE  e[i].time <= e[j].time
  BY <1>2 DEF Ordered, e
<1>5. i \in Int /\ j \in Int /\ i >= 2 /\ j >= 3 /\ i <= Len(d) /\ at \in Int
  BY <1>1, <1>3
<1>6. \A k, l \in 2 .. Len(d) : k <= l => d[k].time <= d[l].time
  BY <1>3 DEF Ordered
<1>7. CASE j <= at
  <2>1. e[i] = d[i] /\ e[j] = d[j] /\ i \in 2 .. Len(d) /\ j \in 2 .. Len(d)
    BY <1>1, <1>2, <1>5, <1>7
  <2> QED BY <1>5, <1>6, <2>1
<1>8. CASE i <= at /\ j = at + 1
  <2>1. e[i] = d[i] /\ e[j] = v /\ i \in 2 .. Len(d) /\ at \in 2 .. Len(d)
    BY <1>1, <1>2, <1>5, <1>8
  <2>2. d[i].time <= d[at].time /\ d[at].time <= v.time
    BY <1>1, <1>5, <1>6, <1>8, <2>1
  <2> QED BY <1>3, <1>4, <2>1, <2>2
<1>9. CASE i <= at /\ j > at + 1
  <2>1. e[i] = d[i] /\ e[j] = d[j - 1] /\ i \in 2 .. Len(d) /\ j - 1 \in 2 .. Len(d) /\ i <= j - 1
    BY <1>1, <1>2, <1>5, <1>9
  <2> QED BY <1>6, <2>1
<1>10. CASE i = at + 1
  <2>1. e[i] = v /\ e[j] = d[j - 1] /\ j - 1 \in 1 .. Len(d) /\ j - 1 > at
    BY <1>1, <1>2, <1>5, <1>10
  <2>2. ~(d[j - 1].time <= v.time)
    BY <1>1, <2>1
  <2> QED BY <1>3, <1>4, <2>1, <2>2
<1>11. CASE i > at + 1
  <2>1. e[i] = d[i - 1] /\ e[j] = d[j - 1] /\ i - 1 \in 1 .. Len(d) /\ j - 1 \in 2 .. Len(d)
    BY <1>1, <1>2, <1>5, <1>11
  <2>2. i - 1 >= 2
    BY <1>1, <1>3, <1>5, <1>11
  <2>3. i - 1 \in 2 .. Len(d) /\ i - 1 <= j - 1
    BY <1>5, <2>1, <2>2
  <2> QED BY <1>6, <2>1, <2>3
<1> QED BY <1>5, <1>7, <1>8, <1>9, <1>10, <1>11

-----------------------------------------------------------------------------
(* The sum of a counter's values *)

\* The sum that AmountsConserved takes, of any values.
Total(d) == LET sum[i \in 0 .. Len(d)] == IF i = 0 THEN 0 ELSE sum[i - 1] + d[i].sum
            IN  sum[Len(d)]

\* f holds the sums of the first values of d.
PartialSums(f, d) == /\ f \in [0 .. Len(d) -> Int]
                     /\ f[0] = 0
                     /\ \A i \in 1 .. Len(d) : f[i] = f[i - 1] + d[i].sum

\* There are such sums.
LEMMA PartialSumsExist ==
  ASSUME NEW d \in Seq(Value)
  PROVE  \E f : PartialSums(f, d)
<1> DEFINE h == [n \in Nat |-> [x \in Int |-> IF n \in 1 .. Len(d) THEN x + d[n].sum ELSE x]]
<1>1. h \in [Nat -> [Int -> Int]]
  <2>1. \A n \in 1 .. Len(d) : d[n].sum \in Int
    <3>1. \A n \in 1 .. Len(d) : d[n] \in Value
      OBVIOUS
    <3> QED BY <3>1 DEF Value
  <2> QED BY <2>1
<1>2. Recursions(Int, 0, h, Len(d)) # {}
  <2>1. Len(d) \in Nat /\ 0 \in Int
    OBVIOUS
  <2> HIDE DEF h
  <2> QED BY <1>1, <2>1, RecursionsExist
<1>3. PICK f \in [0 .. Len(d) -> Int] : f[0] = 0 /\ \A n \in 1 .. Len(d) : f[n] = h[n][f[n - 1]]
  <2> HIDE DEF h
  <2> QED BY <1>2 DEF Recursions
<1>4. ASSUME NEW n \in 1 .. Len(d) PROVE f[n] = f[n - 1] + d[n].sum
  <2>1. n \in Nat /\ n - 1 \in 0 .. Len(d)
    OBVIOUS
  <2>2. f[n - 1] \in Int /\ f[n] = h[n][f[n - 1]]
    BY <1>3, <2>1
  <2> QED BY <2>1, <2>2
<1>5. PartialSums(f, d)
  BY <1>3, <1>4 DEF PartialSums
<1> QED BY <1>5

\* The last of them is the total.
LEMMA TotalOf ==
  ASSUME NEW d \in Seq(Value), NEW f, PartialSums(f, d)
  PROVE  Total(d) = f[Len(d)]
<1> DEFINE Step(s) == [i \in 0 .. Len(d) |-> IF i = 0 THEN 0 ELSE s[i - 1] + d[i].sum]
           t == CHOOSE s : s = Step(s)
<1>1. Len(d) \in Nat /\ f \in [0 .. Len(d) -> Int]
  BY DEF PartialSums
<1>2. f = Step(f)
  <2>1. \A i \in 0 .. Len(d) : f[i] = IF i = 0 THEN 0 ELSE f[i - 1] + d[i].sum
    BY DEF PartialSums
  <2> QED BY <1>1, <2>1
<1>3. t = Step(t)
  <2> HIDE DEF Step
  <2> QED BY <1>2
<1>4. Total(d) = t[Len(d)]
  BY DEF Total
<1> HIDE DEF t
<1>5. t[0] = 0 /\ \A i \in 1 .. Len(d) : t[i] = t[i - 1] + d[i].sum
  <2>1. \A i \in 0 .. Len(d) : t[i] = IF i = 0 THEN 0 ELSE t[i - 1] + d[i].sum
    BY <1>3
  <2> QED BY <1>1, <2>1
<1> HIDE DEF Step
<1> DEFINE T == {n \in Nat : n <= Len(d) => t[n] = f[n]}
<1>6. 0 \in T
  BY <1>5 DEF PartialSums
<1>7. ASSUME NEW n \in Nat, n \in T PROVE n + 1 \in T
  <2> SUFFICES ASSUME n + 1 <= Len(d) PROVE t[n + 1] = f[n + 1]
    OBVIOUS
  <2>1. n <= Len(d) /\ n + 1 \in 1 .. Len(d) /\ (n + 1) - 1 = n
    BY <1>1
  <2>2. t[n] = f[n]
    BY <1>7, <2>1
  <2>3. t[n + 1] = t[(n + 1) - 1] + d[n + 1].sum /\ f[n + 1] = f[(n + 1) - 1] + d[n + 1].sum
    BY <1>5, <2>1 DEF PartialSums
  <2> QED BY <2>1, <2>2, <2>3
<1>8. Len(d) \in T
  <2> HIDE DEF T
  <2> QED BY <1>1, <1>6, <1>7, SetInduction
<1> QED BY <1>1, <1>4, <1>8

\* The total is a number.
LEMMA TotalInt ==
  ASSUME NEW d \in Seq(Value)
  PROVE  Total(d) \in Int
<1>1. PICK f : PartialSums(f, d)
  BY PartialSumsExist
<1>2. Total(d) = f[Len(d)]
  BY <1>1, TotalOf
<1> QED BY <1>1, <1>2 DEF PartialSums

\* setValue adds what the new value holds, wherever it goes.
LEMMA InsertedTotal ==
  ASSUME NEW d \in Seq(Value), NEW v \in Value
  PROVE  Total(Inserted(d, v)) = Total(d) + v.sum
<1> DEFINE at == Place(d, v)
           e == Inserted(d, v)
<1>1. at \in 0 .. Len(d)
  BY PlaceOf
<1>2. /\ e \in Seq(Value)
      /\ Len(e) = Len(d) + 1
      /\ \A i \in 1 .. Len(d) + 1 :
           e[i] = IF i <= at THEN d[i] ELSE IF i = at + 1 THEN v ELSE d[i - 1]
  BY <1>1, InsertedAt
<1>3. PICK f : PartialSums(f, d)
  BY PartialSumsExist
<1>4. Total(d) = f[Len(d)]
  BY <1>3, TotalOf
<1> HIDE DEF at, e
<1> DEFINE g == [i \in 0 .. Len(d) + 1 |-> IF i <= at THEN f[i] ELSE f[i - 1] + v.sum]
<1>5. Len(d) \in Nat /\ v.sum \in Int
  BY DEF Value
<1>6. /\ f \in [0 .. Len(d) -> Int] /\ f[0] = 0
      /\ \A i \in 1 .. Len(d) : f[i] = f[i - 1] + d[i].sum
  BY <1>3 DEF PartialSums
<1>7. g \in [0 .. Len(d) + 1 -> Int]
  <2>1. \A i \in 0 .. Len(d) + 1 : IF i <= at THEN i \in 0 .. Len(d) ELSE i - 1 \in 0 .. Len(d)
    BY <1>1, <1>5
  <2> QED BY <1>5, <1>6, <2>1
<1>8. g[0] = 0
  BY <1>1, <1>5, <1>6
<1>9. ASSUME NEW i \in 1 .. Len(d) + 1 PROVE g[i] = g[i - 1] + e[i].sum
  <2>0. i \in Int /\ i \in 0 .. Len(d) + 1 /\ i - 1 \in 0 .. Len(d) + 1 /\ at \in Int
    BY <1>1, <1>5
  <2>1. CASE i <= at
    <3>1. g[i] = f[i] /\ g[i - 1] = f[i - 1] /\ e[i] = d[i] /\ i \in 1 .. Len(d)
      BY <1>1, <1>2, <1>5, <2>0, <2>1
    <3> QED BY <1>6, <3>1
  <2>2. CASE i = at + 1
    <3>1. g[i] = f[i - 1] + v.sum /\ g[i - 1] = f[i - 1] /\ e[i] = v
      BY <1>1, <1>2, <1>5, <2>0, <2>2
    <3> QED BY <3>1
  <2>3. CASE i > at + 1
    <3>1. g[i] = f[i - 1] + v.sum /\ g[i - 1] = f[i - 2] + v.sum /\ e[i] = d[i - 1] /\ i - 1 \in 1 .. Len(d)
      BY <1>1, <1>2, <1>5, <2>0, <2>3
    <3>2. (i - 1) - 1 = i - 2 /\ i - 1 \in 0 .. Len(d) /\ i - 2 \in 0 .. Len(d)
      BY <1>1, <1>5, <2>0, <2>3
    <3>3. f[i - 1] = f[i - 2] + d[i - 1].sum
      BY <1>6, <3>1, <3>2
    <3>4. f[i - 2] \in Int /\ d[i - 1].sum \in Int
      <4>1. d[i - 1] \in Value
        BY <3>1
      <4> QED BY <1>6, <3>2, <4>1 DEF Value
    <3> HIDE DEF g
    <3> QED BY <1>5, <3>1, <3>3, <3>4
  <2> QED BY <2>0, <2>1, <2>2, <2>3
<1>10. PartialSums(g, e)
  <2> HIDE DEF g
  <2> QED BY <1>2, <1>7, <1>8, <1>9 DEF PartialSums
<1>11. Total(e) = g[Len(d) + 1]
  <2> HIDE DEF g
  <2> QED BY <1>2, <1>10, TotalOf
<1>12. g[Len(d) + 1] = f[Len(d)] + v.sum
  BY <1>1, <1>5
<1> QED BY <1>4, <1>11, <1>12 DEF e

-----------------------------------------------------------------------------
(* The search of a chart *)

\* The parts of the keys that findIndexByTime looks at: <<start, count>>.
Ranges(keys) == {r \in (0 .. Len(keys)) \X (0 .. Len(keys)) : r[1] + r[2] <= Len(keys)}

\* What findIndexByTime returns for r if it is s that it calls.
SearchStep(keys, time, s, r) ==
  LET step == r[2] \div 2
      i    == r[1] + step
  IN  IF r[2] = 0 THEN r[1]
      ELSE IF keys[i + 1] < time THEN s[<<i + 1, r[2] - (step + 1)>>]
           ELSE s[<<r[1], step>>]

\* The arithmetic of a step of the search.
LEMMA HalfBounds ==
  ASSUME NEW n \in Nat, NEW a \in Nat, NEW b \in Nat, NEW k \in Nat, a + b <= n, k < b
  PROVE  /\ a + k + 1 \in 1 .. n /\ a + k + 1 \in 0 .. n
         /\ b - (k + 1) \in 0 .. n /\ k \in 0 .. n
         /\ (a + k + 1) + (b - (k + 1)) <= n /\ a + k <= n
OBVIOUS

\* Half of what is left is in range.
LEMMA Halves ==
  ASSUME NEW n \in Nat, NEW keys \in Seq(Int), n = Len(keys), NEW r \in Ranges(keys), r[2] # 0,
         NEW step, step = r[2] \div 2
  PROVE  /\ step \in Nat /\ step < r[2] /\ r[1] + step + 1 \in 1 .. n
         /\ <<r[1] + step + 1, r[2] - (step + 1)>> \in Ranges(keys)
         /\ <<r[1], step>> \in Ranges(keys)
<1>1. r[1] \in 0 .. n /\ r[2] \in 0 .. n /\ r[1] + r[2] <= n
  BY DEF Ranges
<1>2. step \in Nat /\ step < r[2]
  BY <1>1
<1>3. /\ r[1] + step + 1 \in 1 .. n /\ r[1] + step + 1 \in 0 .. n
      /\ r[2] - (step + 1) \in 0 .. n /\ step \in 0 .. n
      /\ (r[1] + step + 1) + (r[2] - (step + 1)) <= n /\ r[1] + step <= n
  <2>1. PICK a \in Nat : a = r[1]
    BY <1>1
  <2>2. PICK b \in Nat : b = r[2]
    BY <1>1
  <2>3. a + b <= n /\ step < b
    BY <1>1, <1>2, <2>1, <2>2
  <2>4. step \in Nat
    BY <1>2
  <2>5. /\ a + step + 1 \in 1 .. n /\ a + step + 1 \in 0 .. n
        /\ b - (step + 1) \in 0 .. n /\ step \in 0 .. n
        /\ (a + step + 1) + (b - (step + 1)) <= n /\ a + step <= n
    BY ONLY a \in Nat, b \in Nat, <2>4, n \in Nat, <2>3, HalfBounds
  <2> QED BY <2>1, <2>2, <2>5
<1>4. <<r[1] + step + 1, r[2] - (step + 1)>> \in Ranges(keys)
  BY <1>3 DEF Ranges
<1>5. <<r[1], step>> \in Ranges(keys)
  BY <1>1, <1>3 DEF Ranges
<1> QED BY <1>2, <1>3, <1>4, <1>5

\* The search is well defined: some function does what it says.
LEMMA SearchExists ==
  ASSUME NEW keys \in Seq(Int), NEW time \in Int
  PROVE  \E s \in [Ranges(keys) -> 0 .. Len(keys)] :
           s = [r \in Ranges(keys) |-> SearchStep(keys, time, s, r)]
<1> DEFINE D == Ranges(keys)
           S == 0 .. Len(keys)
           H == [s \in [D -> S] |-> [r \in D |-> SearchStep(keys, time, s, r)]]
           rank == [r \in D |-> r[2]]
<1>1. Len(keys) \in Nat /\ 0 \in S
  OBVIOUS
<1>2. rank \in [D -> 0 .. Len(keys)]
  BY DEF Ranges
<1>3. \A s \in [D -> S] : \A r \in D : SearchStep(keys, time, s, r) \in S
  <2> SUFFICES ASSUME NEW s \in [D -> S], NEW r \in D PROVE SearchStep(keys, time, s, r) \in S
    OBVIOUS
  <2>1. CASE r[2] = 0
    BY <2>1 DEF SearchStep, Ranges
  <2>2. CASE r[2] # 0
    <3> DEFINE step == r[2] \div 2
    <3>1. <<r[1] + step + 1, r[2] - (step + 1)>> \in D /\ <<r[1], step>> \in D
      BY <1>1, <2>2, Halves
    <3>2. s[<<r[1] + step + 1, r[2] - (step + 1)>>] \in S /\ s[<<r[1], step>>] \in S
      <4> HIDE DEF D, S, step
      <4> QED BY <3>1
    <3>3. \/ SearchStep(keys, time, s, r) = s[<<r[1] + step + 1, r[2] - (step + 1)>>]
          \/ SearchStep(keys, time, s, r) = s[<<r[1], step>>]
      BY <2>2 DEF SearchStep
    <3> QED BY <3>2, <3>3
  <2> QED BY <2>1, <2>2
<1>4. H \in [[D -> S] -> [D -> S]]
  <2> HIDE DEF D, S
  <2> QED BY <1>3
<1>5. Ranked(D, S, rank, H)
  <2> SUFFICES ASSUME NEW f \in [D -> S], NEW g \in [D -> S], NEW p \in D,
                      \A q \in D : rank[q] < rank[p] => f[q] = g[q]
               PROVE  SearchStep(keys, time, f, p) = SearchStep(keys, time, g, p)
    BY DEF Ranked
  <2>1. CASE p[2] = 0
    BY <2>1 DEF SearchStep
  <2>2. CASE p[2] # 0
    <3> DEFINE step == p[2] \div 2
               q1 == <<p[1] + step + 1, p[2] - (step + 1)>>
               q2 == <<p[1], step>>
    <3>1. step \in Nat /\ step < p[2] /\ q1 \in D /\ q2 \in D
      BY <1>1, <2>2, Halves
    <3>2. p[2] \in Nat /\ q1[2] = p[2] - (step + 1) /\ q2[2] = step
      BY DEF Ranges
    <3>3. rank[q1] < rank[p] /\ rank[q2] < rank[p]
      <4>1. rank[q1] = q1[2] /\ rank[q2] = q2[2] /\ rank[p] = p[2]
        <5> HIDE DEF D, q1, q2
        <5> QED BY <3>1
      <4> QED BY <3>1, <3>2, <4>1
    <3>4. f[q1] = g[q1] /\ f[q2] = g[q2]
      <4> HIDE DEF D, q1, q2, rank
      <4> QED BY <3>1, <3>3
    <3>5. SearchStep(keys, time, f, p) = IF keys[p[1] + step + 1] < time THEN f[q1] ELSE f[q2]
      BY <2>2 DEF SearchStep
    <3>6. SearchStep(keys, time, g, p) = IF keys[p[1] + step + 1] < time THEN g[q1] ELSE g[q2]
      BY <2>2 DEF SearchStep
    <3> QED BY <3>4, <3>5, <3>6
  <2> QED BY <2>1, <2>2
<1>6. PICK s \in [D -> S] : H[s] = s
  <2> HIDE DEF D, S, H, rank
  <2>1. FixedPoints(D, S, H) # {}
    BY <1>1, <1>2, <1>4, <1>5, FixedPointExists
  <2> QED BY <2>1 DEF FixedPoints
<1>7. s = [r \in D |-> SearchStep(keys, time, s, r)]
  BY <1>6
<1> QED BY <1>7

\* The search finds what ChartExact asks for in keys that are in order but for
\* the first: it returns how many of them lie before the time.
LEMMA SearchFinds ==
  ASSUME NEW keys \in Seq(Int), NEW time \in Int,
         \A i, j \in 2 .. Len(keys) : i < j => keys[i] <= keys[j]
  PROVE  \A i \in 2 .. Len(keys) : i > FindIndex(keys, time) <=> keys[i] >= time
<1> DEFINE N == Len(keys)
           Fix(s) == s = [r \in Ranges(keys) |-> SearchStep(keys, time, s, r)]
           search == CHOOSE s : Fix(s)
<1>0. \A i, j \in 2 .. N : i < j => keys[i] <= keys[j]
  OBVIOUS
<1>1. N \in Nat /\ \A i \in 1 .. N : keys[i] \in Int
  OBVIOUS
<1>2. Fix(search)
  <2>1. \E s : Fix(s)
    BY SearchExists
  <2> HIDE DEF Fix
  <2> QED BY <2>1
<1>3. FindIndex(keys, time) = search[<<0, N>>]
  BY DEF FindIndex, Ranges, SearchStep
<1> HIDE DEF search
<1>4. \A r \in Ranges(keys) : search[r] = SearchStep(keys, time, search, r)
  BY <1>2
<1> HIDE DEF Fix
<1> DEFINE Exact(r) == \A i \in 2 .. N : (i <= r[1] => keys[i] < time) /\ (i > r[1] + r[2] => keys[i] >= time)
           Right(x) == \A i \in 2 .. N : i > x <=> keys[i] >= time
           T == {n \in Nat : \A r \in Ranges(keys) : r[2] <= n /\ Exact(r) => Right(search[r])}
<1>5. \A r \in Ranges(keys) : r[2] = 0 /\ Exact(r) => Right(search[r])
  <2> SUFFICES ASSUME NEW r \in Ranges(keys), r[2] = 0, Exact(r) PROVE Right(search[r])
    OBVIOUS
  <2>1. r[1] \in Nat /\ search[r] = r[1] /\ r[1] + r[2] = r[1]
    <3>1. r[1] \in Nat /\ r[1] + 0 = r[1]
      BY DEF Ranges
    <3>2. search[r] = r[1]
      BY <1>4 DEF SearchStep
    <3> QED BY <3>1, <3>2
  <2>2. PICK x \in Nat : x = r[1]
    BY <2>1
  <2>3. \A i \in 2 .. N : (i <= x => keys[i] < time) /\ (i > x => keys[i] >= time)
    BY <2>1, <2>2
  <2>4. Right(x)
    BY <1>1, <2>3
  <2> QED BY <2>1, <2>2, <2>4
<1>6. 0 \in T
  <2>1. \A r \in Ranges(keys) : r[2] <= 0 => r[2] = 0
    BY DEF Ranges
  <2> HIDE DEF Exact, Right
  <2> QED BY <1>5, <2>1
<1>7. ASSUME NEW n \in Nat, n \in T PROVE n + 1 \in T
  <2> SUFFICES ASSUME NEW r \in Ranges(keys), r[2] <= n + 1, Exact(r), r[2] # 0
               PROVE  Right(search[r])
    <3> HIDE DEF Exact, Right
    <3> QED BY <1>5
  <2> DEFINE step == r[2] \div 2
  <2>1. /\ step \in Nat /\ step < r[2] /\ r[1] + step + 1 \in 1 .. N
        /\ <<r[1] + step + 1, r[2] - (step + 1)>> \in Ranges(keys)
        /\ <<r[1], step>> \in Ranges(keys)
    BY <1>1, Halves
  <2>2. search[r] = IF keys[r[1] + step + 1] < time
                      THEN search[<<r[1] + step + 1, r[2] - (step + 1)>>]
                      ELSE search[<<r[1], step>>]
    BY <1>4 DEF SearchStep
  <2>3. PICK a \in Nat : a = r[1]
    BY DEF Ranges
  <2>4. PICK b \in Nat : b = r[2]
    BY DEF Ranges
  <2> HIDE DEF step
  <2>5. \A i \in 2 .. N : (i <= a => keys[i] < time) /\ (i > a + b => keys[i] >= time)
    BY <2>3, <2>4
  <2>6. a + step + 1 \in 1 .. N /\ step < b /\ b <= n + 1 /\ step <= n /\ b - (step + 1) <= n
    BY <2>1, <2>3, <2>4
  <2>7. PICK mid \in 1 .. N : mid = a + step + 1
    BY <2>6
  <2>8. CASE keys[a + step + 1] < time
    <3> DEFINE q == <<a + step + 1, b - (step + 1)>>
    <3>1. q \in Ranges(keys) /\ q[1] = a + step + 1 /\ q[2] = b - (step + 1) /\ q[2] <= n
      BY <2>1, <2>3, <2>4, <2>6
    <3>2. ASSUME NEW i \in 2 .. N, i <= a + step + 1 PROVE keys[i] < time
      <4>1. CASE i = mid
        BY <2>7, <2>8, <4>1
      <4>2. CASE i < mid
        <5>1. mid \in 2 .. N
          BY <1>1, <4>2
        <5>2. keys[i] <= keys[mid]
          BY <1>0, <4>2, <5>1
        <5>3. keys[mid] < time /\ keys[mid] \in Int /\ keys[i] \in Int
          BY <1>1, <2>7, <2>8
        <5> QED BY <5>2, <5>3
      <4>3. i <= mid
        BY <2>7, <3>2
      <4> QED BY <4>1, <4>2, <4>3
    <3>3. a + step + 1 + (b - (step + 1)) = a + b
      BY <2>1
    <3>4. Exact(q)
      BY <2>5, <3>1, <3>2, <3>3
    <3>5. Right(search[q])
      <4> HIDE DEF q, Exact, Right
      <4> QED BY <1>7, <3>1, <3>4
    <3>6. search[r] = search[q]
      BY <2>2, <2>3, <2>4, <2>8
    <3> HIDE DEF q, Right
    <3> QED BY <3>5, <3>6
  <2>9. CASE ~(keys[a + step + 1] < time)
    <3> DEFINE q == <<a, step>>
    <3>1. q \in Ranges(keys) /\ q[1] = a /\ q[2] = step /\ q[2] <= n
      BY <2>1, <2>3, <2>6
    <3>2. ASSUME NEW i \in 2 .. N, i > a + step PROVE keys[i] >= time
      <4>1. keys[mid] >= time /\ keys[i] \in Int /\ keys[mid] \in Int
        BY <1>1, <2>7, <2>9
      <4>2. CASE i = mid
        BY <4>1, <4>2
      <4>3. CASE i > mid /\ mid >= 2
        <5>1. mid \in 2 .. N
          BY <1>1, <4>3
        <5>2. keys[mid] <= keys[i]
          BY <1>0, <4>3, <5>1
        <5> QED BY <4>1, <5>2
      <4>4. CASE i > mid /\ mid = 1
        <5>1. a = 0 /\ step = 0
          <6>1. \A x, y \in Nat : x + y + 1 = 1 => x = 0 /\ y = 0
            OBVIOUS
          <6>2. step \in Nat /\ a + step + 1 = 1
            BY <2>1, <2>7, <4>4
          <6> QED BY <6>1, <6>2
        <5>2. b <= 1
          <6>1. \A x \in Nat : x \div 2 = 0 => x <= 1
            OBVIOUS
          <6> QED BY <2>4, <5>1, <6>1 DEF step
        <5>3. i > a + b
          BY <4>4, <5>1, <5>2
        <5> QED BY <2>5, <5>3
      <4>5. i >= mid
        BY <2>1, <2>7, <3>2
      <4> QED BY <4>2, <4>3, <4>4, <4>5
    <3>4. Exact(q)
      BY <2>5, <3>1, <3>2
    <3>5. Right(search[q])
      <4> HIDE DEF q, Exact, Right
      <4> QED BY <1>7, <3>1, <3>4
    <3>6. search[r] = search[q]
      BY <2>2, <2>3, <2>9
    <3> HIDE DEF q, Right
    <3> QED BY <3>5, <3>6
  <2> QED BY <2>8, <2>9
<1>8. N \in T
  <2> HIDE DEF T
  <2> QED BY <1>1, <1>6, <1>7, SetInduction
<1>9. <<0, N>> \in Ranges(keys) /\ <<0, N>>[2] <= N /\ Exact(<<0, N>>)
  BY <1>1 DEF Ranges
<1>10. Right(search[<<0, N>>])
  <2> HIDE DEF Exact, Right
  <2> QED BY <1>8, <1>9
<1> QED BY <1>3, <1>10

-----------------------------------------------------------------------------
(* Frames *)

\* What YsFrameSet keeps in _frames.
Frame == [start : Nat, length : Int, by : {"tick", "header"}]

\* endFrame changes the length of the current frame and nothing else.
LEMMA EndFrameOf ==
  ASSUME NEW fs \in Seq(Frame), NEW c \in 0 .. Len(fs), NEW time \in Nat
  PROVE  /\ EndFrame(fs, c, time) \in Seq(Frame)
         /\ Len(EndFrame(fs, c, time)) = Len(fs)
         /\ \A i \in 1 .. Len(fs) :
              /\ EndFrame(fs, c, time)[i].start = fs[i].start
              /\ EndFrame(fs, c, time)[i].by = fs[i].by
              /\ EndFrame(fs, c, time)[i].length = IF i = c THEN time - fs[c].start ELSE fs[i].length
<1>1. CASE c = 0
  BY <1>1 DEF EndFrame
<1>2. CASE c # 0
  <2>1. c \in 1 .. Len(fs) /\ fs[c] \in Frame
    BY <1>2
  <2> DEFINE fr == [fs[c] EXCEPT !.length = time - fs[c].start]
  <2>2. fr \in Frame /\ fr.start = fs[c].start /\ fr.by = fs[c].by /\ fr.length = time - fs[c].start
    <3>1. fs[c].start \in Nat /\ fs[c].by \in {"tick", "header"}
      BY <2>1 DEF Frame
    <3>2. time - fs[c].start \in Int
      BY <3>1
    <3>3. fs[c] = [start |-> fs[c].start, length |-> fs[c].length, by |-> fs[c].by]
      BY <2>1 DEF Frame
    <3>4. fr = [start |-> fs[c].start, length |-> time - fs[c].start, by |-> fs[c].by]
      BY <3>3
    <3> QED BY <3>1, <3>2, <3>4 DEF Frame
  <2>3. EndFrame(fs, c, time) = [fs EXCEPT ![c] = fr]
    BY <1>2 DEF EndFrame
  <2> HIDE DEF fr
  <2>4. /\ [fs EXCEPT ![c] = fr] \in Seq(Frame)
        /\ Len([fs EXCEPT ![c] = fr]) = Len(fs)
        /\ \A i \in 1 .. Len(fs) : [fs EXCEPT ![c] = fr][i] = IF i = c THEN fr ELSE fs[i]
    BY <2>1, <2>2
  <2> QED BY <2>2, <2>3, <2>4
<1> QED BY <1>1, <1>2

\* startFrame ends the current frame and appends one, which becomes the current one.
LEMMA StartFrameOf ==
  ASSUME frames \in Seq(Frame), current \in 0 .. Len(frames), NEW time \in Nat,
         NEW by \in {"tick", "header"}, StartFrame(time, by)
  PROVE  /\ frames' \in Seq(Frame)
         /\ Len(frames') = Len(frames) + 1
         /\ current' = Len(frames')
         /\ \A i \in 1 .. Len(frames) :
              /\ frames'[i].start = frames[i].start
              /\ frames'[i].by = frames[i].by
              /\ frames'[i].length = IF i = current THEN time - frames[current].start
                                                    ELSE frames[i].length
         /\ frames'[Len(frames')] = [start |-> time, length |-> 0, by |-> by]
<1> DEFINE e == EndFrame(frames, current, time)
           fr == [start |-> time, length |-> 0, by |-> by]
<1>1. /\ e \in Seq(Frame) /\ Len(e) = Len(frames)
      /\ \A i \in 1 .. Len(frames) :
              /\ e[i].start = frames[i].start
              /\ e[i].by = frames[i].by
              /\ e[i].length = IF i = current THEN time - frames[current].start
                                              ELSE frames[i].length
  BY EndFrameOf
<1>2. frames' = Append(e, fr) /\ current' = Len(frames) + 1 /\ fr \in Frame
  BY DEF StartFrame, Frame
<1> HIDE DEF e, fr
<1>3. /\ Append(e, fr) \in Seq(Frame) /\ Len(Append(e, fr)) = Len(frames) + 1
      /\ \A i \in 1 .. Len(frames) : Append(e, fr)[i] = e[i]
      /\ Append(e, fr)[Len(frames) + 1] = fr
  BY <1>1, <1>2
<1> QED BY <1>1, <1>2, <1>3 DEF fr

-----------------------------------------------------------------------------
(* The inductive invariant *)

\* Every variable has its type.
TypeOK ==
  /\ ws \in Sockets \cup {NULL}
  /\ socket \in [Sockets -> {"new", "connecting", "aborted", "open", "live", "closing",
                             "failed", "closed"}]
  /\ button \in {"Connect", "Connecting...", "Disconnect"}
  /\ frames \in Seq(Frame) /\ current \in 0 .. Len(frames)
  /\ lastTick \in Nat /\ clock \in Nat /\ events \in Nat
  /\ data \in Seq(Value) /\ accum \in Int /\ added \in Int
  /\ late \in BOOLEAN

\* While no socket's end is heard of late: a frame is open exactly while a
\* session is under way, it is the last one and began with the last tick, and
\* no frame of a tick begins after the program's clock.
OpenFrame ==
  ~late => /\ current # 0 <=> ws # NULL /\ socket[ws] = "live"
           /\ current # 0 => current = Len(frames) /\ frames[current].start = lastTick
           /\ \A i \in DOMAIN frames : frames[i].by = "tick" => frames[i].start <= clock

\* What holds in every state; FramesTile and ChartExact need the rest of it.
Inv == /\ TypeOK /\ ButtonTrue /\ OpenFrame /\ FramesTile
       /\ Ordered(data) /\ Total(data) + accum = added

\* Steps that leave the counter alone, or handle an event of it.
LEMMA CounterSteps ==
  ASSUME TypeOK, Ordered(data), Total(data) + accum = added, [Next]_vars
  PROVE  /\ data' \in Seq(Value) /\ accum' \in Int /\ added' \in Int
         /\ Ordered(data)' /\ Total(data') + accum' = added'
<1>1. Total(data) \in Int /\ accum \in Int /\ added \in Int /\ data \in Seq(Value)
  BY TotalInt DEF TypeOK
<1>2. CASE data' = data /\ accum' = accum /\ added' = added
  BY <1>1, <1>2
<1>3. ASSUME NEW s \in Sockets, NEW t \in Times, Tick(s, t)
      PROVE  /\ data' \in Seq(Value) /\ accum' \in Int /\ added' \in Int
             /\ Ordered(data') /\ Total(data') + accum' = added'
  <2>1. accum' = 0 /\ added' = added
    BY <1>3 DEF Tick
  <2>2. CASE accum # 0
    <3> DEFINE v == [time |-> t, sum |-> accum]
    <3>1. v \in Value /\ v.sum = accum
      BY <1>1, ViewerAssumption DEF Value, Times
    <3>2. data' = Inserted(data, v)
      BY <1>3, <2>2 DEF Tick
    <3> HIDE DEF v
    <3>3. Place(data, v) \in 0 .. Len(data)
      BY <1>1, <3>1, PlaceOf
    <3>4. data' \in Seq(Value)
      BY <1>1, <3>1, <3>2, <3>3, InsertedAt
    <3>5. Ordered(data')
      BY <1>1, <3>1, <3>2, InsertedOrdered
    <3>6. Total(data') = Total(data) + accum
      BY <1>1, <3>1, <3>2, InsertedTotal
    <3> QED BY <1>1, <2>1, <3>4, <3>5, <3>6
  <2>3. CASE accum = 0
    <3>1. data' = data
      BY <1>3, <2>3 DEF Tick
    <3> QED BY <1>1, <2>1, <2>3, <3>1
  <2> QED BY <2>2, <2>3
<1>4. ASSUME NEW s \in Sockets, NEW t \in Times, CounterSet(s, t)
      PROVE  /\ data' \in Seq(Value) /\ accum' \in Int /\ added' \in Int
             /\ Ordered(data') /\ Total(data') + accum' = added'
  <2> DEFINE v == [time |-> t, sum |-> 0]
  <2>1. v \in Value /\ v.sum = 0
    BY ViewerAssumption DEF Value, Times
  <2>2. data' = Inserted(data, v) /\ accum' = accum /\ added' = added
    BY <1>4 DEF CounterSet
  <2> HIDE DEF v
  <2>3. Place(data, v) \in 0 .. Len(data)
    BY <1>1, <2>1, PlaceOf
  <2>4. data' \in Seq(Value)
    BY <1>1, <2>1, <2>2, <2>3, InsertedAt
  <2>5. Ordered(data')
    BY <1>1, <2>1, <2>2, InsertedOrdered
  <2>6. Total(data') = Total(data) + 0
    BY <1>1, <2>1, <2>2, InsertedTotal
  <2> QED BY <1>1, <2>2, <2>4, <2>5, <2>6
<1>5. ASSUME NEW s \in Sockets, NEW a \in Amounts, CounterAdd(s, a)
      PROVE  /\ data' \in Seq(Value) /\ accum' \in Int /\ added' \in Int
             /\ Ordered(data') /\ Total(data') + accum' = added'
  <2>1. data' = data /\ accum' = accum + a /\ added' = added + a /\ a \in Int
    BY <1>5, ViewerAssumption DEF CounterAdd
  <2> QED BY <1>1, <2>1
<1>6. CASE ClickDisconnect
  BY <1>2, <1>6 DEF ClickDisconnect, Disconnected, program
<1>7. ASSUME NEW s \in Sockets, ClickConnect(s) \/ Browser(s) PROVE data' = data /\ accum' = accum /\ added' = added
  BY <1>7 DEF ClickConnect, Browser, OnOpen, OnError, OnClose, Disconnected, store, program
<1>8. ASSUME NEW s \in Sockets, NEW t \in Times, Header(s, t) PROVE data' = data /\ accum' = accum /\ added' = added
  BY <1>8 DEF Header
<1>9. CASE UNCHANGED vars
  BY <1>2, <1>9 DEF vars, store, program
<1> QED BY <1>2, <1>3, <1>4, <1>5, <1>6, <1>7, <1>8, <1>9 DEF Next, Event

\* The page's other variables keep their types.
LEMMA PageTypes ==
  ASSUME TypeOK, [Next]_vars
  PROVE  /\ ws' \in Sockets \cup {NULL}
         /\ socket' \in [Sockets -> {"new", "connecting", "aborted", "open", "live", "closing",
                                     "failed", "closed"}]
         /\ button' \in {"Connect", "Connecting...", "Disconnect"}
         /\ lastTick' \in Nat /\ clock' \in Nat /\ events' \in Nat
         /\ late' \in BOOLEAN
<1> USE DEF TypeOK
<1>1. CASE ClickDisconnect
  BY <1>1 DEF ClickDisconnect, Disconnected, program
<1>2. CASE \E s \in Sockets : ClickConnect(s)
  BY <1>2 DEF ClickConnect, store, program
<1>3. CASE \E s \in Sockets : OnOpen(s)
  BY <1>3 DEF OnOpen, store, program
<1>4. CASE \E s \in Sockets : OnError(s)
  BY <1>4 DEF OnError, Forget, store, program
<1>5. CASE \E s \in Sockets : OnClose(s)
  BY <1>5 DEF OnClose, Forget, Disconnected, program
<1>6. CASE \E s \in Sockets, t \in Times : Header(s, t)
  BY <1>6, ViewerAssumption DEF Header, Message, Times
<1>7. CASE \E s \in Sockets, t \in Times : Tick(s, t)
  BY <1>7, ViewerAssumption DEF Tick, Message, Times
<1>8. CASE \E s \in Sockets, t \in Times : CounterSet(s, t)
  BY <1>8 DEF CounterSet, Message
<1>9. CASE \E s \in Sockets, a \in Amounts : CounterAdd(s, a)
  BY <1>9 DEF CounterAdd, Message
<1>10. CASE UNCHANGED vars
  BY <1>10 DEF vars, connection, store, program
<1> QED BY <1>1, <1>2, <1>3, <1>4, <1>5, <1>6, <1>7, <1>8, <1>9, <1>10 DEF Next, Browser, Event

\* The button keeps telling the truth.
LEMMA ButtonSteps ==
  ASSUME TypeOK, ButtonTrue, [Next]_vars
  PROVE  ButtonTrue'
<1> SUFFICES ASSUME ~late'
             PROVE  /\ button' = "Disconnect" <=> ws' # NULL /\ socket'[ws'] \in {"open", "live"}
                    /\ ws' # NULL /\ socket'[ws'] = "connecting" => button' = "Connecting..."
                    /\ \A s \in Sockets : socket'[s] \in {"connecting", "open", "live"} => s = ws'
  BY DEF ButtonTrue
<1> USE DEF TypeOK, ButtonTrue
<1>0. NULL \notin Sockets
  BY ViewerAssumption
<1>1. CASE ClickDisconnect
  <2>1. ~late /\ ws' = NULL /\ button' = "Connect" /\ ws \in Sockets
    BY <1>1 DEF ClickDisconnect, Disconnected, program
  <2>2. socket'[ws] \in {"aborted", "closing"} /\ \A s \in Sockets : s # ws => socket'[s] = socket[s]
    BY <1>1, <2>1 DEF ClickDisconnect
  <2> QED BY <2>1, <2>2
<1>2. ASSUME NEW s \in Sockets, ClickConnect(s) PROVE ButtonTrue'
  <2>1. ~late /\ ws = NULL /\ ws' = s /\ button' = "Connecting..."
    BY <1>2 DEF ClickConnect
  <2>2. socket'[s] = "connecting" /\ \A r \in Sockets : r # s => socket'[r] = socket[r]
    BY <1>2 DEF ClickConnect
  <2> QED BY <1>0, <2>1, <2>2
<1>3. ASSUME NEW s \in Sockets, OnOpen(s) PROVE ButtonTrue'
  <2>1. ~late /\ ws' = ws /\ button' = "Disconnect" /\ socket[s] = "connecting"
    BY <1>3 DEF OnOpen
  <2>2. socket'[s] = "open" /\ \A r \in Sockets : r # s => socket'[r] = socket[r]
    BY <1>3 DEF OnOpen
  <2> QED BY <1>0, <2>1, <2>2
<1>4. ASSUME NEW s \in Sockets, OnError(s) PROVE ButtonTrue'
  <2>1. ~late /\ ws \in {s, NULL} /\ ws' = NULL /\ button' = button /\ socket[s] \in {"connecting", "aborted"}
    BY <1>4 DEF OnError, Forget
  <2>2. socket'[s] = "failed" /\ \A r \in Sockets : r # s => socket'[r] = socket[r]
    BY <1>4 DEF OnError
  <2> QED BY <1>0, <2>1, <2>2
<1>5. ASSUME NEW s \in Sockets, OnClose(s) PROVE ButtonTrue'
  <2>1. ~late /\ ws \in {s, NULL} /\ ws' = NULL /\ button' = "Connect"
    BY <1>5 DEF OnClose, Forget, Disconnected
  <2>2. socket'[s] = "closed" /\ \A r \in Sockets : r # s => socket'[r] = socket[r]
    BY <1>5 DEF OnClose
  <2> QED BY <1>0, <2>1, <2>2
<1>6. ASSUME NEW s \in Sockets, NEW t \in Times, Header(s, t) PROVE ButtonTrue'
  <2>1. ~late /\ ws' = ws /\ button' = button /\ socket[s] = "open"
    BY <1>6 DEF Header, Message
  <2>2. socket'[s] = "live" /\ \A r \in Sockets : r # s => socket'[r] = socket[r]
    BY <1>6 DEF Header
  <2> QED BY <1>0, <2>1, <2>2
<1>7. CASE UNCHANGED <<ws, socket, button, late>>
  BY <1>7
<1>8. ASSUME NEW s \in Sockets, Event(s)
      PROVE  \/ \E t \in Times : Header(s, t)
             \/ UNCHANGED <<ws, socket, button, late>>
  BY <1>8 DEF Event, Tick, CounterSet, CounterAdd, Message
<1>9. CASE UNCHANGED vars
  BY <1>7, <1>9 DEF vars, connection
<1> QED BY <1>1, <1>2, <1>3, <1>4, <1>5, <1>6, <1>7, <1>8, <1>9 DEF Next, Browser

\* The open frame stays what OpenFrame says, and frames stay end to end: a step
\* leaves the frames alone, ends the open one, or starts one.
LEMMA FrameSteps ==
  ASSUME TypeOK, ButtonTrue, OpenFrame, FramesTile, [Next]_vars
  PROVE  /\ frames' \in Seq(Frame) /\ current' \in 0 .. Len(frames')
         /\ OpenFrame' /\ FramesTile'
<1>0. /\ NULL \notin Sockets /\ frames \in Seq(Frame) /\ current \in 0 .. Len(frames)
      /\ lastTick \in Nat /\ clock \in Nat /\ Len(frames) \in Nat /\ late \in BOOLEAN
      /\ DOMAIN frames = 1 .. Len(frames) /\ ws \in Sockets \cup {NULL}
  BY ViewerAssumption DEF TypeOK
<1>a. \A i \in 1 .. Len(frames) : frames[i].start \in Nat /\ frames[i].length \in Int
  <2>1. \A i \in 1 .. Len(frames) : frames[i] \in Frame
    BY <1>0
  <2> QED BY <2>1 DEF Frame
\* the frames as they are
<1>1. ASSUME UNCHANGED <<frames, current, lastTick, clock>>, ~late' => ~late,
             ~late' => (ws' # NULL /\ socket'[ws'] = "live" <=> ws # NULL /\ socket[ws] = "live")
      PROVE  /\ frames' \in Seq(Frame) /\ current' \in 0 .. Len(frames')
             /\ OpenFrame' /\ FramesTile'
  BY <1>0, <1>1 DEF OpenFrame, FramesTile
\* the current frame is ended, if there is one
<1>2. ASSUME Disconnected, clock' = clock, ~late' => ~late,
             ~late' => ~(ws' # NULL /\ socket'[ws'] = "live")
      PROVE  /\ frames' \in Seq(Frame) /\ current' \in 0 .. Len(frames')
             /\ OpenFrame' /\ FramesTile'
  <2>1. /\ frames' \in Seq(Frame) /\ Len(frames') = Len(frames)
        /\ \A i \in 1 .. Len(frames) :
             /\ frames'[i].start = frames[i].start
             /\ frames'[i].by = frames[i].by
             /\ frames'[i].length = IF i = current THEN lastTick - frames[current].start
                                                   ELSE frames[i].length
    BY <1>0, <1>2, EndFrameOf DEF Disconnected
  <2>2. current' = 0 /\ lastTick' = lastTick
    BY <1>2 DEF Disconnected
  <2>3. DOMAIN frames' = 1 .. Len(frames)
    BY <2>1
  <2>4. OpenFrame'
    BY <1>0, <1>2, <2>1, <2>2, <2>3 DEF OpenFrame
  <2>5. FramesTile'
    <3> SUFFICES ASSUME ~late' PROVE FramesTile'
      BY DEF FramesTile
    <3>1. ~late /\ (current # 0 => current = Len(frames) /\ frames[current].start = lastTick)
      BY <1>2 DEF OpenFrame
    <3>2. ASSUME NEW i \in 1 .. Len(frames), frames'[i].by = "tick" PROVE frames'[i].length >= 0
      <4>1. CASE i = current
        <5>1. lastTick - frames[current].start = 0
          BY <1>0, <3>1, <4>1
        <5> QED BY <2>1, <4>1, <5>1
      <4>2. CASE i # current
        BY <1>0, <2>1, <3>1, <3>2, <4>2 DEF FramesTile
      <4> QED BY <4>1, <4>2
    <3>3. ASSUME NEW i \in 2 .. Len(frames), frames'[i].by = "tick"
          PROVE  frames'[i - 1].start + frames'[i - 1].length = frames'[i].start
      <4>1. i \in 1 .. Len(frames) /\ i - 1 \in 1 .. Len(frames) /\ i - 1 # current
        <5>1. current = 0 \/ current = Len(frames)
          BY <3>1
        <5>2. \A n \in Nat : i \in 2 .. n => i \in 1 .. n /\ i - 1 \in 1 .. n /\ i - 1 # 0 /\ i - 1 # n
          OBVIOUS
        <5> QED BY <1>0, <5>1, <5>2
      <4>2. frames[i].by = "tick" /\ frames'[i].start = frames[i].start
        BY <2>1, <3>3, <4>1
      <4>3. frames'[i - 1].start = frames[i - 1].start /\ frames'[i - 1].length = frames[i - 1].length
        BY <2>1, <4>1
      <4> QED BY <3>1, <4>2, <4>3 DEF FramesTile
    <3> QED BY <2>1, <2>3, <3>2, <3>3 DEF FramesTile
  <2> QED BY <1>0, <2>1, <2>2, <2>4, <2>5
\* a frame is started
<1>3. ASSUME NEW time \in Nat, NEW by \in {"tick", "header"}, StartFrame(time, by), lastTick' = time,
             late' = late, time >= clock, clock' \in {clock, time}, by = "tick" => clock' = time,
             ~late => ws' # NULL /\ socket'[ws'] = "live",
             ~late => (current # 0 <=> by = "tick")
      PROVE  /\ frames' \in Seq(Frame) /\ current' \in 0 .. Len(frames')
             /\ OpenFrame' /\ FramesTile'
  <2> DEFINE n == Len(frames)
  <2>1. /\ frames' \in Seq(Frame) /\ Len(frames') = n + 1 /\ current' = Len(frames')
        /\ \A i \in 1 .. n :
             /\ frames'[i].start = frames[i].start
             /\ frames'[i].by = frames[i].by
             /\ frames'[i].length = IF i = current THEN time - frames[current].start
                                                   ELSE frames[i].length
        /\ frames'[Len(frames')] = [start |-> time, length |-> 0, by |-> by]
    BY <1>0, <1>3, StartFrameOf
  <2>2. /\ frames'[n + 1].start = time /\ frames'[n + 1].length = 0 /\ frames'[n + 1].by = by
    BY <2>1
  <2>3. n \in Nat /\ DOMAIN frames' = 1 .. n + 1 /\ clock' \in Nat /\ clock <= clock'
    BY <1>0, <1>3, <2>1
  <2> HIDE DEF n
  <2>4. ASSUME ~late PROVE \A i \in 1 .. n : frames[i].by = "tick" => frames[i].start <= clock
    BY <1>0, <2>4 DEF OpenFrame, n
  <2>5. OpenFrame'
    <3> SUFFICES ASSUME ~late' PROVE OpenFrame'
      BY DEF OpenFrame
    <3>1. ~late
      BY <1>3
    <3>2. current' # 0 /\ ws' # NULL /\ socket'[ws'] = "live" /\ current' = Len(frames')
      BY <1>3, <2>1, <2>3, <3>1
    <3>3. frames'[current'].start = lastTick'
      BY <1>3, <2>1, <2>2
    <3>4. ASSUME NEW i \in 1 .. n + 1, frames'[i].by = "tick" PROVE frames'[i].start <= clock'
      <4>1. CASE i = n + 1
        <5>1. frames'[i].start = time /\ by = "tick" /\ clock' = time
          BY <1>3, <2>2, <3>4, <4>1
        <5> QED BY <5>1
      <4>2. CASE i # n + 1
        <5>1. i \in 1 .. n
          BY <2>3, <4>2
        <5>2. frames'[i].start = frames[i].start /\ frames[i].start <= clock /\ frames[i].start \in Nat
          BY <1>a, <2>1, <2>4, <3>1, <3>4, <5>1 DEF n
        <5> QED BY <1>0, <2>3, <5>2
      <4> QED BY <4>1, <4>2
    <3> QED BY <2>3, <3>2, <3>3, <3>4 DEF OpenFrame
  <2>6. FramesTile'
    <3> SUFFICES ASSUME ~late' PROVE FramesTile'
      BY DEF FramesTile
    <3>1. ~late /\ (current # 0 => current = n) /\ (current # 0 <=> by = "tick")
      BY <1>3 DEF OpenFrame, n
    <3>2. ASSUME NEW i \in 1 .. n + 1, frames'[i].by = "tick" PROVE frames'[i].length >= 0
      <4>1. CASE i = n + 1
        BY <2>2, <4>1
      <4>2. CASE i # n + 1 /\ i = current
        <5>1. i \in 1 .. n /\ frames[i].by = "tick" /\ frames[i].start \in Nat
          BY <1>a, <2>1, <2>3, <3>2, <4>2 DEF n
        <5>2. frames[i].start <= clock /\ frames'[i].length = time - frames[i].start
          BY <2>1, <2>4, <3>1, <4>2, <5>1
        <5> QED BY <1>0, <1>3, <5>1, <5>2
      <4>3. CASE i # n + 1 /\ i # current
        <5>1. i \in 1 .. n
          BY <2>3, <4>3
        <5>2. frames[i].by = "tick" /\ frames'[i].length = frames[i].length
          BY <2>1, <3>2, <4>3, <5>1
        <5> QED BY <1>0, <3>1, <5>1, <5>2 DEF FramesTile, n
      <4> QED BY <4>1, <4>2, <4>3
    <3>3. ASSUME NEW i \in 2 .. n + 1, frames'[i].by = "tick"
          PROVE  frames'[i - 1].start + frames'[i - 1].length = frames'[i].start
      <4>1. CASE i = n + 1
        <5>1. by = "tick" /\ current = n /\ n \in 1 .. n /\ i - 1 = n
          BY <2>2, <2>3, <3>1, <3>3, <4>1
        <5>2. /\ frames'[n].start = frames[n].start /\ frames[n].start \in Nat
              /\ frames'[n].length = time - frames[n].start
          BY <1>a, <2>1, <5>1 DEF n
        <5> QED BY <1>3, <2>2, <4>1, <5>1, <5>2
      <4>2. CASE i # n + 1
        <5>1. i \in 1 .. n /\ i \in 2 .. n /\ i - 1 \in 1 .. n /\ i - 1 # n
          BY <2>3, <4>2
        <5>2. i - 1 # current
          BY <2>3, <3>1, <5>1
        <5>3. frames[i].by = "tick" /\ frames'[i].start = frames[i].start
          BY <2>1, <3>3, <5>1
        <5>4. frames'[i - 1].start = frames[i - 1].start /\ frames'[i - 1].length = frames[i - 1].length
          BY <2>1, <5>1, <5>2
        <5> QED BY <3>1, <5>1, <5>3, <5>4 DEF FramesTile, n
      <4> QED BY <4>1, <4>2
    <3> QED BY <2>1, <2>3, <3>2, <3>3 DEF FramesTile
  <2> QED BY <2>1, <2>3, <2>5, <2>6
<1> DEFINE Holds == /\ frames' \in Seq(Frame) /\ current' \in 0 .. Len(frames')
                    /\ OpenFrame' /\ FramesTile'
<1>4. ASSUME ClickDisconnect PROVE Holds
  <2>1. Disconnected /\ clock' = clock /\ late' = late /\ ws' = NULL
    BY <1>4 DEF ClickDisconnect, program
  <2> QED BY <1>2, <2>1
<1>5. ASSUME NEW s \in Sockets, ClickConnect(s) PROVE Holds
  <2>1. UNCHANGED <<frames, current, lastTick, clock>> /\ late' = late /\ ws = NULL /\ ws' = s
    BY <1>5 DEF ClickConnect, store, program
  <2>2. socket'[s] = "connecting"
    BY <1>5 DEF ClickConnect, TypeOK
  <2> QED BY <1>1, <2>1, <2>2
<1>6. ASSUME NEW s \in Sockets, OnOpen(s) PROVE Holds
  <2>1. UNCHANGED <<frames, current, lastTick, clock>> /\ late' = late /\ ws' = ws /\ socket[s] = "connecting"
    BY <1>6 DEF OnOpen, store, program
  <2>2. socket'[s] = "open" /\ \A r \in Sockets : r # s => socket'[r] = socket[r]
    BY <1>6 DEF OnOpen, TypeOK
  <2>3. ws # NULL /\ socket[ws] = "live" <=> ws # NULL /\ socket'[ws] = "live"
    BY <1>0, <2>1, <2>2
  <2> QED BY <1>1, <2>1, <2>3
<1>7. ASSUME NEW s \in Sockets, OnError(s) PROVE Holds
  <2>1. UNCHANGED <<frames, current, lastTick, clock>> /\ ws' = NULL
        /\ late' = (late \/ ws \notin {s, NULL}) /\ socket[s] \in {"connecting", "aborted"}
    BY <1>7 DEF OnError, Forget, store, program
  <2>2. ~late' => ~late /\ ~(ws # NULL /\ socket[ws] = "live")
    BY <1>0, <2>1
  <2> QED BY <1>1, <2>1, <2>2
<1>8. ASSUME NEW s \in Sockets, OnClose(s) PROVE Holds
  <2>1. Disconnected /\ clock' = clock /\ ws' = NULL /\ (~late' => ~late)
    BY <1>0, <1>8 DEF OnClose, Forget, program
  <2> QED BY <1>2, <2>1
<1>9. ASSUME NEW s \in Sockets, NEW t \in Times, Header(s, t) PROVE Holds
  <2>1. /\ StartFrame(t, "header") /\ lastTick' = t /\ late' = late /\ ws' = ws /\ t >= clock
        /\ clock' = clock /\ socket[s] = "open" /\ t \in Nat
    BY <1>9, ViewerAssumption DEF Header, Message, Times
  <2>2. socket'[s] = "live"
    BY <1>9 DEF Header, TypeOK
  <2>3. ~late => ws = s /\ ws # NULL /\ current = 0
    BY <1>0, <2>1 DEF ButtonTrue, OpenFrame
  <2>4. ~late => ws' # NULL /\ socket'[ws'] = "live"
    BY <2>1, <2>2, <2>3
  <2>5. ~late => (current # 0 <=> "header" = "tick")
    BY <2>3
  <2> QED BY <1>3, <2>1, <2>4, <2>5
<1>10. ASSUME NEW s \in Sockets, NEW t \in Times, Tick(s, t) PROVE Holds
  <2>1. /\ StartFrame(t, "tick") /\ lastTick' = t /\ late' = late /\ ws' = ws /\ t >= clock
        /\ clock' = t /\ socket[s] = "live" /\ socket' = socket /\ t \in Nat
    BY <1>10, ViewerAssumption DEF Tick, Message, Times
  <2>2. ~late => ws = s /\ ws # NULL /\ current # 0
    BY <1>0, <2>1 DEF ButtonTrue, OpenFrame
  <2>3. ~late => ws' # NULL /\ socket'[ws'] = "live"
    BY <2>1, <2>2
  <2>4. ~late => (current # 0 <=> "tick" = "tick")
    BY <2>2
  <2> QED BY <1>3, <2>1, <2>3, <2>4
<1>11. ASSUME UNCHANGED <<frames, current, lastTick, clock, late, ws, socket>> PROVE Holds
  BY <1>1, <1>11
<1>12. ASSUME NEW s \in Sockets, NEW t \in Times, CounterSet(s, t) PROVE Holds
  BY <1>11, <1>12 DEF CounterSet, Message
<1>13. ASSUME NEW s \in Sockets, NEW a \in Amounts, CounterAdd(s, a) PROVE Holds
  BY <1>11, <1>13 DEF CounterAdd, Message
<1>14. ASSUME UNCHANGED vars PROVE Holds
  BY <1>11, <1>14 DEF vars, connection, store, program
<1> HIDE DEF Holds
<1>15. ASSUME NEW s \in Sockets, ClickConnect(s) \/ Browser(s) PROVE Holds
  BY <1>5, <1>6, <1>7, <1>8, <1>15 DEF Browser
<1>16. ASSUME NEW s \in Sockets, Event(s) PROVE Holds
  BY <1>9, <1>10, <1>12, <1>13, <1>16 DEF Event
<1>17. Holds
  BY <1>4, <1>14, <1>15, <1>16 DEF Next
<1> QED BY <1>17 DEF Holds

-----------------------------------------------------------------------------
(* The theorems *)

\* A counter without values sums to nothing.
LEMMA TotalEmpty == Total(<< >>) = 0
<1> DEFINE f == [i \in 0 .. 0 |-> 0]
<1>1. << >> \in Seq(Value) /\ Len(<< >>) = 0 /\ PartialSums(f, << >>)
  BY DEF PartialSums
<1>2. Total(<< >>) = f[Len(<< >>)]
  <2> HIDE DEF f
  <2> QED BY <1>1, TotalOf
<1> QED BY <1>1, <1>2

\* The page starts in a state of the invariant.
LEMMA InitInv == Init => Inv
<1> SUFFICES ASSUME Init PROVE Inv
  OBVIOUS
<1> USE DEF Init
<1>1. TypeOK
  <2>1. frames \in Seq(Frame) /\ Len(frames) = 0 /\ data \in Seq(Value)
    OBVIOUS
  <2>2. current \in 0 .. Len(frames) /\ lastTick \in Nat /\ clock \in Nat /\ events \in Nat
        /\ accum \in Int /\ added \in Int
    BY <2>1
  <2> QED BY <2>1, <2>2 DEF TypeOK
<1>2. ButtonTrue /\ OpenFrame /\ FramesTile
  BY DEF ButtonTrue, OpenFrame, FramesTile
<1>3. Ordered(data)
  BY DEF Ordered
<1>4. Total(data) + accum = added
  BY TotalEmpty
<1> QED BY <1>1, <1>2, <1>3, <1>4 DEF Inv

\* Every step keeps the invariant.
LEMMA NextInv == Inv /\ [Next]_vars => Inv'
<1> SUFFICES ASSUME Inv, [Next]_vars PROVE Inv'
  OBVIOUS
<1>1. TypeOK /\ ButtonTrue /\ OpenFrame /\ FramesTile /\ Ordered(data) /\ Total(data) + accum = added
  BY DEF Inv
<1>2. /\ data' \in Seq(Value) /\ accum' \in Int /\ added' \in Int
      /\ Ordered(data)' /\ Total(data') + accum' = added'
  BY <1>1, CounterSteps
<1>3. /\ frames' \in Seq(Frame) /\ current' \in 0 .. Len(frames')
      /\ OpenFrame' /\ FramesTile'
  BY <1>1, FrameSteps
<1>4. ButtonTrue'
  BY <1>1, ButtonSteps
<1>5. TypeOK'
  BY <1>1, <1>2, <1>3, PageTypes DEF TypeOK
<1> QED BY <1>2, <1>3, <1>4, <1>5 DEF Inv

\* The inductive invariant of the viewer: the types, the button, the open frame,
\* the order of a counter's values and their sum.
THEOREM Invariance == Spec => []Inv
<1> QED BY InitInv, NextInv, PTL DEF Spec

\* However sockets open, fail and close, and whatever is pressed meanwhile: as
\* long as no socket's end is heard of late, the button says what a press will do.
THEOREM ButtonTells == Spec => []ButtonTrue
<1>1. Inv => ButtonTrue
  BY DEF Inv
<1> QED BY <1>1, Invariance, PTL

\* For any number of sessions and ticks, the frames of a session lie end to end
\* and none of a tick has a negative length.
THEOREM FramesLieEndToEnd == Spec => []FramesTile
<1>1. Inv => FramesTile
  BY DEF Inv
<1> QED BY <1>1, Invariance, PTL

\* For any number of values at any times, the binary search of a chart finds
\* exactly the values from a time on, the first value excepted.
THEOREM ChartsAreExact == Spec => []ChartExact
<1>1. ASSUME Inv PROVE ChartExact
  <2> SUFFICES ASSUME NEW t \in Times
               PROVE  LET first == FindIndex([i \in DOMAIN data |-> data[i].time], t)
                      IN  \A i \in 2 .. Len(data) : i > first <=> data[i].time >= t
    BY DEF ChartExact
  <2> DEFINE keys == [i \in DOMAIN data |-> data[i].time]
  <2>1. data \in Seq(Value) /\ Ordered(data) /\ t \in Int
    BY <1>1, ViewerAssumption DEF Inv, TypeOK, Times
  <2>2. Len(data) \in Nat /\ DOMAIN data = 1 .. Len(data)
    BY <2>1
  <2>3. keys \in Seq(Int) /\ Len(keys) = Len(data) /\ \A i \in 1 .. Len(data) : keys[i] = data[i].time
    <3>1. \A i \in 1 .. Len(data) : data[i] \in Value
      BY <2>1
    <3>2. \A i \in 1 .. Len(data) : data[i].time \in Int
      BY <3>1 DEF Value
    <3> QED BY <2>2, <3>2
  <2> HIDE DEF keys
  <2>4. \A i, j \in 2 .. Len(keys) : i < j => keys[i] <= keys[j]
    BY <2>1, <2>2, <2>3 DEF Ordered
  <2>5. \A i \in 2 .. Len(keys) : i > FindIndex(keys, t) <=> keys[i] >= t
    BY <2>1, <2>3, <2>4, SearchFinds
  <2>6. \A i \in 2 .. Len(data) : i > FindIndex(keys, t) <=> data[i].time >= t
    BY <2>2, <2>3, <2>5
  <2> QED BY <2>6 DEF keys
<1> QED BY <1>1, Invariance, PTL

\* However counter events, ticks and connections follow on each other, the
\* values of a counter and what it has not stored yet sum to what was received.
THEOREM AmountsAreConserved == Spec => []AmountsConserved
<1>1. Inv => AmountsConserved
  BY DEF Inv, AmountsConserved, Sums, Total
<1> QED BY <1>1, Invariance, PTL
=============================================================================
