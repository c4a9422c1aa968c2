------------------------------ MODULE Induction ------------------------------
(***************************************************************************)
(* Induction over the natural numbers, stated with sets in the place of    *)
(* predicates, and what it gives for functions that are defined by         *)
(* recursion over an interval of numbers.                                  *)
(***************************************************************************)
EXTENDS Integers, FiniteSetTheorems, WellFoundedInduction, TLAPS

\* A set of numbers that is not empty has a least member.
LEMMA LeastMember ==
  ASSUME NEW T, T \subseteq Nat, T # {}
  PROVE  \E n \in T : \A m \in T : n <= m
<1> DEFINE Below == {0 .. n : n \in T}
<1>1. IsWellFoundedOn(StrictSubsetOrdering(Nat), FiniteSubsetsOf(Nat))
  BY FS_StrictSubsetOrderingWellFounded
<1>2. Below \subseteq FiniteSubsetsOf(Nat) /\ Below # {}
  <2>1. ASSUME NEW n \in T PROVE 0 .. n \in FiniteSubsetsOf(Nat)
    BY FS_Interval DEF FiniteSubsetsOf
  <2> QED BY <2>1
<1>3. PICK x \in Below : \A y \in Below : <<y, x>> \notin StrictSubsetOrdering(Nat)
  <2> HIDE DEF Below
  <2> QED BY <1>1, <1>2, WFMin
<1>4. PICK n \in T : x = 0 .. n
  BY <1>3
<1>5. ASSUME NEW m \in T, m < n PROVE FALSE
  <2>1. 0 .. m \in SUBSET Nat /\ 0 .. n \in SUBSET Nat /\ 0 .. m \subseteq 0 .. n
    BY <1>5
  <2>2. n \in 0 .. n /\ n \notin 0 .. m
    BY <1>5
  <2>3. <<0 .. m, x>> \in StrictSubsetOrdering(Nat)
    BY <1>4, <2>1, <2>2 DEF StrictSubsetOrdering
  <2> QED BY <1>3, <2>3
<1> QED BY <1>5

\* A set that holds 0 and the successor of each of its numbers holds them all.
LEMMA SetInduction ==
  ASSUME NEW T, 0 \in T, \A n \in Nat : n \in T => n + 1 \in T
  PROVE  Nat \subseteq T
<1> SUFFICES ASSUME Nat \ T # {} PROVE FALSE
  OBVIOUS
<1>1. PICK n \in Nat \ T : \A m \in Nat \ T : n <= m
  BY LeastMember
<1>2. n - 1 \in Nat /\ n - 1 \in T
  BY <1>1
<1> QED BY <1>2

\* The values that the step h computes from a, one after the other, N times.
Recursions(S, a, h, N) ==
  {f \in [0 .. N -> S] : f[0] = a /\ \A n \in 1 .. N : f[n] = h[n][f[n - 1]]}

\* A value can be computed from the one before it, as often as one likes.
LEMMA RecursionsExist ==
  ASSUME NEW S, NEW a \in S, NEW h \in [Nat -> [S -> S]], NEW N \in Nat
  PROVE  Recursions(S, a, h, N) # {}
<1> DEFINE Good(f, m) == f[0] = a /\ \A n \in 1 .. m : f[n] = h[n][f[n - 1]]
           T == {m \in Nat : \E f \in [0 .. m -> S] : Good(f, m)}
<1>1. 0 \in T
  <2>1. [n \in 0 .. 0 |-> a] \in [0 .. 0 -> S] /\ Good([n \in 0 .. 0 |-> a], 0)
    OBVIOUS
  <2> QED BY <2>1
<1>2. ASSUME NEW m \in Nat, m \in T PROVE m + 1 \in T
  <2>1. PICK f \in [0 .. m -> S] : Good(f, m)
    BY <1>2
  <2> DEFINE g == [n \in 0 .. m + 1 |-> IF n = m + 1 THEN h[m + 1][f[m]] ELSE f[n]]
  <2>2. h[m + 1][f[m]] \in S
    OBVIOUS
  <2>3. g \in [0 .. m + 1 -> S]
    BY <2>2
  <2>4. g[0] = a
    BY <2>1
  <2>5. ASSUME NEW n \in 1 .. m + 1 PROVE g[n] = h[n][g[n - 1]]
    <3>1. CASE n = m + 1
      <4>1. m \in 0 .. m + 1 /\ m # m + 1 /\ n - 1 = m
        BY <3>1
      <4>2. g[n] = h[m + 1][f[m]] /\ g[m] = f[m]
        BY <3>1, <4>1
      <4> QED BY <3>1, <4>1, <4>2
    <3>2. CASE n # m + 1
      <4>1. n \in 1 .. m /\ n \in 0 .. m + 1 /\ n - 1 \in 0 .. m + 1 /\ n - 1 # m + 1
        BY <3>2
      <4> QED BY <2>1, <3>2, <4>1
    <3> QED BY <3>1, <3>2
  <2>6. Good(g, m + 1)
    BY <2>4, <2>5
  <2> HIDE DEF g
  <2> QED BY <2>3, <2>6
<1>3. Nat \subseteq T
  <2> HIDE DEF T
  <2> QED BY <1>1, <1>2, SetInduction
<1>4. PICK f \in [0 .. N -> S] : Good(f, N)
  <2> HIDE DEF Good
  <2> QED BY <1>3
<1>5. f \in Recursions(S, a, h, N)
  BY <1>4 DEF Recursions
<1> QED BY <1>5

\* The same, with the values spelled out.
LEMMA RecursionExists ==
  ASSUME NEW S, NEW a \in S, NEW h \in [Nat -> [S -> S]], NEW N \in Nat
  PROVE  \E f \in [0 .. N -> S] : /\ f[0] = a
                                  /\ \A n \in 1 .. N : f[n] = h[n][f[n - 1]]
<1>1. Recursions(S, a, h, N) # {}
  BY RecursionsExist
<1> QED BY <1>1 DEF Recursions

\* The step H computes a function's value at a point from its values at points of lower rank.
Ranked(D, S, rank, H) ==
  \A f, g \in [D -> S] : \A p \in D :
    (\A q \in D : rank[q] < rank[p] => f[q] = g[q]) => H[f][p] = H[g][p]

\* The functions that a step maps to themselves: what a recursive definition defines.
FixedPoints(D, S, H) == {f \in [D -> S] : H[f] = f}

\* There is one when the step is ranked: recursion over anything with a rank.
LEMMA FixedPointExists ==
  ASSUME NEW D, NEW S, NEW s0 \in S, NEW N \in Nat, NEW rank \in [D -> 0 .. N],
         NEW H \in [[D -> S] -> [D -> S]], Ranked(D, S, rank, H)
  PROVE  FixedPoints(D, S, H) # {}
<1>0. \A f, g \in [D -> S] : \A p \in D :
        (\A q \in D : rank[q] < rank[p] => f[q] = g[q]) => H[f][p] = H[g][p]
  BY DEF Ranked
<1> DEFINE F == [D -> S]
           h == [n \in Nat |-> H]
           f0 == [p \in D |-> s0]
<1>1. PICK it \in [0 .. N + 2 -> F] : /\ it[0] = f0
                                       /\ \A n \in 1 .. N + 2 : it[n] = h[n][it[n - 1]]
  <2>1. f0 \in F /\ h \in [Nat -> [F -> F]] /\ N + 2 \in Nat
    OBVIOUS
  <2>2. Recursions(F, f0, h, N + 2) # {}
    <3> HIDE DEF F, h, f0
    <3> QED BY <2>1, RecursionsExist
  <2> QED BY <2>2 DEF Recursions
<1>2. \A n \in 0 .. N + 1 : it[n + 1] = H[it[n]]
  <2> SUFFICES ASSUME NEW n \in 0 .. N + 1 PROVE it[n + 1] = H[it[n]]
    OBVIOUS
  <2>1. n + 1 \in 1 .. N + 2 /\ n + 1 \in Nat /\ (n + 1) - 1 = n
    OBVIOUS
  <2> QED BY <1>1, <2>1
<1> DEFINE T == {n \in Nat : n <= N + 1 => \A p \in D : rank[p] < n => it[n + 1][p] = it[n][p]}
<1>3. 0 \in T
  <2>1. \A p \in D : ~(rank[p] < 0)
    <3>1. \A p \in D : rank[p] \in 0 .. N
      OBVIOUS
    <3> QED BY <3>1
  <2> QED BY <2>1
<1>4. ASSUME NEW n \in Nat, n \in T PROVE n + 1 \in T
  <2> SUFFICES ASSUME n + 1 <= N + 1, NEW p \in D, rank[p] < n + 1
               PROVE  it[n + 2][p] = it[n + 1][p]
    <3>1. n + 1 \in Nat /\ (n + 1) + 1 = n + 2
      OBVIOUS
    <3> QED BY <3>1
  <2>1. n \in 0 .. N + 1 /\ n + 1 \in 0 .. N + 1 /\ it[n] \in F /\ it[n + 1] \in F
    OBVIOUS
  <2>2. it[n + 1] = H[it[n]] /\ it[n + 2] = H[it[n + 1]]
    <3>1. (n + 1) + 1 = n + 2
      OBVIOUS
    <3>2. it[(n + 1) + 1] = H[it[n + 1]] /\ it[n + 1] = H[it[n]]
      BY <1>2, <2>1
    <3> QED BY <3>1, <3>2
  <2>3. \A q \in D : rank[q] < rank[p] => it[n + 1][q] = it[n][q]
    <3>1. ASSUME NEW q \in D, rank[q] < rank[p] PROVE rank[q] < n
      <4>1. rank[q] \in 0 .. N /\ rank[p] \in 0 .. N
        OBVIOUS
      <4> QED BY <3>1, <4>1
    <3> QED BY <1>4, <2>1, <3>1
  <2>4. H[it[n + 1]][p] = H[it[n]][p]
    BY <1>0, <2>1, <2>3
  <2> QED BY <2>2, <2>4
<1>5. N + 1 \in T
  <2> HIDE DEF T
  <2> QED BY <1>3, <1>4, SetInduction
<1>6. it[N + 1] \in F /\ it[N + 2] \in F /\ it[N + 2] = H[it[N + 1]]
  <2>1. N + 1 \in 0 .. N + 1 /\ N + 1 \in 0 .. N + 2 /\ N + 2 \in 0 .. N + 2
    OBVIOUS
  <2>2. it[(N + 1) + 1] = H[it[N + 1]] /\ (N + 1) + 1 = N + 2
    BY <1>2, <2>1
  <2> QED BY <2>1, <2>2
<1>7. \A p \in D : it[N + 2][p] = it[N + 1][p]
  <2>1. \A p \in D : rank[p] < N + 1
    <3>1. \A p \in D : rank[p] \in 0 .. N
      OBVIOUS
    <3> QED BY <3>1
  <2>2. (N + 1) + 1 = N + 2
    OBVIOUS
  <2> QED BY <1>5, <2>1, <2>2
<1>8. it[N + 2] = it[N + 1]
  BY <1>6, <1>7
<1>9. it[N + 1] \in FixedPoints(D, S, H)
  BY <1>6, <1>8 DEF FixedPoints
<1> QED BY <1>9

\* A set of numbers that is bounded and not empty has a greatest member.
LEMMA GreatestMember ==
  ASSUME NEW N \in Nat, NEW T, T \subseteq 0 .. N, T # {}
  PROVE  \E n \in T : \A m \in T : n >= m
<1> DEFINE U == {N - n : n \in T}
<1>1. U \subseteq Nat /\ U # {}
  <2>1. \A n \in T : n \in 0 .. N
    OBVIOUS
  <2>2. \A n \in T : N - n \in Nat
    BY <2>1
  <2> QED BY <2>2
<1>2. PICK u \in U : \A m \in U : u <= m
  <2> HIDE DEF U
  <2> QED BY <1>1, LeastMember
<1>3. PICK n \in T : u = N - n
  OBVIOUS
<1>4. ASSUME NEW m \in T PROVE n >= m
  <2>1. N - m \in U /\ m \in 0 .. N /\ n \in 0 .. N
    OBVIOUS
  <2>2. N - n <= N - m
    BY <1>2, <1>3, <2>1
  <2> QED BY <2>1, <2>2
<1> QED BY <1>4
=============================================================================
