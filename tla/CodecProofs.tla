------------------------------- MODULE CodecProofs -------------------------------
(***************************************************************************)
(* Proofs about PayloadCodecs, for every radix and every length: frames    *)
(* and deltas are taken apart as they were put together.                   *)
(*                                                                         *)
(* What a recursive function computes is shown by induction.  A formula    *)
(* about numbers stands as the set of the numbers at which it holds, so    *)
(* that induction is the lemma UpTo about sets: a least number that is not *)
(* in the set would have to follow one that is.  With it come, in this     *)
(* order: the functions of PayloadCodecs satisfy the equations they are    *)
(* defined by; digits have the number as their value; varints and frames;  *)
(* the checksum, column by column and word by word; a command of a delta,  *)
(* in a buffer that may end anywhere; the loop of apply_delta().           *)
(***************************************************************************)
EXTENDS MCPositions, FiniteSetTheorems, SequenceTheorems, TLAPS

-----------------------------------------------------------------------------
(* Induction: every set of naturals has a least member, which the library  *)
(* gives for sets of intervals, ordered by inclusion                       *)

LEMMA Least ==
    ASSUME NEW S, S \subseteq Nat, S # {}
    PROVE  \E m \in S : \A k \in S : m <= k
<1> PICK n \in S : TRUE
  OBVIOUS
<1> DEFINE R == StrictSubsetOrdering(0..n)
<1> DEFINE T == {0..k : k \in {j \in S : j <= n}}
<1>0. IsFiniteSet(0..n)
  BY FS_Interval
<1>1. IsWellFoundedOn(R, SUBSET (0..n))
  BY <1>0, FS_StrictSubsetOrderingWellFounded, FS_FiniteSubsetsOfFinite
<1>2. T \subseteq SUBSET (0..n) /\ T # {}
  OBVIOUS
<1>3. PICK x \in T : \A y \in T : ~(<<y, x>> \in R)
  <2> HIDE DEF R, T
  <2> QED
    BY <1>1, <1>2, WFMin
<1>4. PICK m \in S : m <= n /\ x = 0..m
  OBVIOUS
<1>5. ASSUME NEW k \in S, k < m PROVE FALSE
  <2>1. m \in 0..m /\ m \notin 0..k
    BY <1>5
  <2>2. 0..k \subseteq 0..m /\ 0..k # 0..m
    BY <1>5, <2>1
  <2>3. <<0..k, 0..m>> \in R
    BY <2>2, <1>4, <1>5 DEF StrictSubsetOrdering
  <2>4. 0..k \in T
    BY <1>4, <1>5
  <2> QED
    BY <1>3, <1>4, <2>3, <2>4
<1> QED
  <2>1. \A k \in S : ~(k < m)
    BY <1>5
  <2> QED
    BY <1>4, <2>1

\* Induction up to n, for the set of numbers at which a formula holds.
LEMMA UpTo ==
    ASSUME NEW n \in Nat, NEW P, 0 \in P, \A i \in 0..(n - 1) : i \in P => i + 1 \in P
    PROVE  \A i \in 0..n : i \in P
<1> DEFINE S == {i \in 0..n : i \notin P}
<1>1. SUFFICES ASSUME S # {} PROVE FALSE
  OBVIOUS
<1>2. PICK m \in S : \A k \in S : m <= k
  <2>1. S \subseteq Nat
    OBVIOUS
  <2> HIDE DEF S
  <2> QED
    BY <1>1, <2>1, Least
<1>3. m \in 1..n /\ m - 1 \in 0..(n - 1) /\ m - 1 \notin S
  BY <1>2
<1> QED
  BY <1>2, <1>3

LEMMA Division ==
    ASSUME NEW x \in Nat, NEW b \in Nat \ {0}
    PROVE  /\ x \div b \in Nat /\ x % b \in 0..(b - 1)
           /\ x = (x \div b) * b + (x % b)
           /\ x < b => x \div b = 0 /\ x % b = x
           /\ b # 1 /\ x # 0 => x \div b < x
<1>1. x \div b \in Int /\ x % b \in 0..(b - 1)
  OBVIOUS
<1>2. x = b * (x \div b) + (x % b)
  OBVIOUS
<1> DEFINE q == x \div b
<1> DEFINE r == x % b
<1>3. q \in Int /\ r \in 0..(b - 1) /\ x = b * q + r
  BY <1>1, <1>2
<1> SUFFICES /\ q \in Nat /\ x = q * b + r /\ (x < b => q = 0 /\ r = x)
             /\ (b # 1 /\ x # 0 => q < x)
  BY <1>1
<1> HIDE DEF q, r
<1>4. q >= 0
  <2> SUFFICES ASSUME q <= -1 PROVE FALSE
    BY <1>3
  <2>1. b * q <= -b
    BY <1>3
  <2> QED
    BY <1>3, <2>1
<1>5. x < b => q = 0
  <2> SUFFICES ASSUME q >= 1 PROVE x >= b
    BY <1>3, <1>4
  <2>1. b * q >= b
    BY <1>3
  <2> QED
    BY <1>3, <2>1
<1>6. ASSUME b # 1, x # 0 PROVE q < x
  <2>1. CASE q = 0
    BY <1>6, <2>1
  <2>2. CASE q >= 1
    <3>1. b * q >= 2 * q
      BY <1>6, <2>2, <1>3
    <3> QED
      BY <1>3, <2>2, <3>1
  <2> QED
    BY <1>3, <1>4, <2>1, <2>2
<1>7. q * b = b * q
  BY <1>3
<1> QED
  BY <1>3, <1>4, <1>5, <1>6, <1>7

-----------------------------------------------------------------------------
(* Sequences that stand in others *)

LEMMA Joined ==
    ASSUME NEW S, NEW s \in Seq(S), NEW t \in Seq(S)
    PROVE  /\ s \o t \in Seq(S) /\ Len(s) \in Nat /\ Len(t) \in Nat /\ Len(s \o t) = Len(s) + Len(t)
           /\ \A j \in 1..Len(s) : (s \o t)[j] = s[j]
           /\ \A j \in 1..Len(t) : (s \o t)[Len(s) + j] = t[j]
<1>1. /\ s \o t \in Seq(S) /\ Len(s \o t) = Len(s) + Len(t) /\ Len(s) \in Nat /\ Len(t) \in Nat
      /\ \A i \in 1..Len(s) + Len(t) : (s \o t)[i] = IF i <= Len(s) THEN s[i] ELSE t[i - Len(s)]
  BY ConcatProperties
<1> DEFINE u == s \o t
<1> DEFINE a == Len(s)
<1> DEFINE b == Len(t)
<1>2. a \in Nat /\ b \in Nat /\ \A i \in 1..(a + b) : u[i] = IF i <= a THEN s[i] ELSE t[i - a]
  BY <1>1
<1> HIDE DEF u, a, b
<1>3. ASSUME NEW j \in 1..a PROVE u[j] = s[j]
  BY <1>2
<1>4. ASSUME NEW j \in 1..b PROVE u[a + j] = t[j]
  <2>1. a + j \in 1..(a + b) /\ ~(a + j <= a) /\ (a + j) - a = j
    BY <1>2
  <2>2. u[a + j] = t[(a + j) - a]
    BY <1>2, <2>1
  <2> QED
    BY <2>1, <2>2
<1> QED
  BY <1>1, <1>3, <1>4 DEF u, a, b

\* s stands in data after the first k.
Stands(s, data, k) == \A j \in 1..Len(s) : data[k + j] = s[j]

LEMMA Cut ==
    ASSUME NEW S, NEW s \in Seq(S), NEW data, NEW k \in Nat, Stands(s, data, k)
    PROVE  SubSeq(data, k + 1, k + Len(s)) = s
<1> DEFINE n == Len(s)
<1>1. n \in Nat /\ (\A j \in 1..n : data[k + j] = s[j]) /\ \A j \in 1..n : s[j] \in S
  BY DEF Stands
<1> HIDE DEF n
<1>2. \A i \in (k + 1)..(k + n) : data[i] \in S
  <2> TAKE i \in (k + 1)..(k + n)
  <2>1. i - k \in 1..n /\ k + (i - k) = i
    BY <1>1
  <2>2. data[k + (i - k)] = s[i - k]
    BY <1>1, <2>1
  <2> QED
    BY <1>1, <2>1, <2>2
<1> DEFINE x == SubSeq(data, k + 1, k + n)
<1>3. x \in Seq(S) /\ Len(x) = (IF k + 1 <= k + n THEN (k + n) - (k + 1) + 1 ELSE 0)
      /\ \A i \in 1..((k + n) - (k + 1) + 1) : x[i] = data[(k + 1) + i - 1]
  <2>1. k + 1 \in Int /\ k + n \in Int
    BY <1>1
  <2> QED
    BY <1>2, <2>1, SubSeqProperties
<1> HIDE DEF x
<1>4. Len(x) = n
  BY <1>1, <1>3
<1>5. \A i \in 1..n : x[i] = s[i]
  <2> TAKE i \in 1..n
  <2>1. (k + 1) + i - 1 = k + i /\ i \in 1..((k + n) - (k + 1) + 1)
    BY <1>1
  <2>2. x[i] = data[(k + 1) + i - 1]
    BY <1>3, <2>1
  <2> QED
    BY <1>1, <2>1, <2>2
<1>6. x = s
  BY <1>3, <1>4, <1>5, SeqEqual DEF n
<1> QED
  BY <1>6 DEF x, n

LEMMA StandsWithin ==
    ASSUME NEW S, NEW s \in Seq(S), NEW t \in Seq(S), NEW data, NEW k \in Nat, Stands(s \o t, data, k)
    PROVE  Stands(s, data, k) /\ Stands(t, data, k + Len(s))
<1>1. /\ Len(s) \in Nat /\ Len(t) \in Nat /\ Len(s \o t) = Len(s) + Len(t)
      /\ \A j \in 1..Len(s) : (s \o t)[j] = s[j]
      /\ \A j \in 1..Len(t) : (s \o t)[Len(s) + j] = t[j]
  BY Joined
<1> DEFINE u == s \o t
<1> DEFINE a == Len(s)
<1> DEFINE b == Len(t)
<1>2. /\ a \in Nat /\ b \in Nat /\ (\A j \in 1..a : u[j] = s[j]) /\ (\A j \in 1..b : u[a + j] = t[j])
      /\ \A j \in 1..(a + b) : data[k + j] = u[j]
  BY <1>1 DEF Stands
<1> HIDE DEF u, a, b
<1>3. ASSUME NEW j \in 1..a PROVE data[k + j] = s[j]
  <2>1. j \in 1..(a + b)
    BY <1>2
  <2> QED
    BY <1>2, <2>1
<1>4. ASSUME NEW j \in 1..b PROVE data[(k + a) + j] = t[j]
  <2>1. a + j \in 1..(a + b) /\ (k + a) + j = k + (a + j)
    BY <1>2
  <2>2. data[k + (a + j)] = u[a + j]
    BY <1>2, <2>1
  <2> QED
    BY <1>2, <2>1, <2>2
<1> QED
  BY <1>3, <1>4 DEF Stands, a, b
-----------------------------------------------------------------------------
(* The recursive functions satisfy their equations *)

\* The functions on 0..n that F defines by recursion, from a value at 0.
Defined(F, base, n, S) ==
    {g \in [0..n -> S] : g = [i \in 0..n |-> IF i = 0 THEN base ELSE F[i][g[i - 1]]]}

LEMMA Recursion ==
    ASSUME NEW S, NEW base \in S, NEW n \in Nat, NEW F \in [1..n -> [S -> S]]
    PROVE  Defined(F, base, n, S) # {}
<1> DEFINE Eq(g, m) == g = [i \in 0..m |-> IF i = 0 THEN base ELSE F[i][g[i - 1]]]
<1> DEFINE P == {m \in 0..n : \E g \in [0..m -> S] : Eq(g, m)}
<1>1. 0 \in P
  <2> DEFINE g == [i \in 0..0 |-> base]
  <2>1. Eq(g, 0) /\ g \in [0..0 -> S]
    OBVIOUS
  <2> HIDE DEF Eq, g
  <2> QED
    BY <2>1
<1>2. ASSUME NEW m \in 0..(n - 1), m \in P PROVE m + 1 \in P
  <2>1. PICK g \in [0..m -> S] : Eq(g, m)
    BY <1>2
  <2> DEFINE h == [i \in 0..(m + 1) |-> IF i = 0 THEN base ELSE F[i][g[i - 1]]]
  <2>2. ASSUME NEW i \in 0..(m + 1)
        PROVE  h[i] = (IF i = 0 THEN base ELSE F[i][h[i - 1]]) /\ h[i] \in S
    <3>1. CASE i = 0
      BY <3>1
    <3>2. CASE i # 0
      <4>1. i - 1 \in 0..m /\ i - 1 \in 0..(m + 1) /\ i \in 1..n
        BY <3>2
      <4>2. h[i - 1] = g[i - 1] /\ g[i - 1] \in S
        BY <2>1, <4>1
      <4> QED
        BY <3>2, <4>1, <4>2
    <3> QED
      BY <3>1, <3>2
  <2>3. Eq(h, m + 1) /\ h \in [0..(m + 1) -> S]
    BY <2>2
  <2>4. m + 1 \in 0..n
    OBVIOUS
  <2> HIDE DEF Eq, h
  <2> QED
    BY <2>3, <2>4
<1>3. \A i \in 0..n : i \in P
  <2> HIDE DEF P
  <2> QED
    BY <1>1, <1>2, UpTo
<1> QED
  BY <1>3 DEF Defined

LEMMA QuotientsRec ==
    ASSUME NEW n \in Nat, NEW base \in Nat \ {0}
    PROVE  /\ Quotients(n, base) \in [0..n -> Nat]
           /\ Quotients(n, base)[0] = n
           /\ \A i \in 1..n : Quotients(n, base)[i] = Quotients(n, base)[i - 1] \div base
<1> DEFINE F == [i \in 1..n |-> [x \in Nat |-> x \div base]]
<1>1. F \in [1..n -> [Nat -> Nat]]
  BY Division
<1>2. \A i \in 1..n, x \in Nat : F[i][x] = x \div base
  OBVIOUS
<1> HIDE DEF F
<1>3. PICK g \in Defined(F, n, n, Nat) : TRUE
  <2>1. Defined(F, n, n, Nat) # {}
    BY <1>1, Recursion
  <2> QED
    BY <2>1
<1>9. g = [i \in 0..n |-> IF i = 0 THEN n ELSE g[i - 1] \div base]
  <2>1. g \in [0..n -> Nat] /\ g = [i \in 0..n |-> IF i = 0 THEN n ELSE F[i][g[i - 1]]]
    BY <1>3 DEF Defined
  <2>2. ASSUME NEW i \in 0..n, i # 0 PROVE F[i][g[i - 1]] = g[i - 1] \div base
    <3>1. i \in 1..n /\ i - 1 \in 0..n
      BY <2>2
    <3>2. g[i - 1] \in Nat
      BY <2>1, <3>1
    <3> QED
      BY <1>2, <3>1, <3>2
  <2> QED
    BY <2>1, <2>2
<1>4. \E f : f = [i \in 0..n |-> IF i = 0 THEN n ELSE f[i - 1] \div base]
  BY <1>9
<1> DEFINE q == Quotients(n, base)
<1>5. q = [i \in 0..n |-> IF i = 0 THEN n ELSE q[i - 1] \div base]
  BY <1>4 DEF Quotients
<1> HIDE DEF q
<1>6. q[0] = n /\ \A i \in 1..n : q[i] = q[i - 1] \div base
  BY <1>5
<1>7. \A i \in 0..n : q[i] \in Nat
  <2> DEFINE P == {i \in 0..n : q[i] \in Nat}
  <2>1. 0 \in P
    BY <1>6
  <2>2. ASSUME NEW i \in 0..(n - 1), i \in P PROVE i + 1 \in P
    <3>1. q[i + 1] = q[i] \div base /\ q[i] \in Nat
      BY <1>6, <2>2
    <3>2. q[i + 1] \in Nat
      BY <3>1, Division
    <3> QED
      BY <3>2
  <2>3. \A i \in 0..n : i \in P
    <3> HIDE DEF P
    <3> QED
      BY <2>1, <2>2, UpTo
  <2> QED
    BY <2>3
<1>8. q \in [0..n -> Nat]
  BY <1>5, <1>7
<1> QED
  BY <1>6, <1>8 DEF q

LEMMA ValuesRec ==
    ASSUME NEW base \in Nat, NEW s \in Seq(Nat)
    PROVE  /\ Values(s, base) \in [0..Len(s) -> Nat]
           /\ Values(s, base)[0] = 0
           /\ \A i \in 1..Len(s) : Values(s, base)[i] = Values(s, base)[i - 1] * base + s[i]
<1> DEFINE n == Len(s)
<1> DEFINE F == [i \in 1..n |-> [x \in Nat |-> x * base + s[i]]]
<1>1. n \in Nat /\ \A i \in 1..n : s[i] \in Nat
  OBVIOUS
<1> HIDE DEF n
<1>2. F \in [1..n -> [Nat -> Nat]]
  BY <1>1
<1>3. \A i \in 1..n, x \in Nat : F[i][x] = x * base + s[i]
  OBVIOUS
<1> HIDE DEF F
<1>4. PICK g \in Defined(F, 0, n, Nat) : TRUE
  <2>1. Defined(F, 0, n, Nat) # {}
    BY <1>1, <1>2, Recursion
  <2> QED
    BY <2>1
<1>5. g = [i \in 0..n |-> IF i = 0 THEN 0 ELSE g[i - 1] * base + s[i]]
  <2>1. g \in [0..n -> Nat] /\ g = [i \in 0..n |-> IF i = 0 THEN 0 ELSE F[i][g[i - 1]]]
    BY <1>4 DEF Defined
  <2>2. ASSUME NEW i \in 0..n, i # 0 PROVE F[i][g[i - 1]] = g[i - 1] * base + s[i]
    <3>1. i \in 1..n /\ i - 1 \in 0..n
      BY <1>1, <2>2
    <3>2. g[i - 1] \in Nat
      BY <2>1, <3>1
    <3> QED
      BY <1>3, <3>1, <3>2
  <2> QED
    BY <2>1, <2>2
<1>6. \E f : f = [i \in 0..Len(s) |-> IF i = 0 THEN 0 ELSE f[i - 1] * base + s[i]]
  BY <1>5 DEF n
<1> DEFINE v == Values(s, base)
<1>7. v = [i \in 0..n |-> IF i = 0 THEN 0 ELSE v[i - 1] * base + s[i]]
  BY <1>6 DEF Values, n
<1> HIDE DEF v
<1>8. v[0] = 0 /\ \A i \in 1..n : v[i] = v[i - 1] * base + s[i]
  BY <1>1, <1>7
<1>9. \A i \in 0..n : v[i] \in Nat
  <2> DEFINE P == {i \in 0..n : v[i] \in Nat}
  <2>1. 0 \in P
    BY <1>1, <1>8
  <2>2. ASSUME NEW i \in 0..(n - 1), i \in P PROVE i + 1 \in P
    <3>1. i + 1 \in 1..n /\ v[i] \in Nat /\ s[i + 1] \in Nat
      BY <1>1, <2>2
    <3>2. v[i + 1] \in Nat
      <4>1. v[i + 1] = v[i] * base + s[i + 1]
        BY <1>8, <3>1
      <4> DEFINE x == v[i] * base
      <4>2. x \in Nat
        BY <3>1
      <4>3. v[i + 1] = x + s[i + 1]
        BY <4>1
      <4> HIDE DEF x
      <4> QED
        BY <3>1, <4>2, <4>3
    <3> QED
      BY <3>1, <3>2
  <2>3. \A i \in 0..n : i \in P
    <3> HIDE DEF P
    <3> QED
      BY <1>1, <2>1, <2>2, UpTo
  <2> QED
    BY <2>3
<1>10. v \in [0..n -> Nat]
  BY <1>7, <1>9
<1> QED
  BY <1>8, <1>10 DEF v, n

LEMMA SumsRec ==
    ASSUME NEW s \in Seq(Nat)
    PROVE  /\ Sums(s) \in [0..Len(s) -> Nat]
           /\ Sums(s)[0] = 0
           /\ \A i \in 1..Len(s) : Sums(s)[i] = Sums(s)[i - 1] + s[i]
<1> DEFINE n == Len(s)
<1> DEFINE F == [i \in 1..n |-> [x \in Nat |-> x + s[i]]]
<1>1. n \in Nat /\ \A i \in 1..n : s[i] \in Nat
  OBVIOUS
<1> HIDE DEF n
<1>2. F \in [1..n -> [Nat -> Nat]]
  BY <1>1
<1>3. \A i \in 1..n, x \in Nat : F[i][x] = x + s[i]
  OBVIOUS
<1> HIDE DEF F
<1>4. PICK g \in Defined(F, 0, n, Nat) : TRUE
  <2>1. Defined(F, 0, n, Nat) # {}
    BY <1>1, <1>2, Recursion
  <2> QED
    BY <2>1
<1>5. g = [i \in 0..n |-> IF i = 0 THEN 0 ELSE g[i - 1] + s[i]]
  <2>1. g \in [0..n -> Nat] /\ g = [i \in 0..n |-> IF i = 0 THEN 0 ELSE F[i][g[i - 1]]]
    BY <1>4 DEF Defined
  <2>2. ASSUME NEW i \in 0..n, i # 0 PROVE F[i][g[i - 1]] = g[i - 1] + s[i]
    <3>1. i \in 1..n /\ i - 1 \in 0..n
      BY <1>1, <2>2
    <3>2. g[i - 1] \in Nat
      BY <2>1, <3>1
    <3> QED
      BY <1>3, <3>1, <3>2
  <2> QED
    BY <2>1, <2>2
<1>6. \E f : f = [i \in 0..Len(s) |-> IF i = 0 THEN 0 ELSE f[i - 1] + s[i]]
  BY <1>5 DEF n
<1> DEFINE v == Sums(s)
<1>7. v = [i \in 0..n |-> IF i = 0 THEN 0 ELSE v[i - 1] + s[i]]
  BY <1>6 DEF Sums, n
<1> HIDE DEF v
<1>8. v[0] = 0 /\ \A i \in 1..n : v[i] = v[i - 1] + s[i]
  BY <1>1, <1>7
<1>9. \A i \in 0..n : v[i] \in Nat
  <2> DEFINE P == {i \in 0..n : v[i] \in Nat}
  <2>1. 0 \in P
    BY <1>1, <1>8
  <2>2. ASSUME NEW i \in 0..(n - 1), i \in P PROVE i + 1 \in P
    <3>1. i + 1 \in 1..n /\ v[i] \in Nat /\ s[i + 1] \in Nat
      BY <1>1, <2>2
    <3>2. v[i + 1] \in Nat
      <4>1. v[i + 1] = v[i] + s[i + 1]
        BY <1>8, <3>1
      <4> QED
        BY <3>1, <4>1
    <3> QED
      BY <3>1, <3>2
  <2>3. \A i \in 0..n : i \in P
    <3> HIDE DEF P
    <3> QED
      BY <1>1, <2>1, <2>2, UpTo
  <2> QED
    BY <2>3
<1>10. v \in [0..n -> Nat]
  BY <1>7, <1>9
<1> QED
  BY <1>8, <1>10 DEF v, n

\* What FlattenSeq joins, one sequence after the other.
Joins(seqs, S) ==
    {f \in [0..Len(seqs) -> Seq(S)] : f[0] = <<>> /\ \A i \in 1..Len(seqs) : f[i] = f[i - 1] \o seqs[i]}

LEMMA FlattenRec ==
    ASSUME NEW S, NEW seqs \in Seq(Seq(S))
    PROVE  \E f \in Joins(seqs, S) : FlattenSeq(seqs) = f[Len(seqs)]
<1> DEFINE n == Len(seqs)
<1> DEFINE F == [i \in 1..n |-> [x \in Seq(S) |-> x \o seqs[i]]]
<1>1. n \in Nat /\ (\A i \in 1..n : seqs[i] \in Seq(S)) /\ <<>> \in Seq(S)
  OBVIOUS
<1>2. n = 0 => seqs = <<>>
  OBVIOUS
<1> HIDE DEF n
<1>3. F \in [1..n -> [Seq(S) -> Seq(S)]]
  BY <1>1
<1>4. \A i \in 1..n, x \in Seq(S) : F[i][x] = x \o seqs[i]
  OBVIOUS
<1> HIDE DEF F
<1>5. PICK g \in Defined(F, <<>>, n, Seq(S)) : TRUE
  <2>1. Defined(F, <<>>, n, Seq(S)) # {}
    BY <1>1, <1>3, Recursion
  <2> QED
    BY <2>1
<1>6. g \in [0..n -> Seq(S)] /\ g = [i \in 0..n |-> IF i = 0 THEN <<>> ELSE F[i][g[i - 1]]]
  BY <1>5 DEF Defined
<1>7. g[0] = <<>>
  BY <1>1, <1>6
<1>8. ASSUME NEW i \in 1..n PROVE g[i] = g[i - 1] \o seqs[i]
  <2>1. i \in 0..n /\ i - 1 \in 0..n
    BY <1>1
  <2>2. g[i - 1] \in Seq(S)
    BY <1>6, <2>1
  <2>3. g[i] = F[i][g[i - 1]]
    BY <1>6, <2>1
  <2> QED
    BY <1>4, <2>2, <2>3
<1>9. g \in Joins(seqs, S)
  BY <1>6, <1>7, <1>8 DEF Joins, n
<1>10. CASE n = 0
  BY <1>2, <1>7, <1>9, <1>10 DEF FlattenSeq, n
<1>11. CASE n # 0
  <2> DEFINE h == [i \in 1..n |-> g[i]]
  <2>1. h = [i \in 1..n |-> IF i = 1 THEN seqs[i] ELSE h[i - 1] \o seqs[i]]
    <3>1. ASSUME NEW i \in 1..n PROVE g[i] = IF i = 1 THEN seqs[i] ELSE h[i - 1] \o seqs[i]
      <4>1. CASE i = 1
        <5>1. 1 \in 1..n /\ 1 - 1 = 0
          BY <4>1
        <5>2. g[1] = g[1 - 1] \o seqs[1] /\ seqs[1] \in Seq(S)
          BY <1>1, <1>8, <5>1
        <5> QED
          BY <1>7, <4>1, <5>1, <5>2, ConcatEmptySeq
      <4>2. CASE i # 1
        <5>1. i - 1 \in 1..n
          BY <1>1, <4>2
        <5> QED
          BY <1>8, <4>2, <5>1
      <4> QED
        BY <4>1, <4>2
    <3> QED
      BY <3>1
  <2> HIDE DEF h
  <2>2. \E f : f = [i \in 1..Len(seqs) |-> IF i = 1 THEN seqs[i] ELSE f[i - 1] \o seqs[i]]
    BY <2>1 DEF n
  <2> DEFINE v == CHOOSE f : f = [i \in 1..Len(seqs) |-> IF i = 1 THEN seqs[i] ELSE f[i - 1] \o seqs[i]]
  <2>3. v = [i \in 1..n |-> IF i = 1 THEN seqs[i] ELSE v[i - 1] \o seqs[i]]
    BY <2>2 DEF n
  <2>4. FlattenSeq(seqs) = v[n]
    BY <1>11 DEF FlattenSeq, n
  <2> HIDE DEF v
  <2> DEFINE P == {i \in 0..n : i # 0 => v[i] = g[i]}
  <2>5. 0 \in P
    BY <1>1
  <2>6. ASSUME NEW i \in 0..(n - 1), i \in P PROVE i + 1 \in P
    <3>1. i + 1 \in 1..n /\ (i + 1) - 1 = i
      BY <1>1
    <3>2. g[i + 1] = IF i + 1 = 1 THEN seqs[i + 1] ELSE h[i] \o seqs[i + 1]
      <4>1. h[i + 1] = IF i + 1 = 1 THEN seqs[i + 1] ELSE h[(i + 1) - 1] \o seqs[i + 1]
        BY <2>1, <3>1
      <4> QED
        BY <3>1, <4>1 DEF h
    <3>3. v[i + 1] = IF i + 1 = 1 THEN seqs[i + 1] ELSE v[i] \o seqs[i + 1]
      <4>1. v[i + 1] = IF i + 1 = 1 THEN seqs[i + 1] ELSE v[(i + 1) - 1] \o seqs[i + 1]
        BY <2>3, <3>1
      <4> QED
        BY <3>1, <4>1
    <3>4. i # 0 => h[i] = g[i] /\ v[i] = g[i]
      BY <2>6 DEF h
    <3> QED
      BY <3>1, <3>2, <3>3, <3>4
  <2>7. \A i \in 0..n : i \in P
    <3> HIDE DEF P
    <3> QED
      BY <1>1, <2>5, <2>6, UpTo
  <2>8. v[n] = g[n]
    BY <1>1, <1>11, <2>7
  <2> QED
    BY <1>9, <2>4, <2>8 DEF n
<1> QED
  BY <1>10, <1>11

-----------------------------------------------------------------------------
(* Digits and values *)

LEMMA LastQuotient ==
    ASSUME NEW n \in Nat, NEW base \in Nat \ {0, 1}
    PROVE  \E i \in 0..n : Quotients(n, base)[i] < base /\ \A j \in 0..(i - 1) : Quotients(n, base)[j] >= base
<1> DEFINE q == Quotients(n, base)
<1>1. q \in [0..n -> Nat] /\ q[0] = n /\ \A i \in 1..n : q[i] = q[i - 1] \div base
  BY QuotientsRec
<1> HIDE DEF q
<1> DEFINE P == {i \in 0..n : q[i] <= n - i}
<1>2. 0 \in P
  BY <1>1
<1>3. ASSUME NEW i \in 0..(n - 1), i \in P PROVE i + 1 \in P
  <2>1. i + 1 \in 1..n /\ (i + 1) - 1 = i /\ q[i] \in Nat /\ q[i] <= n - i
    BY <1>1, <1>3
  <2>2. q[i + 1] = q[i] \div base
    <3>1. q[i + 1] = q[(i + 1) - 1] \div base
      BY <1>1, <2>1
    <3> QED
      BY <2>1, <3>1
  <2>3. q[i] = 0 => q[i + 1] = 0
    BY <2>1, <2>2, Division
  <2>4. q[i] # 0 => q[i + 1] < q[i]
    BY <2>1, <2>2, Division
  <2>5. q[i + 1] \in Nat
    BY <1>1, <2>1
  <2> QED
    BY <2>1, <2>3, <2>4, <2>5
<1>4. \A i \in 0..n : i \in P
  <2> HIDE DEF P
  <2> QED
    BY <1>2, <1>3, UpTo
<1>5. q[n] = 0
  <2>1. n \in P /\ q[n] \in Nat
    BY <1>1, <1>4
  <2> QED
    BY <2>1
<1> DEFINE S == {i \in 0..n : q[i] < base}
<1>6. S \subseteq Nat /\ n \in S
  BY <1>5
<1>7. PICK m \in S : \A k \in S : m <= k
  <2> HIDE DEF S
  <2> QED
    BY <1>6, Least
<1>8. ASSUME NEW j \in 0..(m - 1) PROVE q[j] >= base
  <2>1. j \in 0..n /\ j \notin S /\ q[j] \in Nat
    BY <1>1, <1>7
  <2> QED
    BY <2>1
<1> QED
  BY <1>7, <1>8 DEF q

\* Digits are digits, at least one, and their value is the number.
LEMMA DigitsValue ==
    ASSUME NEW n \in Nat, NEW base \in Nat \ {0, 1}
    PROVE  /\ Digits(n, base) \in Seq(0..(base - 1)) /\ Len(Digits(n, base)) \in Nat \ {0}
           /\ Value(Digits(n, base), base) = n
<1> DEFINE q == Quotients(n, base)
<1> DEFINE last == CHOOSE i \in 0..n : q[i] < base /\ \A j \in 0..(i - 1) : q[j] >= base
<1> DEFINE s == Digits(n, base)
<1>1. q \in [0..n -> Nat] /\ q[0] = n /\ \A i \in 1..n : q[i] = q[i - 1] \div base
  BY QuotientsRec
<1>2. last \in 0..n /\ q[last] < base
  BY LastQuotient
<1>3. s = [i \in 1..(last + 1) |-> q[last + 1 - i] % base]
  BY DEF Digits
<1> HIDE DEF q, last, s
<1>4. ASSUME NEW i \in 1..(last + 1) PROVE s[i] = q[last + 1 - i] % base /\ s[i] \in 0..(base - 1)
  <2>1. last + 1 - i \in 0..n /\ q[last + 1 - i] \in Nat
    BY <1>1, <1>2
  <2> QED
    BY <1>3, <2>1, Division
<1>5. s \in [1..(last + 1) -> 0..(base - 1)]
  BY <1>3, <1>4
<1>6. s \in Seq(0..(base - 1)) /\ Len(s) = last + 1
  <2>1. last + 1 \in Nat
    BY <1>2
  <2> QED
    BY <1>5, <2>1
<1>7. s \in Seq(Nat)
  <2>1. 0..(base - 1) \subseteq Nat
    OBVIOUS
  <2> QED
    BY <1>6, <2>1, SeqMonotonic
<1> DEFINE v == Values(s, base)
<1>8. v \in [0..(last + 1) -> Nat] /\ v[0] = 0 /\ \A i \in 1..(last + 1) : v[i] = v[i - 1] * base + s[i]
  BY <1>6, <1>7, ValuesRec
<1> HIDE DEF v
<1> DEFINE P == {i \in 0..(last + 1) : i # 0 => v[i] = q[last + 1 - i]}
<1>9. 0 \in P
  BY <1>2
<1>10. ASSUME NEW i \in 0..((last + 1) - 1), i \in P PROVE i + 1 \in P
  <2>1. i + 1 \in 1..(last + 1) /\ (i + 1) - 1 = i /\ last - i \in 0..n /\ last + 1 - (i + 1) = last - i
    BY <1>2
  <2>2. v[i + 1] = v[i] * base + (q[last - i] % base)
    <3>1. v[i + 1] = v[(i + 1) - 1] * base + s[i + 1] /\ s[i + 1] = q[last + 1 - (i + 1)] % base
      BY <1>4, <1>8, <2>1
    <3> QED
      BY <2>1, <3>1
  <2>3. q[last - i] \in Nat
    BY <1>1, <2>1
  <2>4. v[i] = q[last - i] \div base
    <3>1. CASE i = 0
      <4>1. q[last] \div base = 0
        BY <1>1, <1>2, Division
      <4> QED
        BY <1>2, <1>8, <3>1, <4>1
    <3>2. CASE i # 0
      <4>1. last + 1 - i \in 1..n /\ (last + 1 - i) - 1 = last - i
        BY <1>2, <3>2
      <4>2. q[last + 1 - i] = q[(last + 1 - i) - 1] \div base
        BY <1>1, <4>1
      <4>3. v[i] = q[last + 1 - i]
        BY <1>10, <3>2
      <4> QED
        BY <4>1, <4>2, <4>3
    <3> QED
      BY <3>1, <3>2
  <2>5. v[i + 1] = q[last - i]
    BY <2>2, <2>3, <2>4, Division
  <2> QED
    BY <2>1, <2>5
<1>11. \A i \in 0..(last + 1) : i \in P
  <2>1. last + 1 \in Nat
    BY <1>2
  <2> HIDE DEF P
  <2> QED
    BY <1>9, <1>10, <2>1, UpTo
<1>12. v[last + 1] = n
  <2>1. last + 1 \in P /\ last + 1 # 0 /\ last + 1 - (last + 1) = 0
    BY <1>2, <1>11
  <2> QED
    BY <1>1, <2>1
<1> QED
  BY <1>2, <1>6, <1>12 DEF Value, s, v

-----------------------------------------------------------------------------
(* Varints *)

LEMMA Remainder ==
    ASSUME NEW b \in Nat \ {0}, NEW q \in Nat, NEW r \in 0..(b - 1)
    PROVE  (q * b + r) % b = r /\ (q * b + r) \div b = q
<1> DEFINE x == q * b + r
<1> DEFINE q1 == x \div b
<1> DEFINE r1 == x % b
<1>1. x \in Nat
  OBVIOUS
<1>2. q1 \in Nat /\ r1 \in 0..(b - 1) /\ x = q1 * b + r1
  <2> HIDE DEF x
  <2> QED
    BY <1>1, Division
<1>3. q1 * b + r1 = q * b + r
  BY <1>2
<1> HIDE DEF q1, r1
<1>4. ASSUME q1 >= q + 1 PROVE FALSE
  <2>1. q1 * b >= (q + 1) * b
    BY <1>2, <1>4
  <2>2. (q + 1) * b = q * b + b
    OBVIOUS
  <2> QED
    BY <1>2, <1>3, <2>1, <2>2
<1>5. ASSUME q >= q1 + 1 PROVE FALSE
  <2>1. q * b >= (q1 + 1) * b
    BY <1>2, <1>5
  <2>2. (q1 + 1) * b = q1 * b + b
    BY <1>2
  <2> QED
    BY <1>2, <1>3, <2>1, <2>2
<1>6. q1 = q
  BY <1>2, <1>4, <1>5
<1>7. r1 = r
  BY <1>2, <1>3, <1>6
<1> QED
  BY <1>6, <1>7 DEF q1, r1

\* A varint that stands in a buffer is read as the number, and read to its end.
LEMMA VarintDecoded ==
    ASSUME NEW number \in Nat, NEW buffer, NEW p \in Nat \ {0}, Len(buffer) \in Nat,
           p + Len(VarintEncode(number)) - 1 <= Len(buffer),
           \A i \in 1..Len(VarintEncode(number)) : buffer[p + i - 1] = VarintEncode(number)[i]
    PROVE  VarintDecode(buffer, p) = [v |-> number, pos |-> p + Len(VarintEncode(number))]
<1> DEFINE d == Digits(number, Group)
<1> DEFINE k == Len(d)
<1> DEFINE e == VarintEncode(number)
<1>1. Group \in Nat \ {0, 1}
  BY RadixAssumption
<1>2. d \in Seq(0..(Group - 1)) /\ k \in Nat \ {0} /\ Value(d, Group) = number
  BY <1>1, DigitsValue
<1> HIDE DEF d
<1>5. d = [i \in 1..k |-> d[i]] /\ \A i \in 1..k : d[i] \in 0..(Group - 1)
  <2> DEFINE S == 0..(Group - 1)
  <2>1. d \in Seq(S) /\ Len(d) \in Nat
    BY <1>2
  <2> HIDE DEF S
  <2>2. d = [i \in 1..Len(d) |-> d[i]] /\ \A i \in 1..Len(d) : d[i] \in S
    BY <2>1
  <2> QED
    BY <2>2 DEF S, k
<1>3. e = [i \in 1..k |-> IF i < k THEN d[k + 1 - i] + Group ELSE d[1]]
  BY DEF VarintEncode, d
<1>4. Len(e) = k
  BY <1>2, <1>3
<1> HIDE DEF e, k
<1>6. ASSUME NEW i \in 1..k PROVE (LastGroup(e[i]) <=> i = k) /\ e[i] % Group = d[k + 1 - i]
  <2>1. k + 1 - i \in 1..k /\ d[k + 1 - i] \in 0..(Group - 1)
    BY <1>2, <1>5
  <2>2. CASE i < k
    <3>1. e[i] = 1 * Group + d[k + 1 - i]
      BY <1>1, <1>3, <2>1, <2>2
    <3>2. (1 * Group + d[k + 1 - i]) % Group = d[k + 1 - i]
      <4>1. Group \in Nat \ {0} /\ 1 \in Nat
        BY <1>1
      <4> QED
        BY <4>1, <2>1, Remainder
    <3>3. ~(e[i] < Group)
      BY <1>1, <2>1, <3>1
    <3> QED
      BY <1>2, <2>2, <3>1, <3>2, <3>3 DEF LastGroup
  <2>3. CASE i = k
    <3>1. e[i] = d[k + 1 - i] /\ e[i] \in Nat /\ e[i] < Group
      BY <1>1, <1>3, <2>1, <2>3
    <3> QED
      BY <1>1, <2>3, <3>1, Division DEF LastGroup
  <2> QED
    BY <1>2, <2>2, <2>3
<1> DEFINE stop == CHOOSE i \in p..Len(buffer) :
                     LastGroup(buffer[i]) /\ \A j \in p..(i - 1) : ~LastGroup(buffer[j])
<1>7. ASSUME NEW j \in p..(p + k - 1) PROVE buffer[j] = e[j + 1 - p] /\ (LastGroup(buffer[j]) <=> j = p + k - 1)
  <2>1. j + 1 - p \in 1..k /\ p + (j + 1 - p) - 1 = j /\ (j + 1 - p = k <=> j = p + k - 1)
    BY <1>2
  <2>2. buffer[p + (j + 1 - p) - 1] = e[j + 1 - p]
    BY <1>4, <2>1 DEF e
  <2>3. buffer[j] = e[j + 1 - p]
    BY <2>1, <2>2
  <2>4. LastGroup(e[j + 1 - p]) <=> j + 1 - p = k
    BY <1>6, <2>1
  <2> QED
    BY <2>1, <2>3, <2>4
<1>8. p + k - 1 \in p..Len(buffer) /\ p + k - 1 \in p..(p + k - 1)
  BY <1>2, <1>4 DEF e
<1>9. stop = p + k - 1
  <2> DEFINE m == p + k - 1
  <2>1. LastGroup(buffer[m]) /\ \A j \in p..(m - 1) : ~LastGroup(buffer[j])
    <3>1. ASSUME NEW j \in p..(m - 1) PROVE ~LastGroup(buffer[j])
      <4>1. j \in p..(p + k - 1) /\ j # p + k - 1
        BY <1>2
      <4> QED
        BY <1>7, <4>1
    <3> QED
      BY <1>7, <1>8, <3>1
  <2>2. m \in p..Len(buffer)
    BY <1>8
  <2> HIDE DEF m
  <2>3. stop \in p..Len(buffer) /\ LastGroup(buffer[stop]) /\ \A j \in p..(stop - 1) : ~LastGroup(buffer[j])
    BY <2>1, <2>2
  <2> HIDE DEF stop
  <2>4. stop = m
    <3>1. CASE stop < m
      <4>1. stop \in p..(m - 1)
        BY <2>2, <2>3, <3>1
      <4> QED
        BY <2>1, <2>3, <4>1
    <3>2. CASE stop > m
      <4>1. m \in p..(stop - 1)
        BY <2>2, <2>3, <3>2
      <4> QED
        BY <2>1, <2>3, <4>1
    <3> QED
      BY <2>2, <2>3, <3>1, <3>2
  <2> QED
    BY <2>4 DEF m
<1> HIDE DEF stop
<1> DEFINE group == [i \in 1..(stop + 1 - p) |-> buffer[stop + 1 - i] % Group]
<1>10. group = d
  <2>1. stop + 1 - p = k
    BY <1>2, <1>9
  <2>2. ASSUME NEW i \in 1..k PROVE buffer[stop + 1 - i] % Group = d[i]
    <3>1. stop + 1 - i \in p..(p + k - 1) /\ (stop + 1 - i) + 1 - p = k + 1 - i /\ k + 1 - i \in 1..k
          /\ k + 1 - (k + 1 - i) = i
      BY <1>2, <1>9
    <3>2. buffer[stop + 1 - i] = e[k + 1 - i]
      BY <1>7, <3>1
    <3> QED
      BY <1>6, <3>1, <3>2
  <2> QED
    BY <1>5, <2>1, <2>2
<1>11. VarintDecode(buffer, p) = [v |-> Value(group, Group), pos |-> stop + 1]
  BY DEF VarintDecode, stop
<1> HIDE DEF group
<1> QED
  BY <1>2, <1>4, <1>9, <1>10, <1>11 DEF e

-----------------------------------------------------------------------------
(* Frames *)

\* Joined sequences: each part stands where the parts before it end.
LEMMA JoinsTypes ==
    ASSUME NEW S, NEW seqs \in Seq(Seq(S)), NEW f \in Joins(seqs, S)
    PROVE  /\ Len(seqs) \in Nat /\ f[0] = <<>> /\ Len(f[0]) = 0
           /\ \A i \in 0..Len(seqs) : f[i] \in Seq(S) /\ Len(f[i]) \in Nat
           /\ \A i \in 1..Len(seqs) : /\ seqs[i] \in Seq(S) /\ Len(seqs[i]) \in Nat
                                      /\ f[i] = f[i - 1] \o seqs[i]
                                      /\ Len(f[i]) = Len(f[i - 1]) + Len(seqs[i])
<1>1. f \in [0..Len(seqs) -> Seq(S)] /\ f[0] = <<>> /\ \A i \in 1..Len(seqs) : f[i] = f[i - 1] \o seqs[i]
  BY DEF Joins
<1>2. Len(seqs) \in Nat /\ \A i \in 1..Len(seqs) : seqs[i] \in Seq(S) /\ Len(seqs[i]) \in Nat
  OBVIOUS
<1>3. \A i \in 0..Len(seqs) : f[i] \in Seq(S) /\ Len(f[i]) \in Nat
  BY <1>1
<1>4. ASSUME NEW i \in 1..Len(seqs) PROVE Len(f[i]) = Len(f[i - 1]) + Len(seqs[i])
  <2>1. i - 1 \in 0..Len(seqs)
    BY <1>2
  <2>2. f[i - 1] \in Seq(S) /\ seqs[i] \in Seq(S)
    BY <1>2, <1>3, <2>1
  <2>3. Len(f[i - 1] \o seqs[i]) = Len(f[i - 1]) + Len(seqs[i])
    BY <2>2
  <2> QED
    BY <1>1, <2>3
<1> QED
  BY <1>1, <1>2, <1>3, <1>4

LEMMA JoinsPrefix ==
    ASSUME NEW S, NEW seqs \in Seq(Seq(S)), NEW f \in Joins(seqs, S), NEW i \in 0..Len(seqs)
    PROVE  /\ Len(f[i]) <= Len(f[Len(seqs)])
           /\ \A j \in 1..Len(f[i]) : f[Len(seqs)][j] = f[i][j]
<1> DEFINE n == Len(seqs)
<1> DEFINE P == {t \in 0..(n - i) : /\ Len(f[i]) <= Len(f[i + t])
                                    /\ \A j \in 1..Len(f[i]) : f[i + t][j] = f[i][j]}
<1>1. /\ n \in Nat /\ \A m \in 0..n : f[m] \in Seq(S) /\ Len(f[m]) \in Nat
      /\ \A m \in 1..n : seqs[m] \in Seq(S) /\ f[m] = f[m - 1] \o seqs[m] /\ Len(f[m]) = Len(f[m - 1]) + Len(seqs[m])
      /\ \A m \in 1..n : Len(seqs[m]) \in Nat
  BY JoinsTypes
<1> HIDE DEF n
<1>2. i \in 0..n /\ n - i \in Nat
  BY <1>1 DEF n
<1>3. 0 \in P
  <2>1. i + 0 = i /\ Len(f[i]) \in Nat
    BY <1>1, <1>2
  <2> QED
    BY <1>2, <2>1
<1>4. ASSUME NEW t \in 0..((n - i) - 1), t \in P PROVE t + 1 \in P
  <2>1. i + t \in 0..n /\ i + (t + 1) \in 1..n /\ (i + (t + 1)) - 1 = i + t /\ t + 1 \in 0..(n - i)
    BY <1>1, <1>2
  <2>2. f[i + (t + 1)] = f[i + t] \o seqs[i + (t + 1)] /\ f[i + t] \in Seq(S) /\ seqs[i + (t + 1)] \in Seq(S)
        /\ Len(f[i + (t + 1)]) = Len(f[i + t]) + Len(seqs[i + (t + 1)])
        /\ Len(seqs[i + (t + 1)]) \in Nat /\ Len(f[i + t]) \in Nat /\ Len(f[i]) \in Nat
    <3>1. f[i + (t + 1)] = f[(i + (t + 1)) - 1] \o seqs[i + (t + 1)]
          /\ Len(f[i + (t + 1)]) = Len(f[(i + (t + 1)) - 1]) + Len(seqs[i + (t + 1)])
      BY <1>1, <2>1
    <3> QED
      BY <1>1, <1>2, <2>1, <3>1
  <2>3. Len(f[i]) <= Len(f[i + t]) /\ \A j \in 1..Len(f[i]) : f[i + t][j] = f[i][j]
    BY <1>4
  <2> DEFINE a == f[i + t]
  <2> DEFINE b == seqs[i + (t + 1)]
  <2> DEFINE c == f[i + (t + 1)]
  <2>4. /\ a \in Seq(S) /\ b \in Seq(S) /\ c = a \o b /\ Len(c) = Len(a) + Len(b)
        /\ Len(a) \in Nat /\ Len(b) \in Nat /\ Len(f[i]) \in Nat /\ Len(f[i]) <= Len(a)
        /\ \A j \in 1..Len(f[i]) : a[j] = f[i][j]
    BY <2>2, <2>3
  <2> HIDE DEF a, b, c
  <2>5. ASSUME NEW j \in 1..Len(f[i]) PROVE c[j] = f[i][j]
    <3>1. j \in 1..Len(a)
      BY <2>4
    <3>2. (a \o b)[j] = a[j]
      BY <2>4, <3>1
    <3> QED
      BY <2>4, <3>2
  <2>6. Len(f[i]) <= Len(c)
    BY <2>4
  <2> QED
    BY <2>1, <2>5, <2>6 DEF c
<1>5. \A t \in 0..(n - i) : t \in P
  <2> HIDE DEF P
  <2> QED
    BY <1>2, <1>3, <1>4, UpTo
<1>6. n - i \in P /\ i + (n - i) = n
  <2>1. n - i \in 0..(n - i) /\ i + (n - i) = n
    <3>1. n \in Nat /\ i \in Nat
      BY <1>1, <1>2
    <3> QED
      BY <1>2, <3>1
  <2> QED
    BY <1>5, <2>1
<1> QED
  BY <1>6 DEF n

LEMMA JoinsPlace ==
    ASSUME NEW S, NEW seqs \in Seq(Seq(S)), NEW f \in Joins(seqs, S), NEW i \in 1..Len(seqs)
    PROVE  Stands(seqs[i], f[Len(seqs)], Len(f[i - 1]))
<1>1. i \in 0..Len(seqs) /\ i - 1 \in 0..Len(seqs)
  BY JoinsTypes
<1>2. f[i] = f[i - 1] \o seqs[i] /\ f[i - 1] \in Seq(S) /\ seqs[i] \in Seq(S)
      /\ Len(f[i]) = Len(f[i - 1]) + Len(seqs[i]) /\ Len(f[i - 1]) \in Nat /\ Len(seqs[i]) \in Nat
  BY <1>1, JoinsTypes
<1>3. \A j \in 1..Len(f[i]) : f[Len(seqs)][j] = f[i][j]
  BY <1>1, JoinsPrefix
<1> SUFFICES ASSUME NEW j \in 1..Len(seqs[i]) PROVE f[Len(seqs)][Len(f[i - 1]) + j] = seqs[i][j]
  BY DEF Stands
<1>4. Len(f[i - 1]) + j \in 1..Len(f[i])
  <2> DEFINE a == Len(f[i - 1])
  <2> DEFINE b == Len(seqs[i])
  <2> DEFINE c == Len(f[i])
  <2>1. a \in Nat /\ b \in Nat /\ c = a + b /\ j \in 1..b
    BY <1>2
  <2> HIDE DEF a, b, c
  <2>2. a + j \in 1..c
    BY <2>1
  <2> QED
    BY <2>2 DEF a, c
<1>5. (f[i - 1] \o seqs[i])[Len(f[i - 1]) + j] = seqs[i][j]
  <2> DEFINE a == f[i - 1]
  <2> DEFINE b == seqs[i]
  <2>1. a \in Seq(S) /\ b \in Seq(S) /\ j \in 1..Len(b) /\ Len(a) \in Nat /\ Len(b) \in Nat
    BY <1>2
  <2> HIDE DEF a, b
  <2>2. (a \o b)[Len(a) + j] = b[(Len(a) + j) - Len(a)]
    BY <2>1
  <2>3. (Len(a) + j) - Len(a) = j
    BY <2>1
  <2>4. (a \o b)[Len(a) + j] = b[j]
    BY <2>2, <2>3
  <2> QED
    BY <2>4 DEF a, b
<1> QED
  BY <1>2, <1>3, <1>4, <1>5

LEMMA VarintType ==
    ASSUME NEW number \in Nat
    PROVE  VarintEncode(number) \in Seq(Nat) /\ Len(VarintEncode(number)) \in Nat \ {0}
<1> DEFINE d == Digits(number, Group)
<1> DEFINE k == Len(d)
<1> DEFINE e == VarintEncode(number)
<1>1. Group \in Nat \ {0, 1}
  BY RadixAssumption
<1>2. d \in Seq(0..(Group - 1)) /\ k \in Nat \ {0}
  BY <1>1, DigitsValue
<1>4. e = [i \in 1..k |-> IF i < k THEN d[k + 1 - i] + Group ELSE d[1]]
  BY DEF VarintEncode
<1> HIDE DEF d, e
<1>3. \A i \in 1..k : d[i] \in Nat
  <2> DEFINE S == 0..(Group - 1)
  <2>1. d \in Seq(S) /\ S \subseteq Nat
    BY <1>1, <1>2
  <2> HIDE DEF S
  <2>2. \A i \in 1..Len(d) : d[i] \in S
    BY <2>1
  <2> QED
    BY <2>1, <2>2
<1> HIDE DEF k
<1>5. ASSUME NEW i \in 1..k PROVE (IF i < k THEN d[k + 1 - i] + Group ELSE d[1]) \in Nat
  <2>1. k + 1 - i \in 1..k /\ 1 \in 1..k
    BY <1>2
  <2> QED
    BY <1>1, <1>3, <2>1
<1>6. e \in [1..k -> Nat]
  BY <1>4, <1>5
<1> QED
  BY <1>2, <1>6 DEF e

LEMMA MessagesRec ==
    ASSUME NEW data, Len(data) \in Nat
    PROVE  /\ Messages(data)[0] = [ms |-> <<>>, pos |-> 1]
           /\ \A i \in 1..Len(data) :
                 /\ Messages(data)[i - 1].pos > Len(data) => Messages(data)[i] = Messages(data)[i - 1]
                 /\ ~(Messages(data)[i - 1].pos > Len(data))
                        => Messages(data)[i] = NextMessage(data, Messages(data)[i - 1])
<1> DEFINE n == Len(data)
<1> DEFINE Step(d) == IF d.pos > n THEN d ELSE NextMessage(data, d)
<1> DEFINE start == [ms |-> <<>>, pos |-> 1]
<1> DEFINE Eq(g, m) == g = [i \in 0..m |-> IF i = 0 THEN start ELSE Step(g[i - 1])]
<1> DEFINE P == {m \in 0..n : \E g : Eq(g, m)}
<1>0. n \in Nat
  OBVIOUS
<1> HIDE DEF Step, start
<1>1. 0 \in P
  <2> DEFINE g == [i \in 0..0 |-> start]
  <2>1. Eq(g, 0)
    OBVIOUS
  <2> HIDE DEF Eq, g
  <2> QED
    BY <1>0, <2>1
<1>2. ASSUME NEW m \in 0..(n - 1), m \in P PROVE m + 1 \in P
  <2>1. PICK g : Eq(g, m)
    BY <1>2
  <2> DEFINE h == [i \in 0..(m + 1) |-> IF i = 0 THEN start ELSE Step(g[i - 1])]
  <2>2. ASSUME NEW i \in 0..(m + 1)
        PROVE  h[i] = (IF i = 0 THEN start ELSE Step(h[i - 1]))
    <3>1. CASE i = 0
      BY <3>1
    <3>2. CASE i # 0
      <4>1. i - 1 \in 0..m /\ i - 1 \in 0..(m + 1)
        BY <3>2
      <4>2. h[i - 1] = g[i - 1]
        BY <2>1, <4>1
      <4> QED
        BY <3>2, <4>1, <4>2
    <3> QED
      BY <3>1, <3>2
  <2>3. Eq(h, m + 1)
    BY <2>2
  <2>4. m + 1 \in 0..n
    BY <1>0
  <2> HIDE DEF Eq, h
  <2> QED
    BY <2>3, <2>4
<1>3. \A i \in 0..n : i \in P
  <2> HIDE DEF P
  <2> QED
    BY <1>0, <1>1, <1>2, UpTo
<1>4. \E g : g = [i \in 0..n |-> IF i = 0 THEN start ELSE Step(g[i - 1])]
  BY <1>0, <1>3
<1> DEFINE M == Messages(data)
<1>5. M = [i \in 0..n |-> IF i = 0 THEN start ELSE Step(M[i - 1])]
  BY <1>4 DEF Messages, Step, start
<1> HIDE DEF M
<1>6. M[0] = start /\ \A i \in 1..n : M[i] = Step(M[i - 1])
  BY <1>0, <1>5
<1> QED
  BY <1>6 DEF M, Step, start

LEMMA NextMessageIs ==
    ASSUME NEW data, NEW d, NEW l \in Int, NEW p \in Int, VarintDecode(data, d.pos) = [v |-> l, pos |-> p]
    PROVE  NextMessage(data, d) = [ms |-> Append(d.ms, SubSeq(data, p, p + l - 1)), pos |-> p + l]
<1>1. VarintDecode(data, d.pos).v = l /\ VarintDecode(data, d.pos).pos = p
  OBVIOUS
<1> QED
  BY <1>1, SMT DEF NextMessage

\* Reading goes through the messages one after the other: after i rounds it has the first
\* i of them, and stands where the next one begins.
LEMMA NextRead ==
    ASSUME NEW ms \in Seq(Seq(Nat)), NEW data \in Seq(Nat), NEW k \in Nat, NEW i \in 1..Len(ms),
           NEW b, b = VarintEncode(Len(ms[i])) \o ms[i], k + Len(b) <= Len(data), Stands(b, data, k)
    PROVE  NextMessage(data, [ms |-> SubSeq(ms, 1, i - 1), pos |-> 1 + k])
             = [ms |-> SubSeq(ms, 1, i), pos |-> 1 + k + Len(b)]
<1> DEFINE m == ms[i]
<1> DEFINE e == VarintEncode(Len(m))
<1>1. m \in Seq(Nat) /\ Len(m) \in Nat /\ Len(data) \in Nat /\ Len(ms) \in Nat
  OBVIOUS
<1>2. e \in Seq(Nat) /\ Len(e) \in Nat \ {0}
  BY <1>1, VarintType
<1>4. b = e \o m /\ k + Len(b) <= Len(data) /\ Stands(b, data, k)
  OBVIOUS
<1> HIDE DEF e
<1>3. SubSeq(ms, 1, i) = Append(SubSeq(ms, 1, i - 1), m)
  <2> DEFINE T == Seq(Nat)
  <2>1. ms \in Seq(T) /\ i \in 1..Len(ms) /\ 1 \in 1..Len(ms) /\ i \in 1..i /\ m \in T
    BY <1>1
  <2> HIDE DEF T
  <2>2. SubSeq(ms, 1, i) = SubSeq(ms, 1, i - 1) \o <<ms[i]>>
    BY <2>1, SubSeqRecursiveSecond
  <2>3. SubSeq(ms, 1, i - 1) \in Seq(T)
    <3>1. (\A j \in 1..(i - 1) : ms[j] \in T) /\ 1 \in Int /\ i - 1 \in Int
      BY <1>1, <2>1
    <3> QED
      BY <3>1, SubSeqProperties
  <2> DEFINE u == SubSeq(ms, 1, i - 1)
  <2>4. u \in Seq(T) /\ m \in T
    BY <2>1, <2>3
  <2> HIDE DEF u, m
  <2>5. u \o <<m>> = Append(u, m)
    BY <2>4
  <2> QED
    BY <2>2, <2>5 DEF u, m
<1> DEFINE a == Len(e)
<1> DEFINE l == Len(m)
<1>5. Stands(e, data, k) /\ Stands(m, data, k + a) /\ Len(b) = a + l /\ a \in Nat \ {0} /\ l \in Nat
  <2>1. Stands(e \o m, data, k)
    BY <1>4
  <2> HIDE DEF m
  <2>2. Len(b) = a + l /\ a \in Nat \ {0} /\ l \in Nat
    BY <1>1, <1>2, <1>4, Joined
  <2> QED
    BY <1>1, <1>2, <2>1, <2>2, StandsWithin
<1>10. e = VarintEncode(l)
  BY DEF e
<1> HIDE DEF m, a, l
<1>6. k + a + l <= Len(data)
  <2>1. k + Len(b) <= Len(data)
    OBVIOUS
  <2> QED
    BY <1>1, <1>5, <2>1
<1>7. VarintDecode(data, 1 + k) = [v |-> l, pos |-> 1 + k + a]
  <2>1. \A j \in 1..a : data[(1 + k) + j - 1] = e[j]
    <3> TAKE j \in 1..a
    <3>1. (1 + k) + j - 1 = k + j
      BY <1>5
    <3>2. data[k + j] = e[j]
      BY <1>5 DEF Stands, a
    <3> QED
      BY <3>1, <3>2
  <2>2. (1 + k) + a - 1 <= Len(data) /\ 1 + k \in Nat \ {0}
    BY <1>1, <1>5, <1>6
  <2>3. Len(e) = a
    BY DEF a
  <2>4. /\ (1 + k) + Len(VarintEncode(l)) - 1 <= Len(data)
        /\ \A j \in 1..Len(VarintEncode(l)) : data[(1 + k) + j - 1] = VarintEncode(l)[j]
    BY <1>10, <2>1, <2>2, <2>3
  <2>5. VarintDecode(data, 1 + k) = [v |-> l, pos |-> (1 + k) + Len(VarintEncode(l))]
    BY <1>1, <1>5, <2>2, <2>4, VarintDecoded
  <2> QED
    BY <1>10, <2>3, <2>5
<1>8. SubSeq(data, 1 + k + a, 1 + k + a + l - 1) = m
  <2>1. k + a \in Nat /\ (k + a) + 1 = 1 + k + a /\ (k + a) + l = 1 + k + a + l - 1
    BY <1>5
  <2>2. SubSeq(data, (k + a) + 1, (k + a) + l) = m
    BY <1>1, <1>5, <2>1, Cut DEF l
  <2> QED
    BY <2>1, <2>2
<1>9. 1 + k + a + l = 1 + k + Len(b)
  BY <1>5
<1> DEFINE d == [ms |-> SubSeq(ms, 1, i - 1), pos |-> 1 + k]
<1>11. NextMessage(data, d) = [ms |-> Append(SubSeq(ms, 1, i - 1), SubSeq(data, 1 + k + a, 1 + k + a + l - 1)),
                               pos |-> 1 + k + a + l]
  <2>1. d.pos = 1 + k /\ d.ms = SubSeq(ms, 1, i - 1)
    OBVIOUS
  <2> HIDE DEF d
  <2>2. 1 + k + a \in Int /\ l \in Int
    BY <1>5
  <2> DEFINE p == 1 + k + a
  <2>3. VarintDecode(data, d.pos) = [v |-> l, pos |-> p] /\ p \in Int
    BY <1>7, <2>1, <2>2
  <2> HIDE DEF p
  <2>4. NextMessage(data, d) = [ms |-> Append(d.ms, SubSeq(data, p, p + l - 1)), pos |-> p + l]
    BY <2>2, <2>3, NextMessageIs
  <2> QED
    BY <2>1, <2>4 DEF p
<1> QED
  BY <1>3, <1>8, <1>9, <1>11

\* Messages that are put in one frame come out of it, for all messages: decode_replies()
\* reads back what encode_commands() wrote (src/centrifuge/codecs.py).
THEOREM FrameRoundTrip ==
    ASSUME NEW ms \in Seq(Seq(Nat))
    PROVE  DecodeFrame(EncodeFrame(ms)) = ms
<1> DEFINE n == Len(ms)
<1> DEFINE seqs == [i \in 1..n |-> VarintEncode(Len(ms[i])) \o ms[i]]
<1> DEFINE data == EncodeFrame(ms)
<1>1. n \in Nat /\ \A i \in 1..n : ms[i] \in Seq(Nat) /\ Len(ms[i]) \in Nat
  OBVIOUS
<1> HIDE DEF n
<1>2. ASSUME NEW i \in 1..n PROVE seqs[i] \in Seq(Nat) /\ Len(seqs[i]) \in Nat \ {0}
  <2> DEFINE e == VarintEncode(Len(ms[i]))
  <2> DEFINE m == ms[i]
  <2>1. e \in Seq(Nat) /\ Len(e) \in Nat \ {0} /\ m \in Seq(Nat)
    BY <1>1, VarintType
  <2>2. seqs[i] = e \o m
    OBVIOUS
  <2> HIDE DEF e, m, seqs
  <2>3. e \o m \in Seq(Nat) /\ Len(e \o m) = Len(e) + Len(m) /\ Len(m) \in Nat
    BY <2>1, Joined
  <2> QED
    BY <2>1, <2>2, <2>3
<1>3. seqs \in Seq(Seq(Nat)) /\ Len(seqs) = n
  <2> DEFINE T == Seq(Nat)
  <2>1. seqs \in [1..n -> T]
    BY <1>2
  <2> HIDE DEF T, seqs
  <2>2. seqs \in Seq(T) /\ Len(seqs) = n
    BY <1>1, <2>1
  <2> QED
    BY <2>2 DEF T
<1>4. data = FlattenSeq(seqs)
  BY DEF EncodeFrame, n
<1> HIDE DEF seqs, data
<1>5. PICK f \in Joins(seqs, Nat) : data = f[n]
  BY <1>3, <1>4, FlattenRec
<1>6. /\ f[0] = <<>> /\ Len(f[0]) = 0
      /\ \A i \in 0..n : f[i] \in Seq(Nat) /\ Len(f[i]) \in Nat
      /\ \A i \in 1..n : Len(f[i]) = Len(f[i - 1]) + Len(seqs[i])
  BY <1>3, JoinsTypes
<1>7. data \in Seq(Nat) /\ Len(data) \in Nat
  <2>1. n \in 0..n
    BY <1>1
  <2> QED
    BY <1>5, <1>6, <2>1
<1>8. \A i \in 0..n : i <= Len(f[i])
  <2> DEFINE P == {i \in 0..n : i <= Len(f[i])}
  <2>1. 0 \in P
    BY <1>1, <1>6
  <2>2. ASSUME NEW i \in 0..(n - 1), i \in P PROVE i + 1 \in P
    <3>1. i + 1 \in 1..n /\ (i + 1) - 1 = i /\ i + 1 \in 0..n /\ i \in 0..n
      BY <1>1
    <3>2. Len(f[i + 1]) = Len(f[(i + 1) - 1]) + Len(seqs[i + 1]) /\ Len(seqs[i + 1]) \in Nat \ {0}
      BY <1>2, <1>6, <3>1
    <3>3. Len(f[i]) \in Nat /\ i <= Len(f[i])
      BY <1>6, <2>2, <3>1
    <3>4. Len(f[i + 1]) = Len(f[i]) + Len(seqs[i + 1])
      BY <3>1, <3>2
    <3>5. i + 1 <= Len(f[i + 1])
      <4> DEFINE u == Len(f[i])
      <4> DEFINE v == Len(f[i + 1])
      <4> DEFINE w == Len(seqs[i + 1])
      <4>1. u \in Nat /\ i <= u /\ w \in Nat \ {0} /\ v = u + w /\ i \in Nat
        BY <1>1, <3>2, <3>3, <3>4
      <4> HIDE DEF u, v, w
      <4>2. i + 1 <= v
        BY <4>1
      <4> QED
        BY <4>2 DEF v
    <3> QED
      BY <3>1, <3>5
  <2>3. \A i \in 0..n : i \in P
    <3> HIDE DEF P
    <3> QED
      BY <1>1, <2>1, <2>2, UpTo
  <2> QED
    BY <2>3
<1>9. n <= Len(data)
  <2>1. n \in 0..n
    BY <1>1
  <2> QED
    BY <1>5, <1>8, <2>1
<1> DEFINE M == Messages(data)
<1>10. /\ M[0] = [ms |-> <<>>, pos |-> 1]
       /\ \A i \in 1..Len(data) :
             /\ M[i - 1].pos > Len(data) => M[i] = M[i - 1]
             /\ ~(M[i - 1].pos > Len(data)) => M[i] = NextMessage(data, M[i - 1])
  BY <1>7, MessagesRec
<1>11. DecodeFrame(data) = M[Len(data)].ms
  BY DEF DecodeFrame
<1> HIDE DEF M
<1> DEFINE Read(i) == [ms |-> SubSeq(ms, 1, i), pos |-> 1 + Len(f[i])]
<1> DEFINE P == {i \in 0..n : M[i] = Read(i)}
<1>12. 0 \in P
  <2>1. SubSeq(ms, 1, 0) = <<>>
    BY SubSeqEmpty
  <2> QED
    BY <1>1, <1>6, <1>10, <2>1
<1>13. ASSUME NEW i \in 0..(n - 1), i \in P PROVE i + 1 \in P
  <2>1. i + 1 \in 1..n /\ (i + 1) - 1 = i /\ i + 1 \in 0..n /\ i \in 0..n
    BY <1>1
  <2> DEFINE k == Len(f[i])
  <2> DEFINE b == seqs[i + 1]
  <2>2. k \in Nat /\ Len(b) \in Nat \ {0} /\ b \in Seq(Nat) /\ Len(f[i + 1]) = k + Len(b)
    <3>1. Len(f[i + 1]) = Len(f[(i + 1) - 1]) + Len(seqs[i + 1])
      BY <1>6, <2>1
    <3> QED
      BY <1>2, <1>6, <2>1, <3>1
  <2>3. k + Len(b) <= Len(data)
    <3>1. Len(f[i + 1]) <= Len(f[Len(seqs)])
      BY <1>3, <2>1, JoinsPrefix
    <3> QED
      BY <1>3, <1>5, <2>2, <3>1
  <2>4. Stands(b, data, k)
    <3>1. \A j \in 1..Len(seqs[i + 1]) : f[Len(seqs)][Len(f[(i + 1) - 1]) + j] = seqs[i + 1][j]
      <4> DEFINE m == i + 1
      <4>1. m \in 1..Len(seqs)
        BY <1>3, <2>1
      <4> HIDE DEF m
      <4>2. Stands(seqs[m], f[Len(seqs)], Len(f[m - 1]))
        BY <1>3, <4>1, JoinsPlace
      <4> QED
        BY <4>2 DEF m, Stands
    <3>2. \A j \in 1..Len(seqs[i + 1]) : data[Len(f[i]) + j] = seqs[i + 1][j]
      BY <1>3, <1>5, <2>1, <3>1
    <3> QED
      BY <3>2 DEF Stands
  <2>5. b = VarintEncode(Len(ms[i + 1])) \o ms[i + 1]
    BY <2>1 DEF seqs
  <2> HIDE DEF k, b
  <2>6. NextMessage(data, [ms |-> SubSeq(ms, 1, (i + 1) - 1), pos |-> 1 + k])
          = [ms |-> SubSeq(ms, 1, i + 1), pos |-> 1 + k + Len(b)]
    <3>1. i + 1 \in 1..Len(ms)
      BY <2>1 DEF n
    <3> DEFINE j == i + 1
    <3>2. j \in 1..Len(ms) /\ b = VarintEncode(Len(ms[j])) \o ms[j]
      BY <2>5, <3>1
    <3> HIDE DEF j
    <3>4. k \in Nat /\ k + Len(b) <= Len(data) /\ Stands(b, data, k) /\ data \in Seq(Nat) /\ ms \in Seq(Seq(Nat))
      BY <1>7, <2>2, <2>3, <2>4
    <3>3. NextMessage(data, [ms |-> SubSeq(ms, 1, j - 1), pos |-> 1 + k])
          = [ms |-> SubSeq(ms, 1, j), pos |-> 1 + k + Len(b)]
      BY <3>2, <3>4, NextRead
    <3> QED
      BY <3>3 DEF j
  <2>7. M[i] = [ms |-> SubSeq(ms, 1, (i + 1) - 1), pos |-> 1 + k]
    BY <1>13, <2>1 DEF k
  <2>8. M[i].pos = 1 + k /\ ~(1 + k > Len(data)) /\ i + 1 \in 1..Len(data)
    BY <1>7, <1>9, <1>1, <2>1, <2>2, <2>3, <2>7
  <2>9. M[i + 1] = NextMessage(data, M[i])
    <3>1. ~(M[(i + 1) - 1].pos > Len(data)) => M[i + 1] = NextMessage(data, M[(i + 1) - 1])
      BY <1>10, <2>8
    <3> QED
      BY <2>1, <2>8, <3>1
  <2>10. 1 + k + Len(b) = 1 + Len(f[i + 1])
    BY <2>2
  <2> QED
    BY <2>1, <2>6, <2>7, <2>9, <2>10
<1>14. M[n] = Read(n)
  <2>1. \A i \in 0..n : i \in P
    <3> HIDE DEF P
    <3> QED
      BY <1>1, <1>12, <1>13, UpTo
  <2>2. n \in 0..n
    BY <1>1
  <2> QED
    BY <2>1, <2>2
<1>15. M[n].ms = ms /\ M[n].pos > Len(data)
  <2>1. SubSeq(ms, 1, n) = ms
    BY SubSeqFull DEF n
  <2> QED
    BY <1>5, <1>7, <1>14, <2>1
<1> DEFINE Q == {t \in 0..(Len(data) - n) : M[n + t] = M[n]}
<1>16. Len(data) - n \in Nat
  BY <1>1, <1>7, <1>9
<1>17. 0 \in Q
  BY <1>1, <1>16
<1>18. ASSUME NEW t \in 0..((Len(data) - n) - 1), t \in Q PROVE t + 1 \in Q
  <2>1. n + (t + 1) \in 1..Len(data) /\ (n + (t + 1)) - 1 = n + t /\ t + 1 \in 0..(Len(data) - n)
    BY <1>1, <1>7, <1>16
  <2>2. M[n + t] = M[n]
    BY <1>18
  <2>3. M[n + (t + 1)] = M[n]
    <3>1. M[(n + (t + 1)) - 1].pos > Len(data) => M[n + (t + 1)] = M[(n + (t + 1)) - 1]
      BY <1>10, <2>1
    <3> QED
      BY <1>15, <2>1, <2>2, <3>1
  <2> QED
    BY <2>1, <2>3
<1>19. M[Len(data)] = M[n]
  <2>1. \A t \in 0..(Len(data) - n) : t \in Q
    <3> HIDE DEF Q
    <3> QED
      BY <1>16, <1>17, <1>18, UpTo
  <2>2. Len(data) - n \in 0..(Len(data) - n) /\ n + (Len(data) - n) = Len(data)
    BY <1>1, <1>7, <1>16
  <2> QED
    BY <2>1, <2>2
<1> QED
  BY <1>11, <1>15, <1>19 DEF data

LEMMA FramesHold == FramesAgree
<1>1. MaxMessage \in Nat
  BY RadixAssumption
<1> DEFINE D == {[i \in 1..n |-> i] : n \in 0..MaxMessage}
<1>2. D \subseteq Seq(Nat)
  <2> SUFFICES ASSUME NEW n \in 0..MaxMessage PROVE [i \in 1..n |-> i] \in Seq(Nat)
    OBVIOUS
  <2>1. n \in Nat /\ [i \in 1..n |-> i] \in [1..n -> Nat]
    BY <1>1
  <2> QED
    BY <2>1
<1> HIDE DEF D
<1>3. Upto(D, 2) \subseteq Seq(Seq(Nat))
  <2> DEFINE T == Seq(Nat)
  <2>1. D \subseteq T
    BY <1>2
  <2> HIDE DEF T
  <2> SUFFICES ASSUME NEW k \in 0..2, NEW x \in [1..k -> D] PROVE x \in Seq(T)
    BY DEF Upto, T
  <2>2. x \in [1..k -> T] /\ k \in Nat
    BY <2>1
  <2> QED
    BY <2>2
<1>4. \A ms \in Upto(D, 2) : DecodeFrame(EncodeFrame(ms)) = ms
  BY <1>3, FrameRoundTrip
<1> QED
  BY <1>4 DEF FramesAgree, D

\* Every message on the way arrives as it was sent, whatever else is in its frame: the
\* invariant of the run, for every radix (_process_incoming_data(), decode_replies()).
THEOREM FrameMeetsReferenceAlways == Spec => []FrameMeetsReference
<1>1. FrameMeetsReference
  BY FramesHold DEF FrameMeetsReference
<1> QED
  BY <1>1, PTL

-----------------------------------------------------------------------------
(* Numbers in a delta *)

LEMMA Radices ==
    /\ Radix \in Nat \ {0, 1} /\ ByteRadix \in Nat \ {0, 1} /\ Group \in Nat \ {0, 1}
    /\ {NewLine, At, Comma, Colon, Semicolon} \subseteq Nat
    /\ \A b \in {NewLine, At, Comma, Colon, Semicolon} : ~IsDigit(b)
    /\ At # Comma /\ At # Colon /\ At # Semicolon /\ Colon # Semicolon
  BY RadixAssumption DEF NewLine, At, Comma, Colon, Semicolon, IsDigit

LEMMA WordPositive == Word \in Nat \ {0}
<1> DEFINE b == ByteRadix
<1>1. b \in Nat \ {0}
  BY RadixAssumption
<1>2. Word = b * b * b * b
  BY DEF Word
<1> HIDE DEF b
<1>3. b * b \in Nat \ {0}
  BY <1>1
<1>4. b * b * b \in Nat \ {0}
  <2> DEFINE c == b * b
  <2>1. c \in Nat \ {0}
    BY <1>3
  <2> HIDE DEF c
  <2>2. c * b \in Nat \ {0}
    BY <1>1, <2>1
  <2> QED
    BY <2>2 DEF c
<1>5. b * b * b * b \in Nat \ {0}
  <2> DEFINE c == b * b * b
  <2>1. c \in Nat \ {0}
    BY <1>4
  <2> HIDE DEF c
  <2>2. c * b \in Nat \ {0}
    BY <1>1, <2>1
  <2> QED
    BY <2>2 DEF c
<1> QED
  BY <1>2, <1>5

LEMMA DigitsType ==
    ASSUME NEW n \in Nat
    PROVE  /\ Digits(n, Radix) \in Seq(Nat) /\ Len(Digits(n, Radix)) \in Nat \ {0}
           /\ \A i \in 1..Len(Digits(n, Radix)) : IsDigit(Digits(n, Radix)[i])
           /\ Value(Digits(n, Radix), Radix) = n
<1> DEFINE S == 0..(Radix - 1)
<1> DEFINE s == Digits(n, Radix)
<1>1. s \in Seq(S) /\ Len(s) \in Nat \ {0} /\ Value(s, Radix) = n
  BY Radices, DigitsValue
<1>2. S \subseteq Nat /\ \A b \in S : IsDigit(b)
  BY Radices DEF IsDigit
<1> HIDE DEF S, s
<1>3. s \in Seq(Nat)
  BY <1>1, <1>2, SeqMonotonic
<1>4. \A i \in 1..Len(s) : s[i] \in S
  BY <1>1, ElementOfSeq
<1> QED
  BY <1>1, <1>2, <1>3, <1>4 DEF s

\* A number that stands in a buffer and is ended there is read, and read to its end.
LEMMA NumberRead ==
    ASSUME NEW n \in Nat, n < Word, NEW a, Len(a) \in Nat, NEW k \in Nat, Stands(Digits(n, Radix), a, k),
           k + Len(Digits(n, Radix)) < Len(a), ~IsDigit(a[k + Len(Digits(n, Radix)) + 1])
    PROVE  GetInt(a, k + 1) = [v |-> n, pos |-> k + Len(Digits(n, Radix)) + 1]
<1> DEFINE s == Digits(n, Radix)
<1> DEFINE l == Len(s)
<1>1. s \in Seq(Nat) /\ l \in Nat \ {0} /\ (\A i \in 1..l : IsDigit(s[i])) /\ Value(s, Radix) = n
  BY DigitsType
<1>2. SubSeq(a, k + 1, k + l) = s
  BY <1>1, Cut
<1>3. \A j \in 1..l : a[k + j] = s[j]
  BY DEF Stands
<1>4. k + l < Len(a) /\ ~IsDigit(a[k + l + 1])
  OBVIOUS
<1> HIDE DEF s, l
<1> DEFINE ends == {i \in (k + 1)..Len(a) : ~IsDigit(a[i])}
<1> DEFINE q == k + l + 1
<1>5. q \in ends /\ ends \subseteq Int
  BY <1>1, <1>4
<1>6. ASSUME NEW j \in ends PROVE q <= j
  <2> SUFFICES ASSUME j < q PROVE FALSE
    BY <1>1
  <2>1. j - k \in 1..l /\ k + (j - k) = j
    BY <1>1
  <2>2. a[k + (j - k)] = s[j - k]
    BY <1>3, <2>1
  <2> QED
    BY <1>1, <2>1, <2>2
<1>7. \A i \in ends : (\A j \in ends : i <= j) => i = q
  <2> HIDE DEF ends
  <2>1. q \in Int
    BY <1>1
  <2> HIDE DEF q
  <2> QED
    BY <1>5, <1>6, <2>1
<1> DEFINE stop == IF ends = {} THEN Len(a) + 1 ELSE CHOOSE i \in ends : \A j \in ends : i <= j
<1>8. stop = q
  <2> HIDE DEF ends, q
  <2>1. ends # {} /\ \E i \in ends : \A j \in ends : i <= j
    BY <1>5, <1>6
  <2> QED
    BY <1>7, <2>1
<1>9. GetInt(a, k + 1) = [v |-> Value(SubSeq(a, k + 1, stop - 1), Radix) % Word,
                          pos |-> IF ends = {} THEN Len(a) ELSE stop]
  BY DEF GetInt
<1>10. ends # {}
  BY <1>5
<1> HIDE DEF stop, ends
<1>11. stop - 1 = k + l
  BY <1>1, <1>8
<1>12. n % Word = n
  BY WordPositive, Division
<1>13. GetInt(a, k + 1) = [v |-> n, pos |-> q]
  BY <1>1, <1>2, <1>8, <1>9, <1>10, <1>11, <1>12
<1> QED
  BY <1>13 DEF s, l

\* At the end of the buffer get_int() stands on its last byte.
LEMMA NumberCut ==
    ASSUME NEW a, NEW p, \A i \in p..Len(a) : IsDigit(a[i])
    PROVE  GetInt(a, p).pos = Len(a)
<1> DEFINE ends == {i \in p..Len(a) : ~IsDigit(a[i])}
<1> DEFINE stop == IF ends = {} THEN Len(a) + 1 ELSE CHOOSE i \in ends : \A j \in ends : i <= j
<1>1. ends = {}
  OBVIOUS
<1>2. GetInt(a, p) = [v |-> Value(SubSeq(a, p, stop - 1), Radix) % Word, pos |-> IF ends = {} THEN Len(a) ELSE stop]
  BY DEF GetInt
<1> HIDE DEF ends, stop
<1> QED
  BY <1>1, <1>2

-----------------------------------------------------------------------------
(* The checksum *)

LEMMA Distribute ==
    /\ \A x, y, z \in Int : (x + y) * z = x * z + y * z /\ z * (x + y) = z * x + z * y
    /\ \A x, y, z \in Int : x * y \in Int /\ x * y = y * x /\ (x * y) * z = x * (y * z)
  OBVIOUS

\* The weights of the four bytes.
Weight == <<ByteRadix * ByteRadix * ByteRadix, ByteRadix * ByteRadix, ByteRadix, 1>>

LEMMA Weights ==
    /\ Weight[1] \in Nat /\ Weight[2] \in Nat /\ Weight[3] \in Nat /\ Weight[4] = 1
    /\ \A a, b, c, d \in Nat : Number(a, b, c, d) = a * Weight[1] + b * Weight[2] + c * Weight[3] + d
<1> DEFINE r == ByteRadix
<1> DEFINE r2 == r * r
<1> DEFINE r3 == r * r * r
<1>1. r \in Nat /\ r2 \in Nat /\ r3 \in Nat
  <2>1. r \in Nat
    BY RadixAssumption
  <2> HIDE DEF r
  <2>2. r2 \in Nat
    BY <2>1
  <2> HIDE DEF r2
  <2>3. r2 * r \in Nat
    BY <2>1, <2>2
  <2>4. r3 = r2 * r
    BY DEF r2
  <2> QED
    BY <2>1, <2>2, <2>3, <2>4
<1>2. Weight[1] = r3 /\ Weight[2] = r2 /\ Weight[3] = r /\ Weight[4] = 1
  BY DEF Weight
<1>3. ASSUME NEW a \in Nat, NEW b \in Nat, NEW c \in Nat, NEW d \in Nat
      PROVE  Number(a, b, c, d) = a * r3 + b * r2 + c * r + d
  <2>1. Number(a, b, c, d) = d + r * (c + r * (b + r * a))
    BY DEF Number
  <2>2. r * a \in Nat /\ b + r * a \in Nat /\ r * (b + r * a) \in Nat /\ c + r * (b + r * a) \in Nat
    <3>1. r * a \in Nat
      BY <1>1
    <3> DEFINE x == b + r * a
    <3>2. x \in Nat
      BY <3>1
    <3> HIDE DEF x
    <3>3. r * x \in Nat
      BY <1>1, <3>2
    <3> QED
      BY <3>1, <3>2, <3>3 DEF x
  <2>3. r * (b + r * a) = r * b + r * (r * a)
    BY <1>1, <2>2, Distribute
  <2>4. r * (c + r * (b + r * a)) = r * c + r * (r * b + r * (r * a))
    BY <1>1, <2>2, <2>3, Distribute
  <2>5. r * b \in Int /\ r * (r * a) \in Int /\ r * c \in Int /\ r * (r * b) \in Int /\ r * (r * (r * a)) \in Int
    <3>1. r * a \in Int /\ r * b \in Int /\ r * c \in Int
      BY <1>1, Distribute
    <3>2. r * (r * a) \in Int /\ r * (r * b) \in Int
      BY <1>1, <3>1, Distribute
    <3> QED
      BY <1>1, <3>1, <3>2, Distribute
  <2>6. r * (r * b + r * (r * a)) = r * (r * b) + r * (r * (r * a))
    BY <1>1, <2>5, Distribute
  <2>7. r * (r * b) = b * r2 /\ r * c = c * r
    BY <1>1, Distribute
  <2>8. r * (r * (r * a)) = a * r3
    <3>1. r * (r * a) = r2 * a
      BY <1>1, Distribute
    <3>2. r * (r2 * a) = (r2 * a) * r
      BY <1>1, <2>5, <3>1, Distribute
    <3>3. (r2 * a) * r = r2 * (a * r) /\ a * r = r * a
      BY <1>1, Distribute
    <3>4. r2 * (r * a) = (r2 * r) * a
      BY <1>1, Distribute
    <3>5. r2 * r = r3
      OBVIOUS
    <3>6. r3 * a = a * r3
      BY <1>1, Distribute
    <3> QED
      BY <3>1, <3>2, <3>3, <3>4, <3>5, <3>6
  <2> DEFINE u == r * (r * b)
  <2> DEFINE v == r * (r * (r * a))
  <2> DEFINE w == r * c
  <2>9. Number(a, b, c, d) = d + (w + (u + v)) /\ u \in Int /\ v \in Int /\ w \in Int
    BY <2>1, <2>4, <2>5, <2>6
  <2>10. u = b * r2 /\ w = c * r /\ v = a * r3
    BY <2>7, <2>8
  <2> HIDE DEF u, v, w
  <2>11. Number(a, b, c, d) = v + u + w + d
    BY <2>9
  <2> QED
    BY <2>10, <2>11
<1> HIDE DEF r, r2, r3
<1> QED
  BY <1>1, <1>2, <1>3

LEMMA WeightType == Weight[4] = 1 /\ \A k \in 1..4 : Weight[k] \in Nat /\ 0 * Weight[k] = 0
<1>1. \A k \in 1..4 : k = 1 \/ k = 2 \/ k = 3 \/ k = 4
  OBVIOUS
<1>2. \A k \in 1..4 : Weight[k] \in Nat
  <2>1. Weight[1] \in Nat /\ Weight[2] \in Nat /\ Weight[3] \in Nat /\ Weight[4] = 1
    BY Weights
  <2> QED
    BY <1>1, <2>1
<1>3. \A x \in Nat : 0 * x = 0
  OBVIOUS
<1> QED
  BY <1>2, <1>3, Weights
\* The sum that checksum() takes column by column is that of the words one by one.
LEMMA ChecksumAgrees ==
    ASSUME NEW arr \in Seq(Nat)
    PROVE  Checksum(arr) = ReferenceChecksum(arr) /\ Checksum(arr) \in 0..(Word - 1)
<1> DEFINE len == Len(arr)
<1> DEFINE n == len \div 4
<1> DEFINE x == [i \in 1..len |-> arr[i] * Weight[((i - 1) % 4) + 1]]
<1> DEFINE S == Sums(x)
<1> DEFINE col(k) == [i \in 1..n |-> arr[4 * (i - 1) + k]]
<1>1. len \in Nat /\ n \in Nat /\ 4 * n <= len /\ len <= 4 * n + 3
  OBVIOUS
<1>2. \A i \in 1..len : arr[i] \in Nat
  OBVIOUS
<1>20. arr \in Seq(Nat) /\ Len(arr) = len
  OBVIOUS
<1>21. ReferenceChecksum(arr) = Total(x) % Word
  BY DEF ReferenceChecksum, Weight
<1>22. Checksum(arr) = (Number(Total(col(1)), Total(col(2)), Total(col(3)), Total(col(4)))
                        + Number((SubSeq(arr, 4 * n + 1, len) \o <<0, 0, 0>>)[1],
                                 (SubSeq(arr, 4 * n + 1, len) \o <<0, 0, 0>>)[2],
                                 (SubSeq(arr, 4 * n + 1, len) \o <<0, 0, 0>>)[3], 0)) % Word
  <2> DEFINE sum == [k \in 1..4 |-> Total(col(k))]
  <2> DEFINE left == SubSeq(arr, 4 * n + 1, len) \o <<0, 0, 0>>
  <2>1. Checksum(arr) = (Number(sum[1], sum[2], sum[3], sum[4]) + Number(left[1], left[2], left[3], 0)) % Word
    BY DEF Checksum
  <2> HIDE DEF col
  <2>2. sum[1] = Total(col(1)) /\ sum[2] = Total(col(2)) /\ sum[3] = Total(col(3)) /\ sum[4] = Total(col(4))
    OBVIOUS
  <2> HIDE DEF sum, left
  <2>3. Checksum(arr) = (Number(Total(col(1)), Total(col(2)), Total(col(3)), Total(col(4)))
                         + Number(left[1], left[2], left[3], 0)) % Word
    BY <2>1, <2>2
  <2> QED
    BY <2>3 DEF left
<1> HIDE DEF len, n
<1>3. \A i \in 1..len : x[i] = arr[i] * Weight[((i - 1) % 4) + 1] /\ x[i] \in Nat
  <2> TAKE i \in 1..len
  <2>1. (i - 1) % 4 \in 0..3
    BY <1>1
  <2>2. Weight[((i - 1) % 4) + 1] \in Nat
    <3> DEFINE k == ((i - 1) % 4) + 1
    <3>1. k \in 1..4
      BY <2>1
    <3> HIDE DEF k
    <3>2. Weight[k] \in Nat
      BY <3>1, WeightType
    <3> QED
      BY <3>2 DEF k
  <2> DEFINE u == arr[i]
  <2> DEFINE v == Weight[((i - 1) % 4) + 1]
  <2>3. x[i] = u * v /\ u \in Nat /\ v \in Nat
    BY <1>2, <2>2
  <2> HIDE DEF u, v, x
  <2>4. u * v \in Nat
    BY <2>3
  <2> QED
    BY <2>3, <2>4 DEF u, v
<1>4. x \in Seq(Nat) /\ Len(x) = len
  <2>1. x \in [1..len -> Nat]
    BY <1>3
  <2> HIDE DEF x
  <2> QED
    BY <1>1, <2>1
<1> HIDE DEF x
<1>5. S \in [0..len -> Nat] /\ S[0] = 0 /\ (\A i \in 1..len : S[i] = S[i - 1] + x[i]) /\ Total(x) = S[len]
  BY <1>4, SumsRec DEF Total
<1> HIDE DEF S
\* What stands in a row: the bytes 4 * m + 1 to 4 * m + 4.
<1>6. ASSUME NEW m \in Nat, NEW k \in 1..4, 4 * m + k <= len
      PROVE  x[4 * m + k] = arr[4 * m + k] * Weight[k] /\ arr[4 * m + k] \in Nat
             /\ S[4 * m + k] = S[4 * m + k - 1] + x[4 * m + k] /\ S[4 * m + k - 1] \in Nat
  <2>1. 4 * m + k \in 1..len /\ (4 * m + k) - 1 \in 0..len /\ ((4 * m + k - 1) % 4) + 1 = k
    BY <1>1, <1>6
  <2> DEFINE i == 4 * m + k
  <2>2. i \in 1..len /\ i - 1 \in 0..len /\ ((i - 1) % 4) + 1 = k
    BY <2>1
  <2> HIDE DEF i
  <2>3. x[i] = arr[i] * Weight[k] /\ arr[i] \in Nat /\ S[i] = S[i - 1] + x[i] /\ S[i - 1] \in Nat
    BY <1>2, <1>3, <1>5, <2>2
  <2> QED
    BY <2>3 DEF i
<1>7. ASSUME NEW m \in Nat, NEW k \in 1..4, 4 * m + k <= len
      PROVE  S[4 * m + k] = S[4 * m + k - 1] + arr[4 * m + k] * Weight[k]
  BY <1>6, <1>7
<1>8. ASSUME NEW k \in 1..4
      PROVE  /\ Sums(col(k)) \in [0..n -> Nat] /\ Sums(col(k))[0] = 0 /\ Total(col(k)) = Sums(col(k))[n]
             /\ \A i \in 1..n : Sums(col(k))[i] = Sums(col(k))[i - 1] + arr[4 * (i - 1) + k]
  <2> DEFINE c == col(k)
  <2>1. \A i \in 1..n : 4 * (i - 1) + k \in 1..len
    BY <1>1
  <2>2. c \in [1..n -> Nat] /\ \A i \in 1..n : c[i] = arr[4 * (i - 1) + k]
    BY <1>2, <2>1
  <2> HIDE DEF c
  <2>3. c \in Seq(Nat) /\ Len(c) = n
    BY <1>1, <2>2
  <2>4. /\ Sums(c) \in [0..n -> Nat] /\ Sums(c)[0] = 0 /\ Total(c) = Sums(c)[n]
        /\ \A i \in 1..n : Sums(c)[i] = Sums(c)[i - 1] + c[i]
    BY <2>3, SumsRec DEF Total
  <2> QED
    BY <2>2, <2>4 DEF c
<1> DEFINE A == [k \in 1..4 |-> Sums(col(k))]
<1>9. /\ \A k \in 1..4 : A[k] \in [0..n -> Nat] /\ A[k][0] = 0 /\ Total(col(k)) = A[k][n]
      /\ \A k \in 1..4, i \in 1..n : A[k][i] = A[k][i - 1] + arr[4 * (i - 1) + k]
  <2>1. \A k \in 1..4 : A[k] = Sums(col(k))
    OBVIOUS
  <2> HIDE DEF A
  <2> QED
    BY <1>8, <2>1
<1>10. Checksum(arr) = (Number(A[1][n], A[2][n], A[3][n], A[4][n])
                        + Number((SubSeq(arr, 4 * n + 1, len) \o <<0, 0, 0>>)[1],
                                 (SubSeq(arr, 4 * n + 1, len) \o <<0, 0, 0>>)[2],
                                 (SubSeq(arr, 4 * n + 1, len) \o <<0, 0, 0>>)[3], 0)) % Word
  <2>1. Total(col(1)) = A[1][n] /\ Total(col(2)) = A[2][n] /\ Total(col(3)) = A[3][n] /\ Total(col(4)) = A[4][n]
    BY <1>9
  <2> HIDE DEF A, col
  <2> QED
    BY <1>22, <2>1
<1> HIDE DEF A, col
<1> DEFINE P == {i \in 0..n : S[4 * i] = Number(A[1][i], A[2][i], A[3][i], A[4][i])}
<1>11. 0 \in P
  <2>1. Number(0, 0, 0, 0) = 0
    <3>1. 0 * Weight[1] = 0 /\ 0 * Weight[2] = 0 /\ 0 * Weight[3] = 0
      BY WeightType
    <3>2. Number(0, 0, 0, 0) = 0 * Weight[1] + 0 * Weight[2] + 0 * Weight[3] + 0
      <4>1. 0 \in Nat
        OBVIOUS
      <4>2. \A a, b, c, d \in Nat : Number(a, b, c, d) = a * Weight[1] + b * Weight[2] + c * Weight[3] + d
        BY Weights
      <4> QED
        BY <4>1, <4>2, Zenon
    <3> QED
      BY <3>1, <3>2
  <2>2. A[1][0] = 0 /\ A[2][0] = 0 /\ A[3][0] = 0 /\ A[4][0] = 0
    BY <1>9
  <2>3. 4 * 0 = 0 /\ 0 \in 0..n /\ S[0] = 0
    BY <1>1, <1>5
  <2> QED
    BY <2>1, <2>2, <2>3
<1>12. ASSUME NEW i \in 0..(n - 1), i \in P PROVE i + 1 \in P
  <2>1. i + 1 \in 1..n /\ (i + 1) - 1 = i /\ i \in Nat /\ 4 * i + 4 <= len /\ i \in 0..n /\ 4 * (i + 1) = 4 * i + 4
    BY <1>1
  <2>2. /\ S[4 * i + 1] = S[4 * i] + arr[4 * i + 1] * Weight[1]
        /\ S[4 * i + 2] = S[4 * i + 1] + arr[4 * i + 2] * Weight[2]
        /\ S[4 * i + 3] = S[4 * i + 2] + arr[4 * i + 3] * Weight[3]
        /\ S[4 * i + 4] = S[4 * i + 3] + arr[4 * i + 4] * Weight[4]
    <3>1. 4 * i + 1 - 1 = 4 * i /\ 4 * i + 2 - 1 = 4 * i + 1 /\ 4 * i + 3 - 1 = 4 * i + 2 /\ 4 * i + 4 - 1 = 4 * i + 3
      BY <2>1
    <3>2. 4 * i + 1 <= len /\ 4 * i + 2 <= len /\ 4 * i + 3 <= len
      BY <1>1, <2>1
    <3> QED
      BY <1>7, <2>1, <3>1, <3>2
  <2> DEFINE a == arr[4 * i + 1]
  <2> DEFINE b == arr[4 * i + 2]
  <2> DEFINE c == arr[4 * i + 3]
  <2> DEFINE d == arr[4 * i + 4]
  <2>3. a \in Nat /\ b \in Nat /\ c \in Nat /\ d \in Nat
    <3>1. 4 * i + 1 \in 1..len /\ 4 * i + 2 \in 1..len /\ 4 * i + 3 \in 1..len /\ 4 * i + 4 \in 1..len
      BY <1>1, <2>1
    <3> QED
      BY <1>2, <3>1
  <2>4. /\ A[1][i + 1] = A[1][i] + a /\ A[2][i + 1] = A[2][i] + b
        /\ A[3][i + 1] = A[3][i] + c /\ A[4][i + 1] = A[4][i] + d
    <3>1. \A k \in 1..4 : A[k][i + 1] = A[k][(i + 1) - 1] + arr[4 * ((i + 1) - 1) + k]
      BY <1>9, <2>1
    <3> QED
      BY <2>1, <3>1
  <2>5. A[1][i] \in Nat /\ A[2][i] \in Nat /\ A[3][i] \in Nat /\ A[4][i] \in Nat
    <3>1. \A k \in 1..4 : A[k] \in [0..n -> Nat]
      BY <1>9
    <3>2. \A k \in 1..4 : A[k][i] \in Nat
      BY <2>1, <3>1
    <3> QED
      BY <3>2
  <2>6. S[4 * i] = Number(A[1][i], A[2][i], A[3][i], A[4][i])
    BY <1>12
  <2> HIDE DEF a, b, c, d
  <2>7. Number(A[1][i] + a, A[2][i] + b, A[3][i] + c, A[4][i] + d)
          = Number(A[1][i], A[2][i], A[3][i], A[4][i]) + a * Weight[1] + b * Weight[2] + c * Weight[3] + d
        /\ Number(A[1][i], A[2][i], A[3][i], A[4][i]) \in Nat
    <3> DEFINE a0 == A[1][i]
    <3> DEFINE b0 == A[2][i]
    <3> DEFINE c0 == A[3][i]
    <3> DEFINE d0 == A[4][i]
    <3>1. a0 \in Nat /\ b0 \in Nat /\ c0 \in Nat /\ d0 \in Nat
      BY <2>5
    <3> HIDE DEF a0, b0, c0, d0
    <3>2. Number(a0 + a, b0 + b, c0 + c, d0 + d) = Number(a0, b0, c0, d0) + a * Weight[1] + b * Weight[2] + c * Weight[3] + d
          /\ Number(a0, b0, c0, d0) \in Nat
      <4> DEFINE r == Weight[1]
      <4> DEFINE s == Weight[2]
      <4> DEFINE t == Weight[3]
      <4>1. r \in Nat /\ s \in Nat /\ t \in Nat
        BY Weights
      <4>2. Number(a0, b0, c0, d0) = a0 * r + b0 * s + c0 * t + d0
        BY <3>1, Weights
      <4>9. a0 \in Nat /\ b0 \in Nat /\ c0 \in Nat /\ d0 \in Nat /\ a \in Nat /\ b \in Nat /\ c \in Nat /\ d \in Nat
        BY <2>3, <3>1
      <4>3. Number(a0 + a, b0 + b, c0 + c, d0 + d) = (a0 + a) * r + (b0 + b) * s + (c0 + c) * t + (d0 + d)
        <5> DEFINE a2 == a0 + a
        <5> DEFINE b2 == b0 + b
        <5> DEFINE c2 == c0 + c
        <5> DEFINE d2 == d0 + d
        <5>1. a2 \in Nat /\ b2 \in Nat /\ c2 \in Nat /\ d2 \in Nat
          BY <4>9
        <5> HIDE DEF a2, b2, c2, d2
        <5>2. Number(a2, b2, c2, d2) = a2 * r + b2 * s + c2 * t + d2
          BY <5>1, Weights
        <5> QED
          BY <5>2 DEF a2, b2, c2, d2
      <4> HIDE DEF r, s, t
      <4>4. (a0 + a) * r = a0 * r + a * r /\ (b0 + b) * s = b0 * s + b * s /\ (c0 + c) * t = c0 * t + c * t
        BY <4>1, <4>9, Distribute
      <4>5. /\ a0 * r \in Nat /\ b0 * s \in Nat /\ c0 * t \in Nat /\ a * r \in Nat /\ b * s \in Nat /\ c * t \in Nat
        BY <4>1, <4>9
      <4>6. Number(a0 + a, b0 + b, c0 + c, d0 + d) = Number(a0, b0, c0, d0) + a * r + b * s + c * t + d
        <5> DEFINE u0 == a0 * r
        <5> DEFINE v0 == b0 * s
        <5> DEFINE w0 == c0 * t
        <5> DEFINE u == a * r
        <5> DEFINE v == b * s
        <5> DEFINE w == c * t
        <5>1. Number(a0 + a, b0 + b, c0 + c, d0 + d) = (u0 + u) + (v0 + v) + (w0 + w) + (d0 + d)
          BY <4>3, <4>4
        <5>2. Number(a0, b0, c0, d0) = u0 + v0 + w0 + d0
          BY <4>2
        <5>3. u0 \in Nat /\ v0 \in Nat /\ w0 \in Nat /\ u \in Nat /\ v \in Nat /\ w \in Nat
          BY <4>5
        <5> HIDE DEF u0, v0, w0, u, v, w
        <5>4. (u0 + u) + (v0 + v) + (w0 + w) + (d0 + d) = (u0 + v0 + w0 + d0) + u + v + w + d
          BY <4>9, <5>3
        <5>5. Number(a0 + a, b0 + b, c0 + c, d0 + d) = Number(a0, b0, c0, d0) + u + v + w + d
          BY <5>1, <5>2, <5>4
        <5> QED
          BY <5>5 DEF u, v, w
      <4>7. Number(a0, b0, c0, d0) \in Nat
        <5> DEFINE u0 == a0 * r
        <5> DEFINE v0 == b0 * s
        <5> DEFINE w0 == c0 * t
        <5>1. u0 \in Nat /\ v0 \in Nat /\ w0 \in Nat /\ d0 \in Nat
          BY <4>5, <4>9
        <5>2. Number(a0, b0, c0, d0) = u0 + v0 + w0 + d0
          BY <4>2
        <5> HIDE DEF u0, v0, w0, a0, b0, c0, d0
        <5> QED
          BY <5>1, <5>2
      <4> QED
        BY <4>6, <4>7 DEF r, s, t
    <3> QED
      BY <3>2 DEF a0, b0, c0, d0
  <2>8. S[4 * i + 4] = S[4 * i] + a * Weight[1] + b * Weight[2] + c * Weight[3] + d
    <3>1. d * Weight[4] = d
      BY <2>3, Weights
    <3> QED
      BY <2>2, <3>1 DEF a, b, c, d
  <2> QED
    BY <2>1, <2>4, <2>6, <2>7, <2>8
<1>13. S[4 * n] = Number(A[1][n], A[2][n], A[3][n], A[4][n])
  <2>1. \A i \in 0..n : i \in P
    <3> HIDE DEF P
    <3> QED
      BY <1>1, <1>11, <1>12, UpTo
  <2>2. n \in 0..n
    BY <1>1
  <2> QED
    BY <2>1, <2>2
<1> DEFINE left == SubSeq(arr, 4 * n + 1, len) \o <<0, 0, 0>>
<1> DEFINE rest(k) == IF 4 * n + k <= len THEN arr[4 * n + k] ELSE 0
<1>14. left[1] = rest(1) /\ left[2] = rest(2) /\ left[3] = rest(3)
  <2> DEFINE s == SubSeq(arr, 4 * n + 1, len)
  <2> DEFINE z == <<0, 0, 0>>
  <2>1. s \in Seq(Nat) /\ Len(s) = len - 4 * n /\ \A j \in 1..(len - 4 * n) : s[j] = arr[4 * n + j]
    <3> DEFINE p == 4 * n + 1
    <3>1. p \in Int /\ len \in Int /\ \A j \in p..len : arr[j] \in Nat
      BY <1>1, <1>2
    <3>2. /\ len - p + 1 = len - 4 * n /\ (\A j \in 1..(len - 4 * n) : p + j - 1 = 4 * n + j)
          /\ ~(p <= len) => len - 4 * n = 0
      BY <1>1
    <3> HIDE DEF p
    <3>3. /\ SubSeq(arr, p, len) \in Seq(Nat)
          /\ Len(SubSeq(arr, p, len)) = IF p <= len THEN len - p + 1 ELSE 0
          /\ \A j \in 1..(len - p + 1) : SubSeq(arr, p, len)[j] = arr[p + j - 1]
      BY <3>1, SubSeqProperties
    <3>4. SubSeq(arr, p, len) = s
      BY DEF p
    <3>5. Len(SubSeq(arr, p, len)) = len - 4 * n
      BY <3>2, <3>3
    <3>6. \A j \in 1..(len - 4 * n) : SubSeq(arr, p, len)[j] = arr[4 * n + j]
      <4> TAKE j \in 1..(len - 4 * n)
      <4>1. j \in 1..(len - p + 1)
        BY <3>2
      <4>2. SubSeq(arr, p, len)[j] = arr[p + j - 1]
        BY <3>3, <4>1
      <4> QED
        BY <3>2, <4>2
    <3> QED
      BY <3>3, <3>4, <3>5, <3>6
  <2>2. z \in Seq(Nat) /\ Len(z) = 3 /\ z[1] = 0 /\ z[2] = 0 /\ z[3] = 0
    OBVIOUS
  <2> HIDE DEF s, z
  <2>3. \A i \in 1..Len(s) + Len(z) : (s \o z)[i] = IF i <= Len(s) THEN s[i] ELSE z[i - Len(s)]
    BY <2>1, <2>2, ConcatProperties
  <2>4. ASSUME NEW k \in 1..3 PROVE (s \o z)[k] = rest(k)
    <3>1. k \in 1..(Len(s) + Len(z))
      BY <1>1, <2>1, <2>2
    <3>2. CASE k <= Len(s)
      <4>1. k \in 1..(len - 4 * n) /\ 4 * n + k <= len
        BY <1>1, <2>1, <3>2
      <4> QED
        BY <2>1, <2>3, <3>1, <3>2, <4>1
    <3>3. CASE ~(k <= Len(s))
      <4>1. k - Len(s) \in 1..3 /\ ~(4 * n + k <= len)
        BY <1>1, <2>1, <3>3
      <4>2. z[k - Len(s)] = 0
        BY <2>2, <4>1
      <4> QED
        BY <2>3, <3>1, <3>3, <4>1, <4>2
    <3> QED
      BY <3>2, <3>3
  <2> DEFINE w == s \o z
  <2>7. \A k \in 1..3 : w[k] = rest(k)
    BY <2>4
  <2> HIDE DEF rest, w
  <2>8. w[1] = rest(1) /\ w[2] = rest(2) /\ w[3] = rest(3)
    BY <2>7
  <2>5. (s \o z)[1] = rest(1) /\ (s \o z)[2] = rest(2) /\ (s \o z)[3] = rest(3)
    BY <2>8 DEF w
  <2>6. s \o z = left
    BY DEF s, z
  <2> QED
    BY <2>5, <2>6
<1> DEFINE a == rest(1)
<1> DEFINE b == rest(2)
<1> DEFINE c == rest(3)
<1>15. a \in Nat /\ b \in Nat /\ c \in Nat
  <2>1. \A k \in 1..3 : 4 * n + k <= len => 4 * n + k \in 1..len
    BY <1>1
  <2> QED
    BY <1>2, <2>1
<1>16. S[len] = S[4 * n] + a * Weight[1] + b * Weight[2] + c * Weight[3]
  <2> DEFINE r == Weight[1]
  <2> DEFINE s == Weight[2]
  <2> DEFINE t == Weight[3]
  <2> DEFINE m == 4 * n
  <2>1. r \in Nat /\ s \in Nat /\ t \in Nat /\ 0 * r = 0 /\ 0 * s = 0 /\ 0 * t = 0
    BY WeightType
  <2>2. S[m] \in Nat /\ m \in Nat
    <3>1. m \in 0..len
      BY <1>1
    <3> QED
      BY <1>5, <3>1
  <2>3. /\ m + 1 <= len => S[m + 1] = S[m] + a * r
        /\ m + 2 <= len => S[m + 2] = S[m + 1] + b * s
        /\ m + 3 <= len => S[m + 3] = S[m + 2] + c * t
    <3>1. m + 1 - 1 = m /\ m + 2 - 1 = m + 1 /\ m + 3 - 1 = m + 2
      BY <2>2
    <3> QED
      BY <1>1, <1>7, <3>1
  <2>4. /\ ~(m + 1 <= len) => a = 0
        /\ ~(m + 2 <= len) => b = 0
        /\ ~(m + 3 <= len) => c = 0
    OBVIOUS
  <2>5. m <= len /\ len <= m + 3 /\ len \in Nat
    BY <1>1
  <2>6. a * r \in Nat /\ b * s \in Nat /\ c * t \in Nat
    <3> HIDE DEF a, b, c, r, s, t
    <3> QED
      BY <1>15, <2>1
  <2> HIDE DEF a, b, c, r, s, t, m
  <2>7. len = m \/ len = m + 1 \/ len = m + 2 \/ len = m + 3
    BY <2>2, <2>5
  <2>8. S[len] = S[m] + a * r + b * s + c * t
    <3>1. CASE len = m
      <4>1. a = 0 /\ b = 0 /\ c = 0
        BY <2>2, <2>4, <3>1
      <4> QED
        BY <2>1, <2>2, <3>1, <4>1
    <3>2. CASE len = m + 1
      <4>1. b = 0 /\ c = 0 /\ S[m + 1] = S[m] + a * r
        BY <2>2, <2>3, <2>4, <3>2
      <4> QED
        BY <2>1, <2>2, <2>6, <3>2, <4>1
    <3>3. CASE len = m + 2
      <4>1. c = 0 /\ S[m + 1] = S[m] + a * r /\ S[m + 2] = S[m + 1] + b * s
        BY <2>2, <2>3, <2>4, <3>3
      <4> QED
        BY <2>1, <2>2, <2>6, <3>3, <4>1
    <3>4. CASE len = m + 3
      <4>1. S[m + 1] = S[m] + a * r /\ S[m + 2] = S[m + 1] + b * s /\ S[m + 3] = S[m + 2] + c * t
        BY <2>2, <2>3, <3>4
      <4> QED
        BY <2>2, <2>6, <3>4, <4>1
    <3> QED
      BY <2>7, <3>1, <3>2, <3>3, <3>4
  <2> QED
    BY <2>8 DEF r, s, t, m
<1>17. Number(a, b, c, 0) = a * Weight[1] + b * Weight[2] + c * Weight[3]
  <2> DEFINE u == a * Weight[1] + b * Weight[2] + c * Weight[3]
  <2>1. Number(a, b, c, 0) = u + 0
    <3> HIDE DEF a, b, c
    <3> QED
      BY <1>15, Weights
  <2>2. u \in Int
    <3> HIDE DEF a, b, c
    <3> DEFINE r == Weight[1]
    <3> DEFINE s == Weight[2]
    <3> DEFINE t == Weight[3]
    <3>1. r \in Nat /\ s \in Nat /\ t \in Nat
      BY Weights
    <3> HIDE DEF r, s, t
    <3>2. a * r + b * s + c * t \in Int
      BY <1>15, <3>1
    <3> QED
      BY <3>2 DEF r, s, t
  <2> HIDE DEF u
  <2>3. u + 0 = u
    BY <2>2
  <2> QED
    BY <2>1, <2>3 DEF u
<1>18. Checksum(arr) = S[len] % Word /\ S[len] \in Nat
  <2>1. Checksum(arr) = (S[4 * n] + Number(a, b, c, 0)) % Word
    <3> HIDE DEF a, b, c
    <3>1. left[1] = a /\ left[2] = b /\ left[3] = c
      BY <1>14 DEF a, b, c
    <3> QED
      BY <1>10, <1>13, <3>1
  <2>2. len \in 0..len /\ 4 * n \in 0..len
    BY <1>1
  <2>3. S[len] \in Nat /\ S[4 * n] \in Nat
    BY <1>5, <2>2
  <2> DEFINE u == a * Weight[1]
  <2> DEFINE v == b * Weight[2]
  <2> DEFINE w == c * Weight[3]
  <2>4. u \in Int /\ v \in Int /\ w \in Int
    <3> HIDE DEF a, b, c
    <3>1. Weight[1] \in Nat /\ Weight[2] \in Nat /\ Weight[3] \in Nat
      BY WeightType
    <3> QED
      BY <1>15, <3>1, Distribute
  <2>5. S[len] = S[4 * n] + u + v + w /\ Number(a, b, c, 0) = u + v + w
    BY <1>16, <1>17
  <2> HIDE DEF a, b, c, u, v, w
  <2>6. S[4 * n] + Number(a, b, c, 0) = S[len]
    BY <2>3, <2>4, <2>5
  <2> QED
    BY <2>1, <2>3, <2>6
<1>19. S[len] % Word \in 0..(Word - 1)
  BY <1>18, WordPositive, Division
<1> QED
  BY <1>5, <1>18, <1>19, <1>21

-----------------------------------------------------------------------------
(* A round of the loop *)

\* What of s lies in the buffer, after the first k, stands there.
Begins(s, a, k) == \A j \in 1..Len(s) : k + j <= Len(a) => a[k + j] = s[j]

LEMMA BeginsWithin ==
    ASSUME NEW s \in Seq(Nat), NEW t \in Seq(Nat), NEW a, NEW k \in Nat, Begins(s \o t, a, k)
    PROVE  Begins(s, a, k) /\ Begins(t, a, k + Len(s))
<1>1. /\ Len(s) \in Nat /\ Len(t) \in Nat /\ Len(s \o t) = Len(s) + Len(t)
      /\ \A j \in 1..Len(s) : (s \o t)[j] = s[j]
      /\ \A j \in 1..Len(t) : (s \o t)[Len(s) + j] = t[j]
  BY Joined
<1> DEFINE u == s \o t
<1> DEFINE l == Len(s)
<1> DEFINE m == Len(t)
<1>2. /\ l \in Nat /\ m \in Nat /\ (\A j \in 1..l : u[j] = s[j]) /\ (\A j \in 1..m : u[l + j] = t[j])
      /\ \A j \in 1..(l + m) : k + j <= Len(a) => a[k + j] = u[j]
  BY <1>1 DEF Begins
<1> HIDE DEF u, l, m
<1>3. ASSUME NEW j \in 1..l, k + j <= Len(a) PROVE a[k + j] = s[j]
  <2>1. j \in 1..(l + m)
    BY <1>2
  <2> QED
    BY <1>2, <1>3, <2>1
<1>4. ASSUME NEW j \in 1..m, (k + l) + j <= Len(a) PROVE a[(k + l) + j] = t[j]
  <2>1. l + j \in 1..(l + m) /\ (k + l) + j = k + (l + j)
    BY <1>2
  <2>2. a[k + (l + j)] = u[l + j]
    BY <1>2, <1>4, <2>1
  <2> QED
    BY <1>2, <2>1, <2>2
<1> QED
  BY <1>3, <1>4 DEF Begins, l, m

LEMMA BeginsStands ==
    ASSUME NEW s \in Seq(Nat), NEW a, Len(a) \in Nat, NEW k \in Nat, Begins(s, a, k), k + Len(s) <= Len(a)
    PROVE  Stands(s, a, k)
<1> DEFINE l == Len(s)
<1>1. l \in Nat /\ k + l <= Len(a) /\ \A j \in 1..l : k + j <= Len(a) => a[k + j] = s[j]
  BY DEF Begins
<1> HIDE DEF l
<1>2. \A j \in 1..l : a[k + j] = s[j]
  BY <1>1
<1> QED
  BY <1>2 DEF Stands, l

\* A number and what ends it, in a buffer that may be cut: if the end is there both are
\* read, otherwise get_int() gives a digit for the end.
LEMMA NumberAndEnd ==
    ASSUME NEW n \in Nat, n < Word, NEW op \in Nat, ~IsDigit(op),
           NEW a, Len(a) \in Nat, NEW k \in Nat, k < Len(a),
           Begins(Digits(n, Radix), a, k), Begins(<<op>>, a, k + Len(Digits(n, Radix)))
    PROVE  /\ k + Len(Digits(n, Radix)) < Len(a)
                 => /\ GetInt(a, k + 1) = [v |-> n, pos |-> k + Len(Digits(n, Radix)) + 1]
                    /\ a[k + Len(Digits(n, Radix)) + 1] = op
           /\ ~(k + Len(Digits(n, Radix)) < Len(a)) => IsDigit(a[GetInt(a, k + 1).pos])
<1> DEFINE s == Digits(n, Radix)
<1> DEFINE l == Len(s)
<1>1. s \in Seq(Nat) /\ l \in Nat \ {0} /\ \A i \in 1..l : IsDigit(s[i])
  BY DigitsType
<1>2. \A j \in 1..l : k + j <= Len(a) => a[k + j] = s[j]
  BY DEF Begins
<1>3. k + l + 1 <= Len(a) => a[k + l + 1] = op
  <2>1. Len(<<op>>) = 1 /\ <<op>>[1] = op /\ 1 \in 1..1
    OBVIOUS
  <2> QED
    BY <2>1 DEF Begins
<1>4. ASSUME k + l < Len(a) PROVE GetInt(a, k + 1) = [v |-> n, pos |-> k + l + 1]
  <2>1. k + l <= Len(a) /\ a[k + l + 1] = op
    <3> HIDE DEF l
    <3> QED
      BY <1>1, <1>3, <1>4
  <2>2. Stands(s, a, k)
    BY <1>1, <2>1, BeginsStands
  <2>3. ~IsDigit(a[k + l + 1])
    BY <2>1
  <2> QED
    BY <1>4, <2>2, <2>3, NumberRead
<1> HIDE DEF s, l
<1>5. k + l < Len(a) => a[k + l + 1] = op
  BY <1>1, <1>3
<1>6. ASSUME ~(k + l < Len(a)) PROVE IsDigit(a[GetInt(a, k + 1).pos])
  <2>1. ASSUME NEW i \in (k + 1)..Len(a) PROVE IsDigit(a[i])
    <3>1. i - k \in 1..l /\ k + (i - k) = i /\ k + (i - k) <= Len(a)
      BY <1>1, <1>6
    <3>2. a[k + (i - k)] = s[i - k]
      BY <1>2, <3>1
    <3> QED
      BY <1>1, <3>1, <3>2
  <2>2. GetInt(a, k + 1).pos = Len(a)
    BY <2>1, NumberCut
  <2>3. Len(a) \in (k + 1)..Len(a)
    OBVIOUS
  <2> QED
    BY <2>1, <2>2, <2>3
<1> QED
  BY <1>4, <1>5, <1>6 DEF s, l

\* The loop between two commands.
Running(out, pos, total) == [st |-> "run", out |-> out, pos |-> pos, total |-> total]

\* Round(), command by command.
LEMMA RoundAt ==
    ASSUME NEW source, NEW a, NEW limit, NEW out, NEW pos, NEW total, NEW n, NEW p, NEW o, NEW q,
           GetInt(a, pos) = [v |-> n, pos |-> p], a[p] = At, GetInt(a, p + 1).v = o, GetInt(a, p + 1).pos = q
    PROVE  /\ a[q] # Comma \/ total + n > limit \/ PastEnd(source, o, n)
                 => Round(source, a, limit, Running(out, pos, total)).st = "failed"
           /\ ~(a[q] # Comma \/ total + n > limit \/ PastEnd(source, o, n))
                 => Round(source, a, limit, Running(out, pos, total))
                      = Running(out \o Slice(source, o, o + n), q + 1, total + n)
<1> DEFINE d == Running(out, pos, total)
<1> DEFINE c == GetInt(a, d.pos)
<1> DEFINE e == GetInt(a, c.pos + 1)
<1>1. d.st = "run" /\ d.out = out /\ d.pos = pos /\ d.total = total /\ [d EXCEPT !.st = "failed"].st = "failed"
  BY DEF Running
<1> HIDE DEF d
<1>2. c.v = n /\ c.pos = p /\ a[c.pos] = At
  BY <1>1
<1>3. e.v = o /\ e.pos = q
  <2>1. c.pos + 1 = p + 1
    BY <1>2
  <2> HIDE DEF c
  <2> QED
    BY <2>1
<1>4. Round(source, a, limit, d) =
        IF a[e.pos] # Comma \/ d.total + c.v > limit \/ PastEnd(source, e.v, c.v) THEN [d EXCEPT !.st = "failed"]
        ELSE [st |-> "run", out |-> d.out \o Slice(source, e.v, e.v + c.v), pos |-> e.pos + 1, total |-> d.total + c.v]
  BY <1>2, Radices DEF Round
<1> HIDE DEF c, e
<1>5. Round(source, a, limit, d) =
        IF a[q] # Comma \/ total + n > limit \/ PastEnd(source, o, n) THEN [d EXCEPT !.st = "failed"]
        ELSE Running(out \o Slice(source, o, o + n), q + 1, total + n)
  BY <1>1, <1>2, <1>3, <1>4 DEF Running
<1> QED
  BY <1>1, <1>5 DEF d

LEMMA RoundColon ==
    ASSUME NEW source, NEW a, NEW limit, NEW out, NEW pos, NEW total, NEW n, NEW p,
           GetInt(a, pos) = [v |-> n, pos |-> p], a[p] = Colon
    PROVE  /\ total + n > limit \/ n > Len(a) - p
                 => Round(source, a, limit, Running(out, pos, total)).st = "failed"
           /\ ~(total + n > limit \/ n > Len(a) - p)
                 => Round(source, a, limit, Running(out, pos, total))
                      = Running(out \o Slice(a, p, p + n), p + 1 + n, total + n)
<1> DEFINE d == Running(out, pos, total)
<1> DEFINE c == GetInt(a, d.pos)
<1>1. d.st = "run" /\ d.out = out /\ d.pos = pos /\ d.total = total /\ [d EXCEPT !.st = "failed"].st = "failed"
  BY DEF Running
<1> HIDE DEF d
<1>2. c.v = n /\ c.pos = p /\ a[c.pos] = Colon
  BY <1>1
<1>3. Round(source, a, limit, d) =
        IF d.total + c.v > limit \/ c.v > Len(a) - c.pos THEN [d EXCEPT !.st = "failed"]
        ELSE [st |-> "run", out |-> d.out \o Slice(a, c.pos, c.pos + c.v), pos |-> c.pos + 1 + c.v, total |-> d.total + c.v]
  BY <1>2, Radices DEF Round
<1> HIDE DEF c
<1>4. Round(source, a, limit, d) =
        IF total + n > limit \/ n > Len(a) - p THEN [d EXCEPT !.st = "failed"]
        ELSE Running(out \o Slice(a, p, p + n), p + 1 + n, total + n)
  BY <1>1, <1>2, <1>3 DEF Running
<1> QED
  BY <1>1, <1>4 DEF d

LEMMA RoundSemicolon ==
    ASSUME NEW source, NEW a, NEW limit, NEW out, NEW pos, NEW total, NEW n, NEW p,
           GetInt(a, pos) = [v |-> n, pos |-> p], a[p] = Semicolon, n = Checksum(out), total = limit
    PROVE  Round(source, a, limit, Running(out, pos, total)) = [Running(out, pos, total) EXCEPT !.st = "done"]
<1> DEFINE d == Running(out, pos, total)
<1> DEFINE c == GetInt(a, d.pos)
<1>1. d.out = out /\ d.pos = pos /\ d.total = total
  BY DEF Running
<1> HIDE DEF d
<1>2. c.v = n /\ a[c.pos] = Semicolon
  BY <1>1
<1>3. Round(source, a, limit, d) =
        IF c.v # Checksum(d.out) \/ d.total # limit THEN [d EXCEPT !.st = "failed"] ELSE [d EXCEPT !.st = "done"]
  BY <1>2, Radices DEF Round
<1> HIDE DEF c
<1>4. Round(source, a, limit, d) = [d EXCEPT !.st = "done"]
  BY <1>1, <1>2, <1>3
<1> QED
  BY <1>4 DEF d

LEMMA RoundOther ==
    ASSUME NEW source, NEW a, NEW limit, NEW out, NEW pos, NEW total, IsDigit(a[GetInt(a, pos).pos])
    PROVE  Round(source, a, limit, Running(out, pos, total)).st = "failed"
<1> DEFINE d == Running(out, pos, total)
<1>1. d.pos = pos /\ [d EXCEPT !.st = "failed"].st = "failed"
  BY DEF Running
<1> HIDE DEF d
<1>2. IsDigit(a[GetInt(a, d.pos).pos])
  BY <1>1
<1>3. Round(source, a, limit, d) = [d EXCEPT !.st = "failed"]
  BY <1>2, Radices DEF Round
<1> QED
  BY <1>1, <1>3 DEF d

\* The commands a delta may have: a copy's offset fits the 32 bits that get_int() keeps.
Cmds == {Copy(o, n) : o \in 0..(Word - 1), n \in Nat} \cup {Insert(s) : s \in Seq(Nat)}

LEMMA CommandTypes ==
    ASSUME NEW c \in Cmds, NEW source, Len(source) \in Nat
    PROVE  /\ c.cnt \in Nat /\ c.ofst \in Nat /\ c.ofst < Word /\ c.op \in {At, Colon}
           /\ c.op = Colon => c.data \in Seq(Nat) /\ c.cnt = Len(c.data)
           /\ c.op = At => Written(c) = Digits(c.cnt, Radix) \o ((<<At>> \o Digits(c.ofst, Radix)) \o <<Comma>>)
           /\ c.op = Colon => Written(c) = Digits(c.cnt, Radix) \o (<<Colon>> \o c.data)
           /\ c.op = At => (Fits(source, c) <=> ~PastEnd(source, c.ofst, c.cnt))
<1>1. CASE \E o \in 0..(Word - 1), n \in Nat : c = Copy(o, n)
  <2> PICK o \in 0..(Word - 1), n \in Nat : c = Copy(o, n)
    BY <1>1
  <2>1. c.op = At /\ c.ofst = o /\ c.cnt = n
    BY DEF Copy
  <2>2. o \in Nat /\ o < Word /\ c.op # Colon
    BY <2>1, WordPositive, Radices
  <2>3. Written(c) = Digits(c.cnt, Radix) \o ((<<At>> \o Digits(c.ofst, Radix)) \o <<Comma>>)
    BY <2>2 DEF Written
  <2>4. Fits(source, c) <=> ~PastEnd(source, c.ofst, c.cnt)
    BY <2>1, <2>2 DEF Fits, PastEnd
  <2> QED
    BY <2>1, <2>2, <2>3, <2>4
<1>2. CASE \E s \in Seq(Nat) : c = Insert(s)
  <2> PICK s \in Seq(Nat) : c = Insert(s)
    BY <1>2
  <2>1. c.op = Colon /\ c.ofst = 0 /\ c.cnt = Len(s) /\ c.data = s
    BY DEF Insert
  <2>2. c.op # At /\ 0 < Word /\ Len(s) \in Nat
    BY <2>1, WordPositive, Radices
  <2>3. Written(c) = Digits(c.cnt, Radix) \o (<<Colon>> \o c.data)
    BY <2>1 DEF Written
  <2> QED
    BY <2>1, <2>2, <2>3
<1>3. (\E o \in 0..(Word - 1), n \in Nat : c = Copy(o, n)) \/ (\E s \in Seq(Nat) : c = Insert(s))
  BY DEF Cmds
<1> QED
  BY <1>1, <1>2, <1>3

LEMMA SliceType ==
    ASSUME NEW a \in Seq(Nat), NEW i \in Nat, NEW j \in Nat
    PROVE  Slice(a, i, j) \in Seq(Nat)
<1> DEFINE m == IF j < Len(a) THEN j ELSE Len(a)
<1>1. m \in Int /\ i + 1 \in Int /\ \A h \in (i + 1)..m : a[h] \in Nat
  OBVIOUS
<1>2. Slice(a, i, j) = SubSeq(a, i + 1, m)
  BY DEF Slice
<1> HIDE DEF m
<1> QED
  BY <1>1, <1>2, SubSeqProperties

LEMMA CommandSequences ==
    ASSUME NEW c \in Cmds, NEW source \in Seq(Nat)
    PROVE  /\ Written(c) \in Seq(Nat) /\ Len(Written(c)) \in Nat \ {0, 1}
           /\ Meant(source, c) \in Seq(Nat)
<1>1. /\ c.cnt \in Nat /\ c.ofst \in Nat /\ c.op \in {At, Colon}
      /\ c.op = Colon => c.data \in Seq(Nat)
      /\ c.op = At => Written(c) = Digits(c.cnt, Radix) \o ((<<At>> \o Digits(c.ofst, Radix)) \o <<Comma>>)
      /\ c.op = Colon => Written(c) = Digits(c.cnt, Radix) \o (<<Colon>> \o c.data)
  <2>1. Len(source) \in Nat
    OBVIOUS
  <2> QED
    BY <2>1, CommandTypes
<1> DEFINE s == Digits(c.cnt, Radix)
<1>2. s \in Seq(Nat) /\ Len(s) \in Nat \ {0}
  BY <1>1, DigitsType
<1>3. \A b \in {At, Colon, Comma} : <<b>> \in Seq(Nat) /\ Len(<<b>>) = 1
  BY Radices
<1>4. ASSUME NEW t \in Seq(Nat), NEW b \in {At, Colon}
      PROVE  <<b>> \o t \in Seq(Nat) /\ Len(<<b>> \o t) \in Nat \ {0}
  <2>1. <<b>> \o t \in Seq(Nat) /\ Len(<<b>> \o t) = Len(<<b>>) + Len(t) /\ Len(t) \in Nat
    BY <1>3, Joined
  <2> QED
    BY <1>3, <2>1
<1>5. ASSUME NEW t \in Seq(Nat), Len(t) \in Nat \ {0}
      PROVE  s \o t \in Seq(Nat) /\ Len(s \o t) \in Nat \ {0, 1}
  <2>1. s \o t \in Seq(Nat) /\ Len(s \o t) = Len(s) + Len(t)
    BY <1>2, Joined
  <2> QED
    BY <1>2, <1>5, <2>1
<1> HIDE DEF s
<1>6. CASE c.op = At
  <2> DEFINE t == Digits(c.ofst, Radix)
  <2> DEFINE u == <<At>> \o t
  <2>1. t \in Seq(Nat)
    BY <1>1, DigitsType
  <2> HIDE DEF t
  <2>2. u \in Seq(Nat) /\ Len(u) \in Nat \ {0}
    BY <1>4, <2>1
  <2>3. Written(c) = s \o (u \o <<Comma>>)
    BY <1>1, <1>6 DEF s, t
  <2> HIDE DEF u
  <2>4. u \o <<Comma>> \in Seq(Nat) /\ Len(u \o <<Comma>>) = Len(u) + Len(<<Comma>>)
    BY <1>3, <2>2, Joined
  <2>5. Len(u \o <<Comma>>) \in Nat \ {0}
    BY <1>3, <2>2, <2>4
  <2>6. Written(c) \in Seq(Nat) /\ Len(Written(c)) \in Nat \ {0, 1}
    BY <1>5, <2>3, <2>4, <2>5
  <2>7. Meant(source, c) = Slice(source, c.ofst, c.ofst + c.cnt)
    BY <1>6, Radices DEF Meant
  <2>8. c.ofst + c.cnt \in Nat
    BY <1>1
  <2> QED
    BY <1>1, <2>6, <2>7, <2>8, SliceType
<1>7. CASE c.op = Colon
  <2>1. Written(c) = s \o (<<Colon>> \o c.data) /\ c.data \in Seq(Nat)
    BY <1>1, <1>7 DEF s
  <2>2. <<Colon>> \o c.data \in Seq(Nat) /\ Len(<<Colon>> \o c.data) \in Nat \ {0}
    BY <1>4, <2>1
  <2>3. Meant(source, c) = c.data
    BY <1>7 DEF Meant
  <2> QED
    BY <1>5, <2>1, <2>2, <2>3
<1> QED
  BY <1>1, <1>6, <1>7

\* A command in a buffer that may be cut: if it is all there, fits the source and the limit,
\* the round does what it says and goes on behind it.  If it is cut, or a copy reads past the
\* end of the source, the round fails.
LEMMA CommandRead ==
    ASSUME NEW source \in Seq(Nat), NEW c \in Cmds, c.cnt < Word, NEW limit \in Nat, NEW a \in Seq(Nat),
           NEW k \in Nat, k < Len(a), Begins(Written(c), a, k), NEW out, NEW total \in Nat
    PROVE  /\ k + Len(Written(c)) <= Len(a) /\ Fits(source, c) /\ total + c.cnt <= limit
                => Round(source, a, limit, Running(out, k + 1, total))
                     = Running(out \o Meant(source, c), k + Len(Written(c)) + 1, total + c.cnt)
           /\ ~(k + Len(Written(c)) <= Len(a) /\ Fits(source, c))
                => Round(source, a, limit, Running(out, k + 1, total)).st = "failed"
<1> DEFINE d == Running(out, k + 1, total)
<1> DEFINE s == Digits(c.cnt, Radix)
<1> DEFINE n == c.cnt
<1> DEFINE l == Len(s)
<1> DEFINE w == Len(Written(c))
<1>1. /\ c.cnt \in Nat /\ c.ofst \in Nat /\ c.ofst < Word /\ c.op \in {At, Colon}
      /\ c.op = Colon => c.data \in Seq(Nat) /\ c.cnt = Len(c.data)
      /\ c.op = At => Written(c) = Digits(c.cnt, Radix) \o ((<<At>> \o Digits(c.ofst, Radix)) \o <<Comma>>)
      /\ c.op = Colon => Written(c) = Digits(c.cnt, Radix) \o (<<Colon>> \o c.data)
      /\ c.op = At => (Fits(source, c) <=> ~PastEnd(source, c.ofst, c.cnt))
  <2>1. Len(source) \in Nat
    OBVIOUS
  <2> QED
    BY <2>1, CommandTypes
<1>2. s \in Seq(Nat) /\ l \in Nat \ {0}
  BY <1>1, DigitsType
<1>3. \A b \in {At, Colon, Comma} : b \in Nat /\ ~IsDigit(b) /\ <<b>> \in Seq(Nat) /\ Len(<<b>>) = 1
  BY Radices
<1>5. Len(a) \in Nat /\ n \in Nat /\ n < Word /\ total \in Nat
  BY <1>1
<1>6. ASSUME NEW op \in {At, Colon}, Begins(s, a, k), Begins(<<op>>, a, k + l)
      PROVE  /\ k + l < Len(a) => GetInt(a, k + 1) = [v |-> n, pos |-> k + l + 1] /\ a[k + l + 1] = op
             /\ ~(k + l < Len(a)) => Round(source, a, limit, d).st = "failed"
  <2>1. /\ k + l < Len(a) => GetInt(a, k + 1) = [v |-> n, pos |-> k + l + 1] /\ a[k + l + 1] = op
        /\ ~(k + l < Len(a)) => IsDigit(a[GetInt(a, k + 1).pos])
    <3>1. op \in Nat /\ ~IsDigit(op)
      BY <1>3
    <3> QED
      BY <1>3, <1>5, <1>6, <3>1, NumberAndEnd
  <2>2. ASSUME ~(k + l < Len(a)) PROVE Round(source, a, limit, d).st = "failed"
    <3>1. IsDigit(a[GetInt(a, k + 1).pos])
      BY <2>1, <2>2
    <3> QED
      BY <3>1, RoundOther
  <2> QED
    BY <2>1, <2>2
<1> HIDE DEF d, s, l, n
<1>7. CASE c.op = At
  <2> DEFINE o == c.ofst
  <2> DEFINE t == Digits(o, Radix)
  <2> DEFINE m == Len(t)
  <2>1. t \in Seq(Nat) /\ m \in Nat \ {0} /\ o \in Nat /\ o < Word
    BY <1>1, DigitsType
  <2>2. Written(c) = s \o ((<<At>> \o t) \o <<Comma>>)
    BY <1>1, <1>7 DEF s
  <2> HIDE DEF o, t, m
  <2>3. <<At>> \o t \in Seq(Nat) /\ (<<At>> \o t) \o <<Comma>> \in Seq(Nat) /\ Len(<<At>> \o t) = 1 + m
        /\ Len((<<At>> \o t) \o <<Comma>>) = 1 + m + 1
    <3>1. <<At>> \o t \in Seq(Nat) /\ Len(<<At>> \o t) = 1 + m
      BY <1>3, <2>1, Joined DEF m
    <3> DEFINE u == <<At>> \o t
    <3>2. u \in Seq(Nat) /\ Len(u) = 1 + m
      BY <3>1
    <3> DEFINE e == <<Comma>>
    <3>4. e \in Seq(Nat) /\ Len(e) = 1
      BY <1>3
    <3> HIDE DEF u, e
    <3>5. u \o e \in Seq(Nat) /\ Len(u \o e) = Len(u) + Len(e)
      BY <3>2, <3>4, Joined
    <3>3. u \o e \in Seq(Nat) /\ Len(u \o e) = 1 + m + 1
      BY <3>2, <3>4, <3>5
    <3> QED
      BY <3>2, <3>3 DEF u, e
  <2>4. w = l + 1 + m + 1
    <3> DEFINE u == (<<At>> \o t) \o <<Comma>>
    <3>1. u \in Seq(Nat) /\ Len(u) = 1 + m + 1 /\ Written(c) = s \o u
      BY <2>2, <2>3
    <3> HIDE DEF u
    <3>2. Len(s \o u) = l + Len(u)
      BY <1>2, <3>1, Joined DEF l
    <3> QED
      BY <1>2, <2>1, <3>1, <3>2
  <2>5. Begins(s, a, k) /\ Begins(<<At>>, a, k + l) /\ Begins(t, a, k + l + 1) /\ Begins(<<Comma>>, a, k + l + 1 + m)
    <3> DEFINE u == <<At>> \o t
    <3> DEFINE x == u \o <<Comma>>
    <3>1. u \in Seq(Nat) /\ x \in Seq(Nat) /\ Len(u) = 1 + m /\ Begins(s \o x, a, k)
      BY <2>2, <2>3
    <3> HIDE DEF x
    <3>2. Begins(s, a, k) /\ Begins(x, a, k + l)
      BY <1>2, <3>1, BeginsWithin DEF l
    <3> HIDE DEF u
    <3>3. Begins(u, a, k + l) /\ Begins(<<Comma>>, a, k + l + (1 + m))
      <4>1. k + l \in Nat
        BY <1>2
      <4> QED
        BY <1>3, <3>1, <3>2, <4>1, BeginsWithin DEF x
    <3>4. Begins(<<At>>, a, k + l) /\ Begins(t, a, k + l + 1)
      <4>1. k + l \in Nat
        BY <1>2
      <4> QED
        BY <1>3, <2>1, <3>3, <4>1, BeginsWithin DEF u
    <3>5. k + l + (1 + m) = k + l + 1 + m
      BY <1>2, <2>1
    <3> QED
      BY <3>2, <3>3, <3>4, <3>5
  <2>6. CASE ~(k + l < Len(a))
    <3>1. ~(k + w <= Len(a))
      BY <1>2, <1>5, <2>1, <2>4, <2>6
    <3> QED
      BY <1>6, <2>5, <2>6, <3>1 DEF d
  <2>7. CASE k + l < Len(a)
    <3> DEFINE p == k + l + 1
    <3> DEFINE q == GetInt(a, p + 1).pos
    <3> DEFINE v == GetInt(a, p + 1).v
    <3>1. GetInt(a, k + 1) = [v |-> n, pos |-> p] /\ a[p] = At /\ p \in Nat
      BY <1>2, <1>6, <2>5, <2>7
    <3>2. /\ p + m < Len(a) => GetInt(a, p + 1) = [v |-> o, pos |-> p + m + 1] /\ a[p + m + 1] = Comma
          /\ ~(p + m < Len(a)) => a[q] # Comma
      <4>1. CASE p < Len(a)
        <5>1. Begins(t, a, p) /\ Begins(<<Comma>>, a, p + m)
          BY <2>5
        <5> HIDE DEF p
        <5>2. /\ p + m < Len(a) => GetInt(a, p + 1) = [v |-> o, pos |-> p + m + 1] /\ a[p + m + 1] = Comma
              /\ ~(p + m < Len(a)) => IsDigit(a[GetInt(a, p + 1).pos])
          BY <1>3, <1>5, <2>1, <3>1, <4>1, <5>1, NumberAndEnd DEF t, m
        <5> QED
          BY <1>3, <5>2
      <4>2. CASE ~(p < Len(a))
        <5>1. p = Len(a) /\ ~(p + m < Len(a)) /\ \A i \in (p + 1)..Len(a) : IsDigit(a[i])
          BY <1>2, <1>5, <2>1, <2>7, <4>2
        <5>2. q = Len(a)
          BY <5>1, NumberCut
        <5>3. a[q] = At /\ At # Comma
          BY <3>1, <5>1, <5>2, Radices
        <5> QED
          BY <5>1, <5>3
      <4> QED
        BY <4>1, <4>2
    <3> HIDE DEF p
    <3>3. CASE ~(p + m < Len(a))
      <4>1. ~(k + w <= Len(a))
        BY <1>2, <1>5, <2>1, <2>4, <3>3 DEF p
      <4>2. Round(source, a, limit, d).st = "failed"
        <5>1. a[q] # Comma /\ GetInt(a, p + 1).v = v /\ GetInt(a, p + 1).pos = q
          BY <3>2, <3>3
        <5> HIDE DEF q, v
        <5> QED
          BY <3>1, <5>1, RoundAt DEF d
      <4> QED
        BY <4>1, <4>2 DEF d
    <3>4. CASE p + m < Len(a)
      <4>1. GetInt(a, p + 1).v = o /\ GetInt(a, p + 1).pos = p + m + 1 /\ a[p + m + 1] = Comma
        BY <3>2, <3>4
      <4> DEFINE e == p + m + 1
      <4>2. e \in Int /\ o \in Int /\ n \in Int /\ p \in Int /\ e + 1 = k + w + 1 /\ k + w <= Len(a)
        BY <1>2, <1>5, <2>1, <2>4, <3>1, <3>4 DEF p
      <4>3. GetInt(a, p + 1).v = o /\ GetInt(a, p + 1).pos = e /\ a[e] = Comma
        BY <4>1
      <4> HIDE DEF e
      <4>4. /\ total + n > limit \/ PastEnd(source, o, n) => Round(source, a, limit, d).st = "failed"
            /\ ~(total + n > limit \/ PastEnd(source, o, n))
                 => Round(source, a, limit, d) = Running(out \o Slice(source, o, o + n), e + 1, total + n)
        <5>1. GetInt(a, k + 1) = [v |-> n, pos |-> p] /\ a[p] = At /\ ~(a[e] # Comma)
          BY <3>1, <4>3
        <5> QED
          BY <5>1, <4>3, RoundAt DEF d
      <4>5. (Fits(source, c) <=> ~PastEnd(source, o, n)) /\ Meant(source, c) = Slice(source, o, o + n)
        BY <1>1, <1>7, Radices DEF Meant, n, o
      <4>6. ASSUME Fits(source, c), total + n <= limit
            PROVE  Round(source, a, limit, d) = Running(out \o Meant(source, c), k + w + 1, total + n)
        <5>1. ~(total + n > limit)
          BY <1>5, <4>6
        <5> QED
          BY <4>2, <4>3, <4>4, <4>5, <4>6, <5>1 DEF Running
      <4>7. ASSUME ~Fits(source, c) PROVE Round(source, a, limit, d).st = "failed"
        BY <4>4, <4>5, <4>7
      <4> QED
        BY <4>2, <4>6, <4>7 DEF d, n
    <3> QED
      BY <3>3, <3>4
  <2> QED
    BY <2>6, <2>7
<1>8. CASE c.op = Colon
  <2> DEFINE t == c.data
  <2>1. t \in Seq(Nat) /\ n = Len(t) /\ Fits(source, c) /\ Meant(source, c) = t
    BY <1>1, <1>8 DEF n, Fits, Meant
  <2>2. Written(c) = s \o (<<Colon>> \o t)
    BY <1>1, <1>8 DEF s
  <2> HIDE DEF t
  <2> DEFINE x == <<Colon>> \o t
  <2>3. x \in Seq(Nat) /\ Len(x) = 1 + n
    BY <1>3, <2>1, Joined
  <2>4. Begins(s \o x, a, k) /\ w = Len(s \o x)
    BY <2>2
  <2> HIDE DEF x
  <2>5. w = l + 1 + n
    <3>1. Len(s \o x) = l + Len(x)
      BY <1>2, <2>3, Joined DEF l
    <3> QED
      BY <1>2, <1>5, <2>3, <2>4, <3>1
  <2>6. Begins(s, a, k) /\ Begins(<<Colon>>, a, k + l) /\ Begins(t, a, k + l + 1)
    <3>1. Begins(s, a, k) /\ Begins(x, a, k + l)
      BY <1>2, <2>3, <2>4, BeginsWithin DEF l
    <3>2. k + l \in Nat
      BY <1>2
    <3> QED
      BY <1>3, <2>1, <3>1, <3>2, BeginsWithin DEF x
  <2>7. CASE ~(k + l < Len(a))
    <3>1. ~(k + w <= Len(a))
      BY <1>2, <1>5, <2>5, <2>7
    <3> QED
      BY <1>6, <2>6, <2>7, <3>1 DEF d
  <2>8. CASE k + l < Len(a)
    <3> DEFINE p == k + l + 1
    <3>1. GetInt(a, k + 1) = [v |-> n, pos |-> p] /\ a[p] = Colon /\ p \in Nat /\ p <= Len(a) /\ Begins(t, a, p)
      BY <1>2, <1>5, <1>6, <2>6, <2>8
    <3>2. k + w = p + n /\ w \in Nat
      BY <1>2, <1>5, <2>5
    <3> HIDE DEF p
    <3>3. /\ total + n > limit \/ n > Len(a) - p => Round(source, a, limit, d).st = "failed"
          /\ ~(total + n > limit \/ n > Len(a) - p)
               => Round(source, a, limit, d) = Running(out \o Slice(a, p, p + n), p + 1 + n, total + n)
      BY <3>1, RoundColon DEF d
    <3>4. ASSUME k + w <= Len(a), total + n <= limit
          PROVE  Round(source, a, limit, d) = Running(out \o Meant(source, c), k + w + 1, total + n)
      <4>4. p \in Nat /\ n \in Nat /\ w \in Nat /\ k + w = p + n /\ k + w <= Len(a) /\ total + n <= limit
        BY <1>5, <3>1, <3>2, <3>4
      <4>1. ~(total + n > limit) /\ ~(n > Len(a) - p) /\ p + 1 + n = k + w + 1 /\ p + n <= Len(a)
        <5> HIDE DEF w
        <5>1. ~(n > Len(a) - p) /\ p + 1 + n = k + w + 1 /\ p + n <= Len(a)
          BY <1>5, <4>4
        <5>2. ~(total + n > limit)
          BY <1>5, <4>4
        <5> QED
          BY <5>1, <5>2
      <4>2. Slice(a, p, p + n) = SubSeq(a, p + 1, p + n)
        <5>1. (IF p + n < Len(a) THEN p + n ELSE Len(a)) = p + n
          <6> DEFINE e == p + n
          <6> DEFINE h == Len(a)
          <6>1. e \in Int /\ h \in Int /\ e <= h
            BY <1>5, <4>1, <4>4
          <6> HIDE DEF e, h
          <6>2. (IF e < h THEN e ELSE h) = e
            BY <6>1
          <6> QED
            BY <6>2 DEF e, h
        <5> QED
          BY <5>1 DEF Slice
      <4>3. SubSeq(a, p + 1, p + n) = t
        <5>1. Stands(t, a, p)
          BY <1>5, <2>1, <3>1, <3>2, <3>4, BeginsStands
        <5> QED
          BY <2>1, <3>1, <5>1, Cut
      <4> QED
        BY <2>1, <3>3, <4>1, <4>2, <4>3 DEF Running
    <3>5. ASSUME ~(k + w <= Len(a)) PROVE Round(source, a, limit, d).st = "failed"
      <4>1. n > Len(a) - p
        BY <1>5, <3>1, <3>2, <3>5
      <4> QED
        BY <3>3, <4>1
    <3> QED
      BY <2>1, <3>4, <3>5 DEF d, n
  <2> QED
    BY <2>7, <2>8
<1> QED
  BY <1>1, <1>7, <1>8

LEMMA TrailerRead ==
    ASSUME NEW source, NEW out, NEW n \in Nat, n < Word, NEW limit, NEW a, Len(a) \in Nat,
           NEW k \in Nat, k < Len(a), Begins(Digits(n, Radix) \o <<Semicolon>>, a, k)
    PROVE  /\ n = Checksum(out) /\ k + Len(Digits(n, Radix)) < Len(a)
                 => Round(source, a, limit, Running(out, k + 1, limit)) = [Running(out, k + 1, limit) EXCEPT !.st = "done"]
           /\ ~(k + Len(Digits(n, Radix)) < Len(a)) => Round(source, a, limit, Running(out, k + 1, limit)).st = "failed"
<1> DEFINE s == Digits(n, Radix)
<1> DEFINE l == Len(s)
<1>1. s \in Seq(Nat) /\ <<Semicolon>> \in Seq(Nat) /\ Semicolon \in Nat /\ ~IsDigit(Semicolon)
  BY DigitsType, Radices
<1> HIDE DEF s, l
<1>2. Begins(s, a, k) /\ Begins(<<Semicolon>>, a, k + Len(s))
  BY <1>1, BeginsWithin DEF s
<1>3. /\ k + l < Len(a) => GetInt(a, k + 1) = [v |-> n, pos |-> k + l + 1] /\ a[k + l + 1] = Semicolon
      /\ ~(k + l < Len(a)) => IsDigit(a[GetInt(a, k + 1).pos])
  <2>1. Begins(Digits(n, Radix), a, k) /\ Begins(<<Semicolon>>, a, k + Len(Digits(n, Radix)))
    BY <1>2 DEF s
  <2>2. /\ k + Len(Digits(n, Radix)) < Len(a)
              => GetInt(a, k + 1) = [v |-> n, pos |-> k + Len(Digits(n, Radix)) + 1]
                 /\ a[k + Len(Digits(n, Radix)) + 1] = Semicolon
        /\ ~(k + Len(Digits(n, Radix)) < Len(a)) => IsDigit(a[GetInt(a, k + 1).pos])
    BY <1>1, <2>1, NumberAndEnd
  <2> QED
    BY <2>2 DEF s, l
<1>4. ASSUME k + l < Len(a), n = Checksum(out)
      PROVE  Round(source, a, limit, Running(out, k + 1, limit)) = [Running(out, k + 1, limit) EXCEPT !.st = "done"]
  <2>1. GetInt(a, k + 1) = [v |-> n, pos |-> k + l + 1] /\ a[k + l + 1] = Semicolon
    BY <1>3, <1>4
  <2> QED
    BY <1>4, <2>1, RoundSemicolon
<1>5. ASSUME ~(k + l < Len(a)) PROVE Round(source, a, limit, Running(out, k + 1, limit)).st = "failed"
  BY <1>3, <1>5, RoundOther
<1> QED
  BY <1>4, <1>5 DEF l, s

-----------------------------------------------------------------------------
(* The loop *)

LEMMA RoundsRec ==
    ASSUME NEW source, NEW delta, NEW limit, NEW start, Len(delta) \in Nat
    PROVE  /\ Rounds(source, delta, limit, start)[0] = start
           /\ \A i \in 1..Len(delta) : LET d == Rounds(source, delta, limit, start)[i - 1] IN
                 /\ d.st = "run" /\ d.pos <= Len(delta)
                       => Rounds(source, delta, limit, start)[i] = Round(source, delta, limit, d)
                 /\ ~(d.st = "run" /\ d.pos <= Len(delta)) => Rounds(source, delta, limit, start)[i] = d
<1> DEFINE n == Len(delta)
<1> DEFINE Step(d) == IF d.st = "run" /\ d.pos <= n THEN Round(source, delta, limit, d) ELSE d
<1> DEFINE Eq(g, m) == g = [i \in 0..m |-> IF i = 0 THEN start ELSE Step(g[i - 1])]
<1> DEFINE P == {m \in 0..n : \E g : Eq(g, m)}
<1>0. n \in Nat
  OBVIOUS
<1> HIDE DEF Step
<1>1. 0 \in P
  <2> DEFINE g == [i \in 0..0 |-> start]
  <2>1. Eq(g, 0)
    OBVIOUS
  <2> HIDE DEF Eq, g
  <2> QED
    BY <1>0, <2>1
<1>2. ASSUME NEW m \in 0..(n - 1), m \in P PROVE m + 1 \in P
  <2>1. PICK g : Eq(g, m)
    BY <1>2
  <2> DEFINE h == [i \in 0..(m + 1) |-> IF i = 0 THEN start ELSE Step(g[i - 1])]
  <2>2. ASSUME NEW i \in 0..(m + 1)
        PROVE  h[i] = (IF i = 0 THEN start ELSE Step(h[i - 1]))
    <3>1. CASE i = 0
      BY <3>1
    <3>2. CASE i # 0
      <4>1. i - 1 \in 0..m /\ i - 1 \in 0..(m + 1)
        BY <3>2
      <4>2. h[i - 1] = g[i - 1]
        BY <2>1, <4>1
      <4> QED
        BY <3>2, <4>1, <4>2
    <3> QED
      BY <3>1, <3>2
  <2>3. Eq(h, m + 1)
    BY <2>2
  <2>4. m + 1 \in 0..n
    BY <1>0
  <2> HIDE DEF Eq, h
  <2> QED
    BY <2>3, <2>4
<1>3. \A i \in 0..n : i \in P
  <2> HIDE DEF P
  <2> QED
    BY <1>0, <1>1, <1>2, UpTo
<1>4. \E g : g = [i \in 0..n |-> IF i = 0 THEN start ELSE Step(g[i - 1])]
  BY <1>0, <1>3
<1> DEFINE R == Rounds(source, delta, limit, start)
<1>5. R = [i \in 0..n |-> IF i = 0 THEN start ELSE Step(R[i - 1])]
  BY <1>4 DEF Rounds, Step
<1> HIDE DEF R
<1>6. R[0] = start /\ \A i \in 1..n : R[i] = Step(R[i - 1])
  BY <1>0, <1>5
<1> QED
  BY <1>6 DEF R, Step

\* The loop stays where it has stopped.
LEMMA RoundsStay ==
    ASSUME NEW source, NEW delta, NEW limit, NEW start, Len(delta) \in Nat, NEW m \in 0..Len(delta),
           LET d == Rounds(source, delta, limit, start)[m] IN ~(d.st = "run" /\ d.pos <= Len(delta))
    PROVE  Rounds(source, delta, limit, start)[Len(delta)] = Rounds(source, delta, limit, start)[m]
<1> DEFINE n == Len(delta)
<1> DEFINE R == Rounds(source, delta, limit, start)
<1>1. /\ n \in Nat /\ m \in 0..n /\ ~(R[m].st = "run" /\ R[m].pos <= n)
      /\ \A i \in 1..n : ~(R[i - 1].st = "run" /\ R[i - 1].pos <= n) => R[i] = R[i - 1]
  BY RoundsRec
<1> HIDE DEF n, R
<1> DEFINE P == {t \in 0..(n - m) : R[m + t] = R[m]}
<1>2. 0 \in P
  BY <1>1
<1>3. ASSUME NEW t \in 0..((n - m) - 1), t \in P PROVE t + 1 \in P
  <2>1. m + (t + 1) \in 1..n /\ (m + (t + 1)) - 1 = m + t /\ t + 1 \in 0..(n - m)
    BY <1>1
  <2>2. R[m + t] = R[m]
    BY <1>3
  <2>3. R[m + (t + 1)] = R[m]
    <3>1. ~(R[(m + (t + 1)) - 1].st = "run" /\ R[(m + (t + 1)) - 1].pos <= n)
            => R[m + (t + 1)] = R[(m + (t + 1)) - 1]
      BY <1>1, <2>1
    <3> QED
      BY <1>1, <2>1, <2>2, <3>1
  <2> QED
    BY <2>1, <2>3
<1>4. \A t \in 0..(n - m) : t \in P
  <2>1. n - m \in Nat
    BY <1>1
  <2> HIDE DEF P
  <2> QED
    BY <1>2, <1>3, <2>1, UpTo
<1>5. n - m \in 0..(n - m) /\ m + (n - m) = n
  BY <1>1
<1>6. R[n] = R[m]
  BY <1>4, <1>5
<1> QED
  BY <1>6 DEF n, R

\* The n commands of a script in a buffer: command i + 1 begins after the first p[i], and
\* with the first i commands g[i] is put out, t[i] in all.
Laid(source, n, script, p, g, t, limit, a) ==
    /\ source \in Seq(Nat) /\ n \in Nat /\ script \in [1..n -> Cmds]
    /\ limit \in Nat /\ limit < Word /\ a \in Seq(Nat)
    /\ p \in [0..n -> Nat] /\ g \in [0..n -> Seq(Nat)] /\ t \in [0..n -> Nat]
    /\ p[0] <= Len(a) /\ g[0] = <<>> /\ t[0] = 0
    /\ \A i \in 1..n : /\ p[i] = p[i - 1] + Len(Written(script[i])) /\ Begins(Written(script[i]), a, p[i - 1])
                       /\ g[i] = g[i - 1] \o Meant(source, script[i])
                       /\ t[i] = t[i - 1] + script[i].cnt /\ t[i] <= limit

After(source, limit, a, h) == Rounds(source, a, limit, Running(<<>>, h + 1, 0))

LEMMA AfterStart ==
    ASSUME NEW source, NEW limit, NEW a, Len(a) \in Nat, NEW h
    PROVE  After(source, limit, a, h)[0] = Running(<<>>, h + 1, 0)
<1> DEFINE start == Running(<<>>, h + 1, 0)
<1> HIDE DEF start
<1>1. Rounds(source, a, limit, start)[0] = start
  BY RoundsRec
<1> QED
  BY <1>1 DEF After, start

LEMMA AfterRound ==
    ASSUME NEW source, NEW limit, NEW a, Len(a) \in Nat, NEW h, NEW i \in 1..Len(a), NEW out, NEW pos, NEW total,
           After(source, limit, a, h)[i - 1] = Running(out, pos, total), pos <= Len(a)
    PROVE  After(source, limit, a, h)[i] = Round(source, a, limit, Running(out, pos, total))
<1> DEFINE start == Running(<<>>, h + 1, 0)
<1> DEFINE d == Running(out, pos, total)
<1>1. After(source, limit, a, h) = Rounds(source, a, limit, start)
  BY DEF After
<1>2. d.st = "run" /\ d.pos = pos
  BY DEF Running
<1> HIDE DEF start, d
<1> DEFINE R == Rounds(source, a, limit, start)
<1>3. R[i - 1].st = "run" /\ R[i - 1].pos <= Len(a) => R[i] = Round(source, a, limit, R[i - 1])
  BY RoundsRec
<1> HIDE DEF R
<1>4. R[i - 1] = d
  BY <1>1 DEF R, d
<1>5. R[i] = Round(source, a, limit, d)
  BY <1>2, <1>3, <1>4
<1> QED
  BY <1>1, <1>5 DEF R, d

LEMMA AfterStays ==
    ASSUME NEW source, NEW limit, NEW a, Len(a) \in Nat, NEW h, NEW m \in 0..Len(a),
           ~(After(source, limit, a, h)[m].st = "run" /\ After(source, limit, a, h)[m].pos <= Len(a))
    PROVE  After(source, limit, a, h)[Len(a)] = After(source, limit, a, h)[m]
<1> DEFINE start == Running(<<>>, h + 1, 0)
<1>1. After(source, limit, a, h) = Rounds(source, a, limit, start)
  BY DEF After
<1> HIDE DEF start
<1>2. ~(Rounds(source, a, limit, start)[m].st = "run" /\ Rounds(source, a, limit, start)[m].pos <= Len(a))
  BY <1>1
<1>3. Rounds(source, a, limit, start)[Len(a)] = Rounds(source, a, limit, start)[m]
  BY <1>2, RoundsStay
<1> QED
  BY <1>1, <1>3

\* One round, for the command that is next.
LEMMA CommandRound ==
    ASSUME NEW source, NEW n, NEW script, NEW p, NEW g, NEW t, NEW limit, NEW a,
           Laid(source, n, script, p, g, t, limit, a), NEW i \in 1..n, p[i - 1] < Len(a), i - 1 <= p[i - 1],
           NEW R, R = After(source, limit, a, p[0]), R[i - 1] = Running(g[i - 1], p[i - 1] + 1, t[i - 1])
    PROVE  /\ i \in 1..Len(a)
           /\ p[i] <= Len(a) /\ Fits(source, script[i]) => R[i] = Running(g[i], p[i] + 1, t[i])
           /\ ~(p[i] <= Len(a) /\ Fits(source, script[i])) => R[i].st = "failed"
<1> DEFINE c == script[i]
<1> DEFINE k == p[i - 1]
<1> DEFINE t0 == t[i - 1]
<1> DEFINE g0 == g[i - 1]
<1>1. source \in Seq(Nat) /\ limit \in Nat /\ limit < Word /\ a \in Seq(Nat) /\ c \in Cmds /\ n \in Nat
  BY DEF Laid
<1>2. p[i] = k + Len(Written(c)) /\ Begins(Written(c), a, k) /\ g[i] = g0 \o Meant(source, c)
      /\ t[i] = t0 + c.cnt /\ t[i] <= limit
  BY DEF Laid
<1>3. k \in Nat /\ t0 \in Nat
  <2>1. i - 1 \in 0..n
    BY <1>1
  <2> QED
    BY <2>1 DEF Laid
<1>4. k < Len(a) /\ i - 1 <= k
  OBVIOUS
<1>5. R[i - 1] = Running(g0, k + 1, t0)
  OBVIOUS
<1> HIDE DEF c, k, t0, g0
<1>6. Len(a) \in Nat /\ Len(source) \in Nat /\ i \in Nat \ {0} /\ i \in 1..Len(a)
  BY <1>1, <1>3, <1>4
<1>7. c.cnt \in Nat
  BY <1>1, <1>6, CommandTypes
<1>8. c.cnt < Word /\ t0 + c.cnt <= limit
  BY <1>1, <1>2, <1>3, <1>7, WordPositive
<1>9. R[i] = Round(source, a, limit, Running(g0, k + 1, t0))
  <2>1. k + 1 <= Len(a)
    BY <1>3, <1>4, <1>6
  <2> DEFINE h == p[0]
  <2> DEFINE pos == k + 1
  <2>2. After(source, limit, a, h)[i - 1] = Running(g0, pos, t0) /\ pos <= Len(a)
    BY <1>5, <2>1
  <2> HIDE DEF h, pos
  <2>3. After(source, limit, a, h)[i] = Round(source, a, limit, Running(g0, pos, t0))
    BY <1>6, <2>2, AfterRound
  <2> QED
    BY <2>3 DEF h, pos
<1>10. /\ k + Len(Written(c)) <= Len(a) /\ Fits(source, c) /\ t0 + c.cnt <= limit
            => Round(source, a, limit, Running(g0, k + 1, t0))
                 = Running(g0 \o Meant(source, c), k + Len(Written(c)) + 1, t0 + c.cnt)
       /\ ~(k + Len(Written(c)) <= Len(a) /\ Fits(source, c))
            => Round(source, a, limit, Running(g0, k + 1, t0)).st = "failed"
  <2>1. source \in Seq(Nat) /\ c \in Cmds /\ c.cnt < Word /\ limit \in Nat /\ a \in Seq(Nat)
        /\ k \in Nat /\ k < Len(a) /\ Begins(Written(c), a, k) /\ t0 \in Nat
    BY <1>1, <1>2, <1>3, <1>4, <1>8
  <2> QED
    BY <2>1, CommandRead, SMTT(30)
<1> QED
  BY <1>2, <1>6, <1>8, <1>9, <1>10 DEF c

\* Each command takes at least two bytes, so that the loop has rounds enough.
LEMMA LaidOut ==
    ASSUME NEW source, NEW n, NEW script, NEW p, NEW g, NEW t, NEW limit, NEW a,
           Laid(source, n, script, p, g, t, limit, a)
    PROVE  \A m \in 0..n : m <= p[m]
<1> DEFINE P == {m \in 0..n : m <= p[m]}
<1>1. n \in Nat /\ p \in [0..n -> Nat]
  BY DEF Laid
<1>2. \A i \in 1..n : p[i] = p[i - 1] + Len(Written(script[i])) /\ Len(Written(script[i])) \in Nat \ {0, 1}
  <2>1. \A i \in 1..n : p[i] = p[i - 1] + Len(Written(script[i])) /\ script[i] \in Cmds
    BY DEF Laid
  <2>2. source \in Seq(Nat)
    BY DEF Laid
  <2> QED
    BY <2>1, <2>2, CommandSequences
<1>3. 0 \in P
  BY <1>1
<1>4. ASSUME NEW m \in 0..(n - 1), m \in P PROVE m + 1 \in P
  <2> DEFINE w == Len(Written(script[m + 1]))
  <2>1. m + 1 \in 1..n /\ (m + 1) - 1 = m /\ m \in 0..n
    BY <1>1
  <2>2. p[m + 1] = p[(m + 1) - 1] + w /\ w \in Nat \ {0, 1}
    BY <1>2, <2>1
  <2> HIDE DEF w
  <2>3. p[m] \in Nat /\ m <= p[m]
    BY <1>1, <1>4, <2>1
  <2>4. p[m + 1] = p[m] + w
    BY <2>1, <2>2
  <2>5. m + 1 <= p[m + 1]
    BY <2>2, <2>3, <2>4
  <2> QED
    BY <2>1, <2>5
<1>5. \A m \in 0..n : m \in P
  <2> HIDE DEF P
  <2> QED
    BY <1>1, <1>3, <1>4, UpTo
<1> QED
  BY <1>5

\* Where the loop is after m commands that are all in the buffer and fit: it has their
\* output.
LEMMA LoopReads ==
    ASSUME NEW source, NEW n, NEW script, NEW p, NEW g, NEW t, NEW limit, NEW a,
           Laid(source, n, script, p, g, t, limit, a)
    PROVE  \A m \in 0..n : p[m] <= Len(a) /\ (\A i \in 1..m : Fits(source, script[i]))
                             => After(source, limit, a, p[0])[m] = Running(g[m], p[m] + 1, t[m])
<1> DEFINE R == After(source, limit, a, p[0])
<1> DEFINE P == {m \in 0..n : p[m] <= Len(a) /\ (\A i \in 1..m : Fits(source, script[i]))
                                => R[m] = Running(g[m], p[m] + 1, t[m])}
<1>1. n \in Nat /\ p \in [0..n -> Nat] /\ Len(a) \in Nat /\ source \in Seq(Nat) /\ g[0] = <<>> /\ t[0] = 0
      /\ \A i \in 1..n : p[i] = p[i - 1] + Len(Written(script[i])) /\ script[i] \in Cmds
  <2>1. n \in Nat /\ p \in [0..n -> Nat] /\ a \in Seq(Nat) /\ source \in Seq(Nat) /\ g[0] = <<>> /\ t[0] = 0
    BY DEF Laid
  <2>2. \A i \in 1..n : p[i] = p[i - 1] + Len(Written(script[i])) /\ script[i] \in Cmds
    BY DEF Laid
  <2>3. Len(a) \in Nat
    BY <2>1
  <2> QED
    BY <2>1, <2>2, <2>3, Zenon
<1>2. \A m \in 0..n : m <= p[m]
  BY LaidOut
<1>3. 0 \in P
  <2>1. R[0] = Running(<<>>, p[0] + 1, 0)
    <3>1. Len(a) \in Nat
      BY <1>1
    <3> DEFINE h == p[0]
    <3> HIDE DEF h
    <3>2. After(source, limit, a, h)[0] = Running(<<>>, h + 1, 0)
      BY <3>1, AfterStart
    <3> QED
      BY <3>2 DEF h
  <2> HIDE DEF R
  <2> QED
    BY <1>1, <2>1
<1>4. ASSUME NEW m \in 0..(n - 1), m \in P PROVE m + 1 \in P
  <2>1. m + 1 \in 1..n /\ (m + 1) - 1 = m /\ m + 1 \in 0..n /\ m \in 0..n
    BY <1>1
  <2>2. p[m] < p[m + 1] /\ p[m] \in Nat /\ p[m + 1] \in Nat
    <3> DEFINE w == Len(Written(script[m + 1]))
    <3>1. p[m + 1] = p[(m + 1) - 1] + w /\ w \in Nat \ {0, 1}
      BY <1>1, <2>1, CommandSequences
    <3> HIDE DEF w
    <3>2. p[m] \in Nat /\ p[m + 1] = p[m] + w
      BY <1>1, <2>1, <3>1
    <3> QED
      BY <3>1, <3>2
  <2>3. ASSUME p[m + 1] <= Len(a), \A i \in 1..(m + 1) : Fits(source, script[i])
        PROVE  R[m + 1] = Running(g[m + 1], p[m + 1] + 1, t[m + 1])
    <3>1. p[m] < Len(a) /\ p[m] <= Len(a)
      BY <1>1, <2>2, <2>3
    <3>2. \A i \in 1..m : Fits(source, script[i])
      BY <1>1, <2>1, <2>3
    <3>3. R[m] = Running(g[m], p[m] + 1, t[m])
      <4> HIDE DEF R
      <4> QED
        BY <1>4, <3>1, <3>2
    <3>4. Fits(source, script[m + 1])
      BY <2>1, <2>3
    <3> DEFINE i == m + 1
    <3>5. i \in 1..n /\ i - 1 = m /\ p[i - 1] < Len(a) /\ i - 1 <= p[i - 1]
          /\ R[i - 1] = Running(g[i - 1], p[i - 1] + 1, t[i - 1]) /\ p[i] <= Len(a) /\ Fits(source, script[i])
      <4> HIDE DEF R
      <4> QED
        BY <1>2, <2>1, <2>3, <3>1, <3>3, <3>4
    <3> HIDE DEF i, R
    <3>6. R = After(source, limit, a, p[0])
      BY DEF R
    <3>7. R[i] = Running(g[i], p[i] + 1, t[i])
      BY <3>5, <3>6, CommandRound
    <3> QED
      BY <3>7 DEF i
  <2> HIDE DEF R
  <2> QED
    BY <2>1, <2>3
<1>5. \A m \in 0..n : m \in P
  <2> HIDE DEF P
  <2> QED
    BY <1>1, <1>3, <1>4, UpTo
<1> QED
  BY <1>5

\* If a command does not fit, or is not all there, the delta is not taken.
LEMMA LoopFails ==
    ASSUME NEW source, NEW n, NEW script, NEW p, NEW g, NEW t, NEW limit, NEW a,
           Laid(source, n, script, p, g, t, limit, a),
           \E i \in 1..n : ~Fits(source, script[i]) \/ ~(p[i] <= Len(a))
    PROVE  After(source, limit, a, p[0])[Len(a)].st # "done"
<1> DEFINE R == After(source, limit, a, p[0])
<1> DEFINE B == {i \in 1..n : ~Fits(source, script[i]) \/ ~(p[i] <= Len(a))}
<1>1. n \in Nat /\ p \in [0..n -> Nat] /\ Len(a) \in Nat /\ p[0] <= Len(a)
  <2>1. n \in Nat /\ p \in [0..n -> Nat] /\ a \in Seq(Nat) /\ p[0] <= Len(a)
    BY DEF Laid
  <2> QED
    BY <2>1
<1>2. PICK i \in B : \A j \in B : i <= j
  <2>1. B \subseteq Nat /\ B # {}
    <3>1. \A i \in 1..n : i \in Nat
      BY <1>1
    <3> QED
      BY <3>1
  <2> HIDE DEF B
  <2> QED
    BY <2>1, Least
<1> DEFINE m == i - 1
<1>3. i \in 1..n /\ m \in 0..n /\ (m = 0 \/ m \in 1..n)
  BY <1>1
<1>4. ASSUME NEW j \in 1..m PROVE Fits(source, script[j]) /\ p[j] <= Len(a)
  <2>1. j \in 1..n /\ ~(i <= j)
    BY <1>1, <1>3
  <2>2. j \notin B
    <3> HIDE DEF B
    <3> QED
      BY <1>2, <2>1
  <2> QED
    BY <2>1, <2>2
<1>5. ~Fits(source, script[i]) \/ ~(p[i] <= Len(a))
  OBVIOUS
<1> HIDE DEF B, R
<1>6. p[m] <= Len(a)
  <2>1. m = 0 \/ m \in 1..m
    BY <1>3
  <2> QED
    BY <1>1, <1>4, <2>1
<1>7. R[m] = Running(g[m], p[m] + 1, t[m]) /\ m <= p[m] /\ p[m] \in Nat
  BY <1>1, <1>3, <1>4, <1>6, LoopReads, LaidOut DEF R
<1>8. \A h \in 0..Len(a) : ~(R[h].st = "run" /\ R[h].pos <= Len(a)) => R[Len(a)] = R[h]
  <2> TAKE h \in 0..Len(a)
  <2> HAVE ~(R[h].st = "run" /\ R[h].pos <= Len(a))
  <2> DEFINE q == p[0]
  <2>1. ~(After(source, limit, a, q)[h].st = "run" /\ After(source, limit, a, q)[h].pos <= Len(a))
    BY DEF R
  <2> HIDE DEF q
  <2>2. After(source, limit, a, q)[Len(a)] = After(source, limit, a, q)[h]
    BY <1>1, <2>1, AfterStays
  <2> QED
    BY <2>2 DEF R, q
<1>9. CASE p[m] = Len(a)
  <2>1. Running(g[m], p[m] + 1, t[m]).st = "run" /\ Running(g[m], p[m] + 1, t[m]).pos = p[m] + 1
    BY DEF Running
  <2>2. m \in 0..Len(a) /\ ~(p[m] + 1 <= Len(a))
    BY <1>1, <1>3, <1>7, <1>9
  <2>3. R[m].st = "run" /\ ~(R[m].pos <= Len(a))
    BY <1>7, <2>1, <2>2
  <2> QED
    BY <1>8, <2>2, <2>3 DEF R
<1>10. CASE p[m] # Len(a)
  <2>1. p[m] < Len(a)
    BY <1>1, <1>6, <1>7, <1>10
  <2>2. R = After(source, limit, a, p[0])
    BY DEF R
  <2>3. p[i - 1] < Len(a) /\ i - 1 <= p[i - 1] /\ R[i - 1] = Running(g[i - 1], p[i - 1] + 1, t[i - 1])
    BY <1>7, <2>1
  <2>4. i \in 1..Len(a) /\ R[i].st = "failed"
    BY <1>3, <1>5, <2>2, <2>3, CommandRound
  <2>5. i \in 0..Len(a)
    BY <1>1, <2>4
  <2> QED
    BY <1>8, <2>4, <2>5 DEF R
<1> QED
  BY <1>9, <1>10

\* Behind the first k of the buffer the trailer for what was put out begins; all of it is
\* in the buffer; the loop has taken it or not.
Trailed(out, a, k) ==
    /\ Checksum(out) \in Nat /\ Checksum(out) < Word /\ k <= Len(a)
    /\ Begins(Digits(Checksum(out), Radix) \o <<Semicolon>>, a, k)
TrailerIn(out, a, k) == k + Len(Digits(Checksum(out), Radix)) < Len(a)
Ended(d, out, taken) == (taken => d.st = "done" /\ d.out = out) /\ (~taken => d.st # "done")

\* After the commands, the trailer: if it is all there and has the checksum the loop is done,
\* otherwise it is not.
LEMMA LoopEnds ==
    ASSUME NEW source, NEW n, NEW script, NEW p, NEW g, NEW t, NEW limit, NEW a,
           Laid(source, n, script, p, g, t, limit, a), \A i \in 1..n : Fits(source, script[i]),
           t[n] = limit, Trailed(g[n], a, p[n])
    PROVE  Ended(After(source, limit, a, p[0])[Len(a)], g[n], TrailerIn(g[n], a, p[n]))
<1> DEFINE sum == Checksum(g[n])
<1> DEFINE k == p[n]
<1> DEFINE h == p[0]
<1> DEFINE out == g[n]
<1> DEFINE l == Len(Digits(sum, Radix))
<1> DEFINE R == After(source, limit, a, h)
<1>1. n \in Nat /\ k \in Nat /\ Len(a) \in Nat /\ n <= k /\ k <= Len(a) /\ n \in 0..n
  <2>1. n \in Nat /\ p \in [0..n -> Nat] /\ a \in Seq(Nat)
    BY DEF Laid
  <2>2. n \in 0..n
    BY <2>1
  <2>3. n <= p[n]
    BY <2>2, LaidOut
  <2>4. p[n] \in Nat /\ Len(a) \in Nat /\ p[n] <= Len(a)
    BY <2>1, <2>2 DEF Trailed
  <2> QED
    BY <2>1, <2>2, <2>3, <2>4
<1>2. R[n] = Running(out, k + 1, limit)
  <2>1. p[n] <= Len(a) /\ n \in 0..n
    BY <1>1
  <2> QED
    BY <2>1, LoopReads
<1>8. Trailed(out, a, k)
  OBVIOUS
<1>3. Running(out, k + 1, limit).st = "run" /\ Running(out, k + 1, limit).pos = k + 1
      /\ [Running(out, k + 1, limit) EXCEPT !.st = "done"].st = "done"
      /\ [Running(out, k + 1, limit) EXCEPT !.st = "done"].out = out
  BY DEF Running
<1>4. /\ sum \in Nat /\ sum < Word /\ sum = Checksum(out)
      /\ Begins(Digits(sum, Radix) \o <<Semicolon>>, a, k) /\ l \in Nat \ {0}
  BY <1>8, DigitsType DEF Trailed
<1> HIDE DEF k, h, out, sum
<1>5. ASSUME NEW m \in 0..Len(a), ~(R[m].st = "run" /\ R[m].pos <= Len(a)) PROVE R[Len(a)] = R[m]
  BY <1>1, <1>5, AfterStays
<1> HIDE DEF l
<1>6. CASE k = Len(a)
  <2>1. n \in 0..Len(a) /\ ~(k + 1 <= Len(a)) /\ ~(k + l < Len(a))
    BY <1>1, <1>4, <1>6
  <2>2. R[n].st = "run" /\ ~(R[n].pos <= Len(a))
    BY <1>2, <1>3, <2>1
  <2>3. R[Len(a)] = R[n]
    BY <1>5, <2>1, <2>2
  <2>4. ~(k + l < Len(a)) /\ R[Len(a)].st # "done"
    BY <2>1, <2>2, <2>3
  <2> QED
    BY <2>4 DEF k, h, out, l, sum, Ended, TrailerIn
<1>7. CASE k # Len(a)
  <2> DEFINE m == n + 1
  <2>1. k < Len(a) /\ m \in 1..Len(a) /\ m \in 0..Len(a) /\ m - 1 = n /\ k + 1 <= Len(a)
    BY <1>1, <1>7
  <2> HIDE DEF m
  <2>2. R[m] = Round(source, a, limit, Running(out, k + 1, limit))
    <3> DEFINE pos == k + 1
    <3>1. After(source, limit, a, h)[m - 1] = Running(out, pos, limit) /\ pos <= Len(a)
      BY <1>2, <2>1
    <3>3. Len(a) \in Nat /\ m \in 1..Len(a)
      BY <1>1, <2>1
    <3> HIDE DEF pos, R
    <3>2. After(source, limit, a, h)[m] = Round(source, a, limit, Running(out, pos, limit))
      BY <3>1, <3>3, AfterRound
    <3> QED
      BY <3>2 DEF pos, R
  <2>3. /\ k + l < Len(a) => Round(source, a, limit, Running(out, k + 1, limit)) = [Running(out, k + 1, limit) EXCEPT !.st = "done"]
        /\ ~(k + l < Len(a)) => Round(source, a, limit, Running(out, k + 1, limit)).st = "failed"
    BY <1>1, <1>4, <2>1, TrailerRead DEF l
  <2>4. /\ k + l < Len(a) => R[m].st = "done" /\ R[m].out = out
        /\ ~(k + l < Len(a)) => R[m].st = "failed"
    BY <1>3, <2>2, <2>3
  <2>5. R[m].st # "run"
    BY <2>4
  <2>6. R[Len(a)] = R[m]
    BY <1>5, <2>1, <2>5
  <2>7. /\ k + l < Len(a) => R[Len(a)].st = "done" /\ R[Len(a)].out = out
        /\ ~(k + l < Len(a)) => R[Len(a)].st # "done"
    BY <2>4, <2>6
  <2> QED
    BY <2>7 DEF k, h, out, l, sum, Ended, TrailerIn
<1> QED
  BY <1>6, <1>7

\* The header: the size of the target, and the loop that begins behind it.
LEMMA HeaderRead ==
    ASSUME NEW source, NEW z \in Nat, z < Word, NEW a \in Seq(Nat), NEW h, h = Len(Digits(z, Radix)) + 1,
           Begins(Digits(z, Radix) \o <<NewLine>>, a, 0)
    PROVE  /\ h <= Len(a) => ApplyDelta(source, a)
                               = IF After(source, z, a, h)[Len(a)].st = "done" THEN After(source, z, a, h)[Len(a)].out ELSE Failure
           /\ ~(h <= Len(a)) => ApplyDelta(source, a) = Failure
<1> DEFINE s == Digits(z, Radix)
<1> DEFINE l == Len(s)
<1>1. s \in Seq(Nat) /\ l \in Nat \ {0} /\ <<NewLine>> \in Seq(Nat) /\ NewLine \in Nat /\ ~IsDigit(NewLine)
      /\ Len(a) \in Nat /\ h = l + 1
  BY DigitsType, Radices
<1>2. Begins(s, a, 0) /\ Begins(<<NewLine>>, a, 0 + l)
  <2>1. Begins(s \o <<NewLine>>, a, 0) /\ 0 \in Nat
    OBVIOUS
  <2> HIDE DEF s
  <2> QED
    BY <1>1, <2>1, BeginsWithin
<1>3. CASE Len(a) = 0
  <2>1. a = <<>>
    BY <1>3
  <2>2. ApplyDelta(source, a) = Failure
    BY <2>1 DEF ApplyDelta
  <2>3. ~(h <= Len(a))
    <3> HIDE DEF l
    <3> QED
      BY <1>1, <1>3
  <2> QED
    BY <2>2, <2>3
<1>4. CASE Len(a) # 0
  <2>1. 0 < Len(a) /\ a # <<>>
    BY <1>1, <1>4
  <2>2. /\ 0 + l < Len(a) => GetInt(a, 0 + 1) = [v |-> z, pos |-> 0 + l + 1] /\ a[0 + l + 1] = NewLine
        /\ ~(0 + l < Len(a)) => IsDigit(a[GetInt(a, 0 + 1).pos])
    BY <1>1, <1>2, <2>1, NumberAndEnd
  <2> HIDE DEF l, s
  <2>3. /\ h <= Len(a) => GetInt(a, 1) = [v |-> z, pos |-> h] /\ a[h] = NewLine
        /\ ~(h <= Len(a)) => a[GetInt(a, 1).pos] # NewLine
    <3>1. 0 + l + 1 = h /\ (0 + l < Len(a) <=> h <= Len(a)) /\ 0 + 1 = 1
      BY <1>1
    <3> QED
      BY <1>1, <2>2, <3>1
  <2>4. ASSUME ~(h <= Len(a)) PROVE ApplyDelta(source, a) = Failure
    BY <2>1, <2>3, <2>4 DEF ApplyDelta
  <2>5. ASSUME h <= Len(a)
        PROVE  ApplyDelta(source, a)
                 = IF After(source, z, a, h)[Len(a)].st = "done" THEN After(source, z, a, h)[Len(a)].out ELSE Failure
    <3> DEFINE g == GetInt(a, 1)
    <3>1. g.v = z /\ g.pos = h /\ ~(a[g.pos] # NewLine)
      BY <2>3, <2>5
    <3> HIDE DEF g
    <3> DEFINE r == Rounds(source, a, g.v, [st |-> "run", out |-> <<>>, pos |-> g.pos + 1, total |-> 0])[Len(a)]
    <3>2. r = After(source, z, a, h)[Len(a)]
      BY <3>1 DEF After, Running
    <3>3. ApplyDelta(source, a) = IF r.st = "done" THEN r.out ELSE Failure
      BY <2>1, <3>1 DEF ApplyDelta, g
    <3> HIDE DEF r
    <3> QED
      BY <3>2, <3>3
  <2> QED
    BY <2>4, <2>5
<1> QED
  BY <1>3, <1>4

LEMMA SumsBelow ==
    ASSUME NEW s \in Seq(Nat)
    PROVE  \A i \in 0..Len(s) : Sums(s)[i] <= Sums(s)[Len(s)]
<1> DEFINE n == Len(s)
<1> DEFINE R == Sums(s)
<1>1. n \in Nat /\ R \in [0..n -> Nat] /\ \A i \in 1..n : R[i] = R[i - 1] + s[i] /\ s[i] \in Nat
  BY SumsRec
<1> HIDE DEF n, R
<1> DEFINE P == {d \in 0..n : R[n - d] <= R[n]}
<1>2. 0 \in P
  BY <1>1
<1>3. ASSUME NEW d \in 0..(n - 1), d \in P PROVE d + 1 \in P
  <2> DEFINE i == n - d
  <2>1. i \in 1..n /\ i - 1 = n - (d + 1) /\ d + 1 \in 0..n /\ i \in 0..n /\ i - 1 \in 0..n /\ n \in 0..n
    BY <1>1
  <2>2. R[i] <= R[n]
    BY <1>3
  <2> HIDE DEF i
  <2>3. R[i] = R[i - 1] + s[i] /\ s[i] \in Nat /\ R[i - 1] \in Nat /\ R[n] \in Nat
    BY <1>1, <2>1
  <2>4. R[i - 1] <= R[n]
    BY <2>2, <2>3
  <2> QED
    BY <2>1, <2>4
<1>4. \A d \in 0..n : d \in P
  <2> HIDE DEF P
  <2> QED
    BY <1>1, <1>2, <1>3, UpTo
<1>5. ASSUME NEW i \in 0..n PROVE R[i] <= R[n]
  <2>1. n - i \in 0..n /\ n - (n - i) = i
    BY <1>1
  <2>2. n - i \in P
    <3> HIDE DEF P
    <3> QED
      BY <1>4, <2>1
  <2> QED
    BY <2>1, <2>2
<1> QED
  BY <1>5 DEF n, R

LEMMA Regrouped ==
    ASSUME NEW x \in Seq(Nat), NEW y \in Seq(Nat), NEW z \in Seq(Nat)
    PROVE  (x \o y) \o z = x \o (y \o z)
  BY ConcatAssociative, SMTT(60)

\* What reads a buffer that begins with a delta, or with the beginning of one: the target if
\* all of the delta is there and every command fits, Failure otherwise.
LEMMA Applied ==
    ASSUME NEW source \in Seq(Nat), NEW script \in Seq(Cmds), Size(script) < Word, NEW a \in Seq(Nat),
           Begins(Encoded(source, script), a, 0)
    PROVE  /\ Encoded(source, script) \in Seq(Nat)
           /\ (\A i \in 1..Len(script) : Fits(source, script[i])) /\ Len(Encoded(source, script)) <= Len(a)
                => ApplyDelta(source, a) = Target(source, script)
           /\ ~((\A i \in 1..Len(script) : Fits(source, script[i])) /\ Len(Encoded(source, script)) <= Len(a))
                => ApplyDelta(source, a) = Failure
<1> DEFINE n == Len(script)
<1> DEFINE wr == [i \in 1..n |-> Written(script[i])]
<1> DEFINE me == [i \in 1..n |-> Meant(source, script[i])]
<1> DEFINE cnts == [i \in 1..n |-> script[i].cnt]
<1>1. n \in Nat /\ script \in [1..n -> Cmds] /\ Len(a) \in Nat /\ Len(source) \in Nat
  OBVIOUS
<1>2. \A i \in 1..n : /\ Written(script[i]) \in Seq(Nat) /\ Len(Written(script[i])) \in Nat
                      /\ Meant(source, script[i]) \in Seq(Nat) /\ script[i].cnt \in Nat
  <2> TAKE i \in 1..n
  <2>1. script[i] \in Cmds
    BY <1>1
  <2> QED
    BY <1>1, <2>1, CommandSequences, CommandTypes
<1>3. wr \in Seq(Seq(Nat)) /\ Len(wr) = n /\ \A i \in 1..n : wr[i] = Written(script[i])
  <2>1. wr \in [1..n -> Seq(Nat)] /\ \A i \in 1..n : wr[i] = Written(script[i])
    BY <1>2
  <2> DEFINE T == Seq(Nat)
  <2>2. n \in Nat /\ wr \in [1..n -> T]
    BY <1>1, <2>1
  <2> HIDE DEF T, wr, n
  <2>3. wr \in Seq(T) /\ Len(wr) = n
    BY <2>2
  <2> QED
    BY <2>1, <2>3 DEF T
<1>4. me \in Seq(Seq(Nat)) /\ Len(me) = n /\ \A i \in 1..n : me[i] = Meant(source, script[i])
  <2>1. me \in [1..n -> Seq(Nat)] /\ \A i \in 1..n : me[i] = Meant(source, script[i])
    BY <1>2
  <2> DEFINE T == Seq(Nat)
  <2>2. n \in Nat /\ me \in [1..n -> T]
    BY <1>1, <2>1
  <2> HIDE DEF T, me, n
  <2>3. me \in Seq(T) /\ Len(me) = n
    BY <2>2
  <2> QED
    BY <2>1, <2>3 DEF T
<1>5. cnts \in Seq(Nat) /\ Len(cnts) = n /\ \A i \in 1..n : cnts[i] = script[i].cnt
  <2>1. cnts \in [1..n -> Nat] /\ n \in Nat /\ \A i \in 1..n : cnts[i] = script[i].cnt
    BY <1>1, <1>2
  <2> HIDE DEF cnts, n
  <2>2. cnts \in Seq(Nat) /\ Len(cnts) = n
    BY <2>1
  <2> QED
    BY <2>1, <2>2
<1>6. Target(source, script) = FlattenSeq(me) /\ Size(script) = Sums(cnts)[Len(cnts)]
  BY DEF Target, Size, Total
<1> DEFINE H == Digits(Size(script), Radix) \o <<NewLine>>
<1> DEFINE sum == ReferenceChecksum(Target(source, script))
<1> DEFINE S == Digits(sum, Radix)
<1>7. Encoded(source, script) = ((H \o FlattenSeq(wr)) \o S) \o <<Semicolon>>
  BY DEF Encoded
<1> HIDE DEF wr, me, cnts, n
<1>8. PICK f \in Joins(wr, Nat) : FlattenSeq(wr) = f[n]
  BY <1>3, FlattenRec
<1>9. PICK g \in Joins(me, Nat) : FlattenSeq(me) = g[n]
  BY <1>4, FlattenRec
<1> DEFINE t == Sums(cnts)
<1>10. /\ f[0] = <<>> /\ Len(f[0]) = 0
       /\ \A i \in 0..n : f[i] \in Seq(Nat) /\ Len(f[i]) \in Nat
       /\ \A i \in 1..n : Len(f[i]) = Len(f[i - 1]) + Len(wr[i])
  BY <1>3, JoinsTypes
<1>11. /\ g[0] = <<>> /\ g \in [0..n -> Seq(Nat)]
       /\ \A i \in 1..n : g[i] = g[i - 1] \o me[i]
  BY <1>4 DEF Joins
<1>12. /\ t \in [0..n -> Nat] /\ t[0] = 0 /\ (\A i \in 1..n : t[i] = t[i - 1] + cnts[i] /\ t[i] <= t[n]) /\ t[n] = Size(script)
  <2>1. /\ t \in [0..n -> Nat] /\ t[0] = 0 /\ \A i \in 1..n : t[i] = t[i - 1] + cnts[i]
    BY <1>5, SumsRec
  <2>2. \A i \in 0..n : t[i] <= t[n]
    BY <1>5, SumsBelow
  <2>3. \A i \in 1..n : t[i] <= t[n]
    BY <1>1, <2>2 DEF n
  <2> QED
    BY <1>5, <1>6, <2>1, <2>3
<1> HIDE DEF t
<1>13. Size(script) \in Nat /\ n \in 0..n
  BY <1>1, <1>12
<1>14. Target(source, script) = g[n] /\ g[n] \in Seq(Nat)
  BY <1>6, <1>9, <1>11, <1>13
<1>15. sum \in Nat /\ sum < Word /\ sum = Checksum(g[n])
  <2>1. Checksum(g[n]) = ReferenceChecksum(g[n]) /\ Checksum(g[n]) \in 0..(Word - 1)
    BY <1>14, ChecksumAgrees
  <2>2. sum = Checksum(g[n])
    BY <1>14, <2>1
  <2> HIDE DEF sum
  <2> QED
    BY <2>1, <2>2, WordPositive
<1> HIDE DEF sum
<1>16. S \in Seq(Nat) /\ Len(S) \in Nat /\ <<Semicolon>> \in Seq(Nat) /\ Len(<<Semicolon>>) = 1
  BY <1>15, DigitsType, Radices
<1> DEFINE T == S \o <<Semicolon>>
<1>17. T \in Seq(Nat) /\ Len(T) = Len(S) + 1
  BY <1>16, Joined
<1> HIDE DEF S
<1> DEFINE h == Len(Digits(Size(script), Radix)) + 1
<1>18. H \in Seq(Nat) /\ h \in Nat /\ Len(H) = h
  <2> DEFINE D == Digits(Size(script), Radix)
  <2>1. D \in Seq(Nat) /\ Len(D) \in Nat
    BY <1>13, DigitsType
  <2> HIDE DEF D
  <2>2. <<NewLine>> \in Seq(Nat) /\ Len(<<NewLine>>) = 1
    BY Radices
  <2>3. D \o <<NewLine>> \in Seq(Nat) /\ Len(D \o <<NewLine>>) = Len(D) + 1
    BY <2>1, <2>2, Joined
  <2> QED
    BY <2>1, <2>3 DEF D
<1> HIDE DEF h
<1>19. Begins(Digits(Size(script), Radix) \o <<NewLine>>, a, 0) <=> Begins(H, a, 0)
  OBVIOUS
<1> HIDE DEF H
<1> DEFINE F == f[n]
<1> DEFINE X == H \o F
<1>20. F \in Seq(Nat) /\ Len(F) \in Nat
  BY <1>10, <1>13
<1> HIDE DEF F
<1>21. X \in Seq(Nat) /\ Len(X) = h + Len(F)
  BY <1>18, <1>20, Joined
<1>22. Encoded(source, script) = X \o T
  <2>1. Encoded(source, script) = (X \o S) \o <<Semicolon>>
    BY <1>7, <1>8 DEF F
  <2> HIDE DEF X
  <2> DEFINE E == <<Semicolon>>
  <2>3. X \in Seq(Nat) /\ S \in Seq(Nat) /\ E \in Seq(Nat)
    BY <1>16, <1>21
  <2> HIDE DEF E
  <2>4. (X \o S) \o E = X \o (S \o E)
    BY <2>3, Regrouped, SMTT(60)
  <2>2. (X \o S) \o <<Semicolon>> = X \o (S \o <<Semicolon>>)
    BY <2>4 DEF E
  <2> QED
    BY <2>1, <2>2
<1> HIDE DEF T
<1>23. Encoded(source, script) \in Seq(Nat) /\ Len(Encoded(source, script)) = h + Len(F) + Len(T)
  <2> HIDE DEF X
  <2>1. X \o T \in Seq(Nat) /\ Len(X \o T) = Len(X) + Len(T)
    BY <1>17, <1>21, Joined
  <2> QED
    BY <1>18, <1>20, <1>21, <1>22, <2>1
<1>24. Begins(H, a, 0) /\ Begins(F, a, h) /\ Begins(T, a, h + Len(F))
  <2>1. Begins(X, a, 0) /\ Begins(T, a, 0 + Len(X))
    <3>1. Begins(X \o T, a, 0) /\ 0 \in Nat
      BY <1>22
    <3> HIDE DEF X
    <3> QED
      BY <1>17, <1>21, <3>1, BeginsWithin
  <2>2. Begins(H, a, 0) /\ Begins(F, a, 0 + h)
    BY <1>18, <1>20, <2>1, BeginsWithin
  <2>3. 0 + h = h /\ 0 + Len(X) = h + Len(F)
    <3> HIDE DEF X
    <3> QED
      BY <1>18, <1>20, <1>21
  <2> QED
    BY <2>1, <2>2, <2>3
<1> HIDE DEF X
<1> DEFINE p == [i \in 0..n |-> h + Len(f[i])]
<1>25. p \in [0..n -> Nat] /\ p[0] = h /\ p[n] = h + Len(F) /\ \A i \in 0..n : p[i] = h + Len(f[i])
  <2>1. \A i \in 0..n : h + Len(f[i]) \in Nat
    BY <1>10, <1>18
  <2>2. p \in [0..n -> Nat] /\ p[n] = h + Len(F)
    BY <1>13, <2>1 DEF F
  <2>3. 0 \in 0..n /\ h + Len(f[0]) = h
    BY <1>1, <1>10, <1>18 DEF n
  <2> QED
    BY <2>2, <2>3
<1> HIDE DEF p
<1>26. \A i \in 1..n : /\ p[i] = p[i - 1] + Len(Written(script[i]))
                       /\ Begins(Written(script[i]), a, p[i - 1])
  <2> TAKE i \in 1..n
  <2> DEFINE w == Written(script[i])
  <2> DEFINE k == Len(f[i - 1])
  <2>1. i \in 0..n /\ i - 1 \in 0..n
    BY <1>1 DEF n
  <2>2. wr[i] = w /\ Len(w) \in Nat /\ k \in Nat /\ Len(f[i]) = k + Len(w) /\ Len(f[i]) \in Nat
    <3>1. wr[i] = w /\ Len(w) \in Nat
      BY <1>2, <1>3
    <3> QED
      BY <1>10, <2>1, <3>1
  <2>3. p[i - 1] = h + k /\ p[i] = h + Len(f[i])
    BY <1>25, <2>1
  <2>4. Len(f[i]) <= Len(F)
    BY <1>3, <2>1, JoinsPrefix DEF F
  <2>5. \A j \in 1..Len(w) : F[k + j] = w[j]
    <3>1. \A j \in 1..Len(wr[i]) : f[Len(wr)][Len(f[i - 1]) + j] = wr[i][j]
      <4> DEFINE m == i
      <4>1. m \in 1..Len(wr)
        BY <1>3
      <4> HIDE DEF m
      <4>3. wr \in Seq(Seq(Nat)) /\ f \in Joins(wr, Nat)
        BY <1>3, <1>8
      <4>2. Stands(wr[m], f[Len(wr)], Len(f[m - 1]))
        BY <4>1, <4>3, JoinsPlace
      <4> QED
        BY <4>2 DEF m, Stands
    <3>2. Len(wr) = n
      BY <1>3
    <3> QED
      BY <2>2, <3>1, <3>2 DEF F
  <2> HIDE DEF w, k
  <2>6. Begins(w, a, h + k)
    <3> SUFFICES ASSUME NEW j \in 1..Len(w), (h + k) + j <= Len(a) PROVE a[(h + k) + j] = w[j]
      BY DEF Begins
    <3>1. k + j \in 1..Len(F) /\ h + (k + j) = (h + k) + j
      BY <1>18, <1>20, <2>2, <2>4
    <3>2. a[h + (k + j)] = F[k + j]
      BY <1>24, <3>1 DEF Begins
    <3> QED
      BY <2>5, <3>1, <3>2
  <2>7. p[i] = p[i - 1] + Len(w)
    BY <1>18, <2>2, <2>3
  <2> QED
    BY <2>3, <2>6, <2>7 DEF w
<1> DEFINE z == Size(script)
<1>27. ASSUME h <= Len(a) PROVE Laid(source, n, script, p, g, t, z, a)
  <2>1. \A i \in 1..n : g[i] = g[i - 1] \o Meant(source, script[i]) /\ t[i] = t[i - 1] + script[i].cnt /\ t[i] <= z
    BY <1>4, <1>5, <1>11, <1>12
  <2>2. p[0] <= Len(a)
    BY <1>25, <1>27
  <2> HIDE DEF z
  <2>3. z \in Nat /\ z < Word
    BY <1>13 DEF z
  <2> QED
    BY <1>1, <1>11, <1>12, <1>25, <1>26, <2>1, <2>2, <2>3 DEF Laid
<1> DEFINE R == After(source, z, a, h)[Len(a)]
<1>28. /\ h <= Len(a) => ApplyDelta(source, a) = IF R.st = "done" THEN R.out ELSE Failure
       /\ ~(h <= Len(a)) => ApplyDelta(source, a) = Failure
  <2>1. h = Len(Digits(z, Radix)) + 1
    BY DEF h
  <2>2. z \in Nat /\ z < Word /\ Begins(Digits(z, Radix) \o <<NewLine>>, a, 0)
    BY <1>13, <1>19, <1>24
  <2> HIDE DEF z
  <2> QED
    BY <2>1, <2>2, HeaderRead
<1> DEFINE Fit == \A i \in 1..n : Fits(source, script[i])
<1> DEFINE L == Len(Encoded(source, script))
<1>29. L = p[n] + Len(T) /\ L \in Nat /\ p[n] \in Nat /\ h <= p[n] /\ Len(T) = Len(S) + 1
  <2> DEFINE u == Len(F)
  <2> DEFINE v == Len(T)
  <2> DEFINE x == Len(S)
  <2>1. u \in Nat /\ h \in Nat /\ x \in Nat /\ v = x + 1 /\ L = h + u + v /\ p[n] = h + u
    BY <1>16, <1>17, <1>18, <1>20, <1>23, <1>25
  <2> HIDE DEF u, v, x, L
  <2>2. L = p[n] + v /\ L \in Nat /\ p[n] \in Nat /\ h <= p[n] /\ v = x + 1
    BY <2>1
  <2> QED
    BY <2>2 DEF v, x
<1> HIDE DEF L
<1>30. CASE ~(h <= Len(a))
  <2>1. ~(L <= Len(a))
    BY <1>1, <1>16, <1>18, <1>29, <1>30
  <2> QED
    BY <1>23, <1>28, <1>30, <2>1 DEF L
<1>31. CASE h <= Len(a) /\ (~Fit \/ ~(p[n] <= Len(a)))
  <2>1. \E i \in 1..n : ~Fits(source, script[i]) \/ ~(p[i] <= Len(a))
    <3>1. CASE ~Fit
      BY <3>1
    <3>2. CASE ~(p[n] <= Len(a))
      <4>1. n # 0
        BY <1>25, <1>31, <3>2
      <4>2. n \in 1..n
        BY <1>1, <4>1 DEF n
      <4> QED
        BY <3>2, <4>2
    <3> QED
      BY <1>31, <3>1, <3>2
  <2>2. R.st # "done"
    <3> HIDE DEF z
    <3>1. Laid(source, n, script, p, g, t, z, a)
      BY <1>27, <1>31
    <3>2. After(source, z, a, p[0])[Len(a)].st # "done"
      BY <2>1, <3>1, LoopFails
    <3> QED
      BY <1>25, <3>2
  <2>3. ApplyDelta(source, a) = Failure
    BY <1>28, <1>31, <2>2
  <2>4. ~(Fit /\ L <= Len(a))
    BY <1>1, <1>16, <1>29, <1>31
  <2> QED
    BY <1>23, <2>3, <2>4 DEF L, n
<1>32. CASE h <= Len(a) /\ Fit /\ p[n] <= Len(a)
  <2>1. /\ p[n] + Len(S) < Len(a) => R.st = "done" /\ R.out = g[n]
        /\ ~(p[n] + Len(S) < Len(a)) => R.st # "done"
    <3>1. Begins(Digits(sum, Radix) \o <<Semicolon>>, a, p[n])
      BY <1>24, <1>25 DEF T, S
    <3>2. t[n] = z
      BY <1>12
    <3> HIDE DEF z
    <3>3. Laid(source, n, script, p, g, t, z, a)
      BY <1>27, <1>32
    <3>4. \A i \in 1..n : Fits(source, script[i])
      BY <1>32
    <3> HIDE DEF Fit
    <3>5. Trailed(g[n], a, p[n])
      BY <1>15, <1>32, <3>1 DEF Trailed
    <3>6. Ended(After(source, z, a, p[0])[Len(a)], g[n], TrailerIn(g[n], a, p[n]))
      BY <3>2, <3>3, <3>4, <3>5, LoopEnds
    <3>7. TrailerIn(g[n], a, p[n]) <=> p[n] + Len(S) < Len(a)
      BY <1>15 DEF TrailerIn, S
    <3> QED
      BY <1>25, <3>6, <3>7 DEF Ended
  <2>2. p[n] + Len(S) < Len(a) <=> L <= Len(a)
    BY <1>1, <1>16, <1>29
  <2>3. L <= Len(a) => ApplyDelta(source, a) = Target(source, script)
    BY <1>14, <1>28, <1>32, <2>1, <2>2
  <2>4. ~(L <= Len(a)) => ApplyDelta(source, a) = Failure
    BY <1>28, <1>32, <2>1, <2>2
  <2> QED
    BY <1>23, <1>32, <2>3, <2>4 DEF L, n
<1> QED
  BY <1>30, <1>31, <1>32

\* A delta of any commands, for any source, does what its commands mean if they fit the
\* source, and is refused if one does not, or if its end is cut off at any place
\* (apply_delta(), Reader.get_int()); its size has to fit the 32 bits that get_int() keeps.
THEOREM DeltaRoundTrip ==
    ASSUME NEW source \in Seq(Nat), NEW script \in Seq(Cmds), Size(script) < Word
    PROVE  Agrees(source, script)
<1> DEFINE delta == Encoded(source, script)
<1> DEFINE fit == \A i \in 1..Len(script) : Fits(source, script[i])
<1>1. ASSUME NEW a \in Seq(Nat), Begins(delta, a, 0)
      PROVE  /\ delta \in Seq(Nat)
             /\ fit /\ Len(delta) <= Len(a) => ApplyDelta(source, a) = Target(source, script)
             /\ ~(fit /\ Len(delta) <= Len(a)) => ApplyDelta(source, a) = Failure
  BY <1>1, Applied
<1>2. delta \in Seq(Nat)
  <2>1. <<>> \in Seq(Nat) /\ Len(<<>>) = 0
    OBVIOUS
  <2>2. Begins(delta, <<>>, 0)
    <3> HIDE DEF delta
    <3> SUFFICES ASSUME NEW j \in 1..Len(delta), 0 + j <= Len(<<>>) PROVE FALSE
      BY DEF Begins
    <3> QED
      BY <2>1
  <2> QED
    BY <1>1, <2>1, <2>2
<1> HIDE DEF delta, fit
<1>3. Len(delta) \in Nat
  BY <1>2
<1>4. /\ fit => ApplyDelta(source, delta) = Target(source, script)
      /\ ~fit => ApplyDelta(source, delta) = Failure
  <2>1. Begins(delta, delta, 0)
    BY <1>3 DEF Begins
  <2> QED
    BY <1>1, <1>2, <1>3, <2>1
<1>5. ASSUME NEW n \in 0..(Len(delta) - 1) PROVE ApplyDelta(source, SubSeq(delta, 1, n)) = Failure
  <2> DEFINE a == SubSeq(delta, 1, n)
  <2>1. a \in Seq(Nat) /\ Len(a) = n /\ \A i \in 1..n : a[i] = delta[i]
    BY <1>2, <1>3
  <2> HIDE DEF a
  <2>2. Begins(delta, a, 0)
    <3> SUFFICES ASSUME NEW j \in 1..Len(delta), 0 + j <= Len(a) PROVE a[0 + j] = delta[j]
      BY DEF Begins
    <3>1. j \in 1..n /\ 0 + j = j
      BY <1>3, <2>1
    <3> QED
      BY <2>1, <3>1
  <2>3. ~(Len(delta) <= Len(a))
    BY <1>3, <2>1
  <2>4. ApplyDelta(source, a) = Failure
    BY <1>1, <2>1, <2>2, <2>3
  <2> QED
    BY <2>4 DEF a
<1> QED
  BY <1>4, <1>5 DEF Agrees, delta, fit

\* The commands that the run enumerates, and their size.
LEMMA SmallCommands ==
    ASSUME NEW c \in {Copy(o, n) : o, n \in 0..(MaxSource + 1)} \cup {Insert(s) : s \in Upto({0, Semicolon}, 2)},
           MaxSource + 2 <= Word
    PROVE  c \in Cmds /\ c.cnt \in 0..(MaxSource + 2)
<1>1. MaxSource \in Nat /\ Word \in Nat
  BY RadixAssumption, WordPositive
<1>2. CASE c \in {Copy(o, n) : o, n \in 0..(MaxSource + 1)}
  <2>1. PICK o \in 0..(MaxSource + 1), n \in 0..(MaxSource + 1) : c = Copy(o, n)
    BY <1>2
  <2>2. o \in 0..(Word - 1) /\ n \in Nat /\ n \in 0..(MaxSource + 2)
    BY <1>1
  <2>3. c.cnt = n
    BY <2>1 DEF Copy
  <2> QED
    BY <2>1, <2>2, <2>3 DEF Cmds
<1>3. CASE c \in {Insert(s) : s \in Upto({0, Semicolon}, 2)}
  <2> DEFINE D == {0, Semicolon}
  <2> DEFINE U == Upto(D, 2)
  <2>1. c \in {Insert(s) : s \in U}
    BY <1>3
  <2> HIDE DEF U
  <2>8. PICK s \in U : c = Insert(s)
    BY <2>1
  <2>2. \A x \in D : x \in Nat
    BY Radices
  <2> HIDE DEF D
  <2>3. PICK k \in 0..2 : s \in [1..k -> D]
    BY DEF U, Upto
  <2>4. s \in [1..k -> D] /\ k \in Nat
    BY <2>3
  <2>9. \A i \in 1..k : s[i] \in Nat
    <3> TAKE i \in 1..k
    <3>1. s[i] \in D
      BY <2>4
    <3> QED
      BY <2>2, <3>1
  <2>5. s \in Seq(Nat) /\ Len(s) = k
    <3>1. s \in [1..k -> Nat]
      BY <2>4, <2>9
    <3> QED
      BY <2>4, <3>1
  <2>6. c.cnt = Len(s)
    BY <2>8 DEF Insert
  <2>7. k \in 0..(MaxSource + 2)
    BY <1>1
  <2> QED
    BY <2>5, <2>6, <2>7, <2>8 DEF Cmds
<1> QED
  BY <1>2, <1>3

LEMMA SumsUpTo ==
    ASSUME NEW s \in Seq(Nat), NEW b \in Nat, \A i \in 1..Len(s) : s[i] <= b
    PROVE  Total(s) <= Len(s) * b
<1> DEFINE n == Len(s)
<1> DEFINE R == Sums(s)
<1>1. n \in Nat /\ R \in [0..n -> Nat] /\ R[0] = 0 /\ \A i \in 1..n : R[i] = R[i - 1] + s[i] /\ s[i] \in Nat /\ s[i] <= b
  BY SumsRec
<1>2. Total(s) = R[n]
  BY DEF Total
<1> HIDE DEF n, R
<1> DEFINE P == {i \in 0..n : R[i] <= i * b}
<1>3. 0 \in P
  BY <1>1
<1>4. ASSUME NEW i \in 0..(n - 1), i \in P PROVE i + 1 \in P
  <2>1. i + 1 \in 1..n /\ (i + 1) - 1 = i /\ i + 1 \in 0..n /\ i \in 0..n
    BY <1>1
  <2> DEFINE x == i * b
  <2> DEFINE y == (i + 1) * b
  <2>2. x \in Int /\ y = x + b
    <3>1. (i + 1) * b = i * b + 1 * b
      BY Distribute
    <3> QED
      BY <3>1, Distribute
  <2>3. R[i] <= x
    BY <1>4
  <2> HIDE DEF x, y
  <2>4. R[i + 1] = R[i] + s[i + 1] /\ s[i + 1] <= b /\ s[i + 1] \in Nat /\ R[i] \in Nat
    <3>1. R[i + 1] = R[(i + 1) - 1] + s[i + 1] /\ s[i + 1] <= b /\ s[i + 1] \in Nat
      BY <1>1, <2>1
    <3> QED
      BY <1>1, <2>1, <3>1
  <2>5. R[i + 1] <= y
    BY <2>2, <2>3, <2>4
  <2> QED
    BY <2>1, <2>5 DEF y
<1>5. \A i \in 0..n : i \in P
  <2> HIDE DEF P
  <2> QED
    BY <1>1, <1>3, <1>4, UpTo
<1>6. n \in P
  <2>1. n \in 0..n
    BY <1>1
  <2> HIDE DEF P
  <2> QED
    BY <1>5, <2>1
<1> QED
  BY <1>2, <1>6 DEF n

LEMMA Multiples ==
    ASSUME NEW k \in Nat, NEW m \in Nat, NEW b \in Nat, k <= m
    PROVE  k * b \in Nat /\ m * b \in Nat /\ k * b <= m * b
<1> DEFINE d == m - k
<1>1. d \in Nat /\ m = k + d
  OBVIOUS
<1> HIDE DEF d
<1>2. (k + d) * b = k * b + d * b
  BY <1>1, Distribute
<1>3. k * b \in Nat /\ d * b \in Nat /\ m * b \in Nat
  BY <1>1
<1>4. m * b = k * b + d * b
  BY <1>1, <1>2
<1> QED
  BY <1>3, <1>4

LEMMA DeltasHold == DeltasAgree
<1> DEFINE C == {Copy(o, n) : o, n \in 0..(MaxSource + 1)} \cup {Insert(s) : s \in Upto({0, Semicolon}, 2)}
<1> DEFINE b == MaxSource + 2
<1>1. MaxSource \in Nat /\ MaxScript \in Nat /\ b \in Nat /\ Word \in Nat \ {0} /\ ByteRadix \in Nat \ {0}
  BY RadixAssumption, WordPositive
<1>2. Sources \subseteq Seq(Nat)
  <2> SUFFICES ASSUME NEW n \in 0..MaxSource PROVE [i \in 1..n |-> (3 * i + 1) % ByteRadix] \in Seq(Nat)
    BY DEF Sources
  <2>1. n \in Nat
    BY <1>1
  <2>2. \A i \in 1..n : (3 * i + 1) % ByteRadix \in Nat
    BY <1>1, <2>1
  <2>3. [i \in 1..n |-> (3 * i + 1) % ByteRadix] \in [1..n -> Nat]
    BY <2>2
  <2> QED
    BY <2>1, <2>3
<1>3. ASSUME NEW script \in Scripts PROVE script \in Seq(Cmds) /\ Size(script) < Word
  <2>1. PICK k \in 0..MaxScript : script \in [1..k -> C]
    <3>1. script \in UNION {[1..j -> C] : j \in 0..MaxScript}
      BY DEF Scripts, Upto
    <3> HIDE DEF C
    <3> QED
      BY <3>1
  <2>2. k \in Nat /\ k <= MaxScript
    BY <1>1
  <2>3. k # 0 => b <= Word
    <3> HIDE DEF b
    <3>1. k # 0 => 1 * b <= MaxScript * b /\ MaxScript * b \in Nat /\ 1 * b = b
      <4>1. ASSUME k # 0 PROVE 1 <= MaxScript
        BY <1>1, <2>2, <4>1
      <4>2. 1 * b = b
        BY <1>1
      <4> QED
        BY <1>1, <4>1, <4>2, Multiples
    <3>2. MaxScript * b < Word
      BY SizeAssumption DEF b
    <3> DEFINE x == MaxScript * b
    <3>3. x < Word /\ (k # 0 => b <= x /\ x \in Nat)
      BY <3>1, <3>2
    <3> HIDE DEF x
    <3> QED
      BY <1>1, <3>3
  <2>4. \A i \in 1..k : script[i] \in Cmds /\ script[i].cnt \in 0..b
    <3> TAKE i \in 1..k
    <3>1. script[i] \in C /\ MaxSource + 2 <= Word
      <4>1. k # 0
        BY <2>2
      <4>2. script[i] \in C
        <5> HIDE DEF C
        <5> QED
          BY <2>1
      <4> QED
        BY <2>3, <4>1, <4>2
    <3> QED
      BY <3>1, SmallCommands
  <2> HIDE DEF C, b
  <2>5. script \in [1..k -> Cmds]
    BY <2>1, <2>4
  <2>6. script \in Seq(Cmds) /\ Len(script) = k
    BY <2>2, <2>5
  <2> DEFINE cnts == [i \in 1..Len(script) |-> script[i].cnt]
  <2>7. cnts \in Seq(Nat) /\ Len(cnts) = k /\ \A i \in 1..Len(cnts) : cnts[i] <= b
    <3>1. \A i \in 1..k : script[i].cnt \in Nat /\ script[i].cnt <= b
      BY <1>1, <2>4
    <3>2. cnts \in [1..k -> Nat] /\ \A i \in 1..k : cnts[i] <= b
      BY <2>6, <3>1
    <3> HIDE DEF cnts
    <3> QED
      BY <2>2, <3>2
  <2>8. Size(script) = Total(cnts)
    BY DEF Size
  <2> HIDE DEF cnts
  <2>9. Total(cnts) <= k * b
    BY <1>1, <2>7, SumsUpTo
  <2>10. Total(cnts) \in Nat
    <3>1. Sums(cnts) \in [0..Len(cnts) -> Nat]
      BY <2>7, SumsRec
    <3>2. Len(cnts) \in 0..Len(cnts)
      BY <2>2, <2>7
    <3> QED
      BY <3>1, <3>2 DEF Total
  <2>11. k * b <= MaxScript * b /\ k * b \in Nat /\ MaxScript * b \in Nat
    BY <1>1, <2>2, Multiples
  <2>12. MaxScript * b < Word
    BY SizeAssumption DEF b
  <2> DEFINE x == k * b
  <2> DEFINE y == MaxScript * b
  <2>13. x \in Nat /\ y \in Nat /\ x <= y /\ y < Word /\ Total(cnts) <= x
    BY <2>9, <2>11, <2>12
  <2> HIDE DEF x, y
  <2>14. Total(cnts) < Word
    BY <1>1, <2>10, <2>13
  <2> QED
    BY <2>6, <2>8, <2>14
<1>4. \A source \in Sources, script \in Scripts : Agrees(source, script)
  BY <1>2, <1>3, DeltaRoundTrip
<1> QED
  BY <1>4 DEF DeltasAgree

\* Every publication is given to the application with the payload the server meant: the
\* invariant of the run, for every radix and all lengths that fit (_process_publication(),
\* apply_delta()).
THEOREM DeltaMeetsReferenceAlways == Spec => []DeltaMeetsReference
<1>1. DeltaMeetsReference
  BY DeltasHold DEF DeltaMeetsReference
<1> QED
  BY <1>1, PTL
=============================================================================
