----------------------------- MODULE DataLemmas -----------------------------
(***************************************************************************)
(* Lemmas about the data of the models: the least number of a set, and     *)
(* functions that are defined by recursion over 0 .. n. The library states *)
(* induction with the property as an operator; here the property is the    *)
(* set of the numbers that have it, which needs no more than that < is     *)
(* well founded.                                                           *)
(***************************************************************************)
EXTENDS Integers, Sequences, SequencesExt, TLAPS, WellFoundedInduction

(* A set of naturals that is not empty has a least member.                 *)
LEMMA NatLeast ==
  ASSUME NEW T \in SUBSET Nat, T # {}
  PROVE  \E x \in T : \A y \in T : x <= y
<1> DEFINE R == OpToRel(<, Nat)
<1>1. \A x, y \in Nat : <<y, x>> \in R <=> y < x
  BY DEF OpToRel
<1>2. IsWellFoundedOn(R, Nat)
  BY NatLessThanWellFounded
<1> HIDE DEF R
<1>3. PICK x \in T : \A y \in T : ~ (<<y, x>> \in R)
  BY <1>2, WFMin
<1>4. \A y \in T : ~(y < x)
  BY <1>1, <1>3, Zenon
<1>5. ASSUME NEW y \in T
      PROVE  x <= y
  BY <1>4
<1> QED
  BY <1>5

(* Min and Max of the community modules, for naturals.                     *)
LEMMA MinOfNats ==
  ASSUME NEW T \in SUBSET Nat, T # {}
  PROVE  Min(T) \in T /\ \A y \in T : Min(T) <= y
BY NatLeast DEF Min

LEMMA MaxOfNats ==
  ASSUME NEW n \in Nat, NEW T \in SUBSET (0 .. n), T # {}
  PROVE  Max(T) \in T /\ \A y \in T : y <= Max(T)
<1> DEFINE U == {n - y : y \in T}
<1>1. U \in SUBSET Nat /\ U # {}
  <2>1. \A y \in T : n - y \in Nat
    OBVIOUS
  <2> QED
    BY <2>1
<1>2. PICK u \in U : \A v \in U : u <= v
  BY <1>1, NatLeast
<1>3. PICK x \in T : u = n - x
  BY <1>2
<1>4. ASSUME NEW y \in T
      PROVE  y <= x
  <2>1. n - x <= n - y
    BY <1>2, <1>3
  <2> QED
    BY <2>1
<1>5. \A y \in T : x >= y
  BY <1>4
<1> QED
  BY <1>3, <1>5 DEF Max

(* A set of naturals closed under successor holds all from 0.              *)
LEMMA SetInduction ==
  ASSUME NEW T, 0 \in T, \A k \in Nat : k \in T => k + 1 \in T
  PROVE  Nat \subseteq T
<1> SUFFICES ASSUME NEW m \in Nat, m \notin T
             PROVE  FALSE
  OBVIOUS
<1> DEFINE U == {k \in Nat : k \notin T}
<1>1. U \in SUBSET Nat /\ U # {}
  OBVIOUS
<1>2. PICK x \in U : \A y \in U : x <= y
  BY <1>1, NatLeast
<1>3. x # 0 /\ x - 1 \in Nat /\ x - 1 \notin U
  BY <1>2
<1> QED
  BY <1>3

(* A value a and a function g[k] for every step k have a table of their    *)
(* repeated application.                                                   *)
Table(f, m, a, g) == f[0] = a /\ \A k \in 1 .. m : f[k] = g[k][f[k - 1]]

LEMMA RecursionExists ==
  ASSUME NEW n \in Nat, NEW T, NEW a \in T, NEW g \in [1 .. n -> [T -> T]]
  PROVE  \E f \in [0 .. n -> T] : Table(f, n, a, g)
<1> DEFINE Has == {m \in Nat : m <= n => \E f \in [0 .. m -> T] : Table(f, m, a, g)}
<1>1. 0 \in Has
  <2> DEFINE f == [k \in 0 .. 0 |-> a]
  <2>1. f \in [0 .. 0 -> T] /\ Table(f, 0, a, g)
    BY DEF Table
  <2> QED
    BY <2>1
<1>2. ASSUME NEW m \in Nat, m \in Has
      PROVE  m + 1 \in Has
  <2> SUFFICES ASSUME m + 1 <= n
               PROVE  \E h \in [0 .. m + 1 -> T] : Table(h, m + 1, a, g)
    OBVIOUS
  <2>1. PICK f \in [0 .. m -> T] : Table(f, m, a, g)
    BY <1>2
  <2> DEFINE h == [k \in 0 .. m + 1 |-> IF k = m + 1 THEN g[k][f[m]] ELSE f[k]]
  <2>2. m + 1 \in 1 .. n /\ f[m] \in T
    OBVIOUS
  <2>3. h \in [0 .. m + 1 -> T]
    BY <2>2
  <2>4. \A k \in 1 .. m + 1 : h[k] = g[k][h[k - 1]]
    BY <2>1 DEF Table
  <2>5. h[0] = a
    BY <2>1 DEF Table
  <2> QED
    BY <2>3, <2>4, <2>5 DEF Table
<1>3. n \in Has
  <2> HIDE DEF Has
  <2> QED
    BY <1>1, <1>2, SetInduction
<1> QED
  BY <1>3

(* A function on 1 .. n is a sequence.                                     *)
LEMMA FunctionIsSeq ==
  ASSUME NEW T, NEW n \in Nat, NEW s \in [1 .. n -> T]
  PROVE  s \in Seq(T)
OBVIOUS

(* Flattening ss takes as many steps as ss has parts, each of which        *)
(* appends the next part to what the steps before gave.                    *)
Flattens(h, ss) == /\ h[0] = <<>>
                   /\ \A k \in 1 .. Len(ss) : h[k] = h[k - 1] \o ss[k]
                   /\ FlattenSeq(ss) = h[Len(ss)]

LEMMA FlattenSteps ==
  ASSUME NEW T, NEW ss \in Seq(Seq(T))
  PROVE  \E h \in [0 .. Len(ss) -> Seq(T)] : Flattens(h, ss)
<1> DEFINE n == Len(ss)
           S == Seq(T)
           g == [k \in 1 .. n |-> [s \in S |-> s \o ss[k]]]
           Body(h, i) == IF i = 1 THEN ss[i] ELSE h[i - 1] \o ss[i]
           flatten[i \in 1 .. n] == IF i = 1 THEN ss[i] ELSE flatten[i - 1] \o ss[i]
<1>1. n \in Nat /\ <<>> \in S
  OBVIOUS
<1>2. \A k \in 1 .. n : ss[k] \in S
  OBVIOUS
<1>3. \A s, t \in S : s \o t \in S
  OBVIOUS
<1>4. \A s \in S : <<>> \o s = s
  OBVIOUS
<1>5. n = 0 => ss = <<>>
  OBVIOUS
<1> HIDE DEF S, n, flatten
<1>6. PICK f \in [0 .. n -> S] : Table(f, n, <<>>, g)
  <2>1. g \in [1 .. n -> [S -> S]]
    BY <1>2, <1>3
  <2> HIDE DEF g
  <2> QED
    BY <1>1, <2>1, RecursionExists
<1>7. ASSUME NEW k \in 1 .. n
      PROVE  f[k] = f[k - 1] \o ss[k] /\ f[k - 1] \in S
  <2>1. f[k - 1] \in S
    BY <1>1
  <2> QED
    BY <1>6, <2>1 DEF Table
<1>8. f[0] = <<>>
  BY <1>6 DEF Table
<1>9. flatten = [i \in 1 .. n |-> Body(flatten, i)]
  <2> DEFINE h == [k \in 1 .. n |-> f[k]]
  <2>1. ASSUME NEW i \in 1 .. n
        PROVE  h[i] = Body(h, i)
    <3>1. CASE i = 1
      <4>1. h[i] = f[i] /\ f[i] = f[i - 1] \o ss[i]
        BY <1>7
      <4>2. i - 1 = 0
        BY <3>1
      <4> QED
        BY <1>2, <1>4, <1>8, <4>1, <4>2, <3>1
    <3>2. CASE i # 1
      <4>1. i - 1 \in 1 .. n
        BY <1>1, <3>2
      <4>2. h[i - 1] = f[i - 1] /\ h[i] = f[i]
        BY <4>1
      <4> QED
        BY <1>7, <3>2, <4>2
    <3> QED
      BY <3>1, <3>2
  <2>2. h = [i \in 1 .. n |-> Body(h, i)]
    BY <2>1
  <2> HIDE DEF h
  <2> QED
    BY <2>2 DEF flatten
<1>10. n # 0 => flatten[n] = f[n]
  <2> DEFINE D == {k \in Nat : k \in 1 .. n => flatten[k] = f[k]}
  <2>1. 0 \in D
    OBVIOUS
  <2>2. ASSUME NEW k \in Nat, k \in D
        PROVE  k + 1 \in D
    <3> SUFFICES ASSUME k + 1 \in 1 .. n
                 PROVE  flatten[k + 1] = f[k + 1]
      OBVIOUS
    <3>1. k + 1 - 1 = k
      OBVIOUS
    <3>2. flatten[k + 1] = IF k + 1 = 1 THEN ss[k + 1] ELSE flatten[k] \o ss[k + 1]
      <4>1. flatten[k + 1] = Body(flatten, k + 1)
        <5> HIDE DEF Body
        <5> QED
          BY <1>9
      <4> QED
        BY <3>1, <4>1
    <3>3. f[k + 1] = f[k] \o ss[k + 1]
      <4> DEFINE j == k + 1
      <4>1. j \in 1 .. n /\ j - 1 = k
        OBVIOUS
      <4> HIDE DEF j
      <4>2. f[j] = f[j - 1] \o ss[j]
        BY <1>7, <4>1
      <4> QED
        BY <4>1, <4>2 DEF j
    <3>4. CASE k = 0
      <4>1. k + 1 = 1 /\ ss[k + 1] \in S /\ f[k] = <<>>
        BY <1>2, <1>8, <3>4
      <4> QED
        BY <1>4, <3>2, <3>3, <4>1
    <3>5. CASE k # 0
      <4>1. k \in 1 .. n /\ k + 1 # 1
        BY <1>1, <3>5
      <4> QED
        BY <2>2, <3>2, <3>3, <4>1
    <3> QED
      BY <3>4, <3>5
  <2>3. n \in D
    <3> HIDE DEF D
    <3> QED
      BY <1>1, <2>1, <2>2, SetInduction
  <2> QED
    BY <1>1, <2>3
<1>11. FlattenSeq(ss) = f[n]
  <2>1. CASE n = 0
    BY <1>5, <1>8, <2>1 DEF FlattenSeq, n
  <2>2. CASE n # 0
    <3>1. FlattenSeq(ss) = flatten[n]
      BY <2>2 DEF FlattenSeq, n, flatten
    <3> QED
      BY <1>10, <2>2, <3>1
  <2> QED
    BY <2>1, <2>2
<1> QED
  BY <1>7, <1>8, <1>11 DEF Flattens, S, n

(* What flattening sequences over T gives is a sequence over T.            *)
LEMMA FlattenSeqType ==
  ASSUME NEW T, NEW ss \in Seq(Seq(T))
  PROVE  FlattenSeq(ss) \in Seq(T)
<1>1. PICK h \in [0 .. Len(ss) -> Seq(T)] : Flattens(h, ss)
  BY FlattenSteps
<1>2. Len(ss) \in 0 .. Len(ss)
  OBVIOUS
<1> QED
  BY <1>1, <1>2 DEF Flattens

=============================================================================
