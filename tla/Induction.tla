------------------------------ MODULE Induction ------------------------------
(***************************************************************************)
(* Induction over the natural numbers and over the recursive functions the *)
(* components are built from.  The induction theorems of the library take  *)
(* a predicate, which the provers cannot instantiate; here the predicate   *)
(* is a set, as it is in the library's theorem on minimal elements.        *)
(***************************************************************************)
EXTENDS WellFoundedInduction, Integers, TLAPS

Less == {pair \in Nat \X Nat : pair[1] < pair[2]}

LEMMA LessIsWellFounded == IsWellFoundedOn(Less, Nat)
  BY NatLessThanWellFounded, Zenon DEF OpToRel, Less

\* A set of natural numbers that is not empty has a least element.
LEMMA Smallest ==
  ASSUME NEW T \in SUBSET Nat, T # {}
  PROVE  \E x \in T : \A y \in T : x <= y
<1>1. T \subseteq Nat
  OBVIOUS
<1>2. \E x \in T : \A y \in T : ~ (<<y, x>> \in Less)
  BY <1>1, LessIsWellFounded, WFMin, Zenon
<1>3. PICK x \in T : \A y \in T : ~ (<<y, x>> \in Less)
  BY <1>2
<1>4. ASSUME NEW y \in T
      PROVE  x <= y
  <2>1. x \in Nat /\ y \in Nat
    BY <1>1
  <2>2. ~ (y < x)
    BY <1>3, <2>1 DEF Less
  <2> QED
    BY <2>1, <2>2
<1> QED
  BY <1>4, Zenon

\* Induction from 0 up to n.
LEMMA Upward ==
  ASSUME NEW n \in Nat, NEW S, 0 \in S,
         \A k \in 0 .. n - 1 : k \in S => k + 1 \in S
  PROVE  \A k \in 0 .. n : k \in S
<1> DEFINE T == {k \in 0 .. n : k \notin S}
<1>1. SUFFICES ASSUME T # {} PROVE FALSE
  OBVIOUS
<1>2. T \in SUBSET Nat
  OBVIOUS
<1>3. PICK x \in T : \A y \in T : x <= y
  <2> HIDE DEF T
  <2> QED BY <1>1, <1>2, Smallest
<1>4. x \in 0 .. n /\ x \notin S /\ x # 0
  BY <1>3
<1>5. x - 1 \in 0 .. n - 1 /\ (x - 1) + 1 = x
  BY <1>4
<1>6. x - 1 \in T
  BY <1>4, <1>5
<1> QED
  BY <1>3, <1>4, <1>6

\* Induction from n down to 1, with everything above as the hypothesis.
LEMMA Downward ==
  ASSUME NEW n \in Nat, NEW S,
         \A i \in 1 .. n : (\A j \in i + 1 .. n : j \in S) => i \in S
  PROVE  \A i \in 1 .. n : i \in S
<1> DEFINE D == {k \in 0 .. n : \A i \in (n - k) + 1 .. n : i \in S}
<1>1. 0 \in D
  OBVIOUS
<1>2. ASSUME NEW k \in 0 .. n - 1, k \in D
      PROVE  k + 1 \in D
  <2>1. n - k \in 1 .. n /\ \A j \in (n - k) + 1 .. n : j \in S
    BY <1>2
  <2>2. n - k \in S
    BY <2>1
  <2> QED
    BY <2>1, <2>2
<1>3. \A k \in 0 .. n : k \in D
  <2> HIDE DEF D
  <2> QED BY <1>1, <1>2, Upward
<1> QED
  BY <1>3

-----------------------------------------------------------------------------
(* A function that is defined from its value at the element before.         *)
HasRecursion(S, c, n, F) ==
  \E g \in [0 .. n -> S] :
    g[0] = c /\ \A i \in 1 .. n : g[i] = F[i][g[i - 1]]

LEMMA RecursionExists ==
  ASSUME NEW S, NEW c \in S, NEW n \in Nat, NEW F \in [1 .. n -> [S -> S]]
  PROVE  HasRecursion(S, c, n, F)
<1> DEFINE
      Is(g, k) == g[0] = c /\ \A i \in 1 .. k : g[i] = F[i][g[i - 1]]
      D == {k \in 0 .. n : \E g \in [0 .. k -> S] : Is(g, k)}
<1>1. 0 \in D
  <2> DEFINE e == [i \in 0 .. 0 |-> c]
  <2>1. Is(e, 0) /\ e \in [0 .. 0 -> S] /\ 0 \in 0 .. n
    OBVIOUS
  <2> HIDE DEF e, Is
  <2> QED
    BY <2>1
<1>2. ASSUME NEW k \in 0 .. n - 1, k \in D
      PROVE  k + 1 \in D
  <2>1. PICK g \in [0 .. k -> S] : Is(g, k)
    BY <1>2
  <2> DEFINE h == [i \in 0 .. k + 1 |->
                     IF i = k + 1 THEN F[k + 1][g[k]] ELSE g[i]]
  <2>2. F[k + 1] \in [S -> S] /\ g[k] \in S
    OBVIOUS
  <2>3. h \in [0 .. k + 1 -> S]
    BY <2>2
  <2>4. Is(h, k + 1) /\ k + 1 \in 0 .. n
    <3>1. h[0] = c /\ k + 1 \in 0 .. n
      BY <2>1
    <3>2. ASSUME NEW i \in 1 .. k + 1
          PROVE  h[i] = F[i][h[i - 1]]
      <4>1. CASE i = k + 1
        BY <4>1
      <4>2. CASE i # k + 1
        <5>1. i \in 1 .. k /\ i \in 0 .. k + 1 /\ i - 1 \in 0 .. k + 1 /\ i - 1 # k + 1
          BY <4>2
        <5>2. h[i] = g[i] /\ h[i - 1] = g[i - 1]
          BY <4>2, <5>1
        <5> HIDE DEF h
        <5> QED
          BY <2>1, <5>1, <5>2
      <4> QED
        BY <4>1, <4>2
    <3> HIDE DEF h
    <3> QED
      BY <3>1, <3>2
  <2> HIDE DEF h, Is
  <2> QED
    BY <2>3, <2>4
<1>3. \A k \in 0 .. n : k \in D
  <2> HIDE DEF D
  <2> QED BY <1>1, <1>2, Upward
<1> QED
  BY <1>3 DEF HasRecursion

(* A search: what is found where it stops, and further on elsewhere.        *)
HasSearch(S, n, stop, val, next) ==
  \E g \in [1 .. n -> S] :
    \A i \in 1 .. n : g[i] = IF i \in stop THEN val[i] ELSE g[next[i]]

LEMMA SearchExists ==
  ASSUME NEW S, NEW n \in Nat, NEW stop, NEW val \in [1 .. n -> S],
         NEW next \in [1 .. n -> Nat],
         \A i \in 1 .. n : i \notin stop => next[i] \in i + 1 .. n
  PROVE  HasSearch(S, n, stop, val, next)
<1> DEFINE
      Is(g, k) == \A i \in k + 1 .. n :
                    g[i] = IF i \in stop THEN val[i] ELSE g[next[i]]
      D == {k \in 0 .. n : \E g \in [(n - k) + 1 .. n -> S] : Is(g, n - k)}
<1>1. 0 \in D
  <2> DEFINE e == [i \in n + 1 .. n |-> val[i]]
  <2>1. e \in [(n - 0) + 1 .. n -> S] /\ Is(e, n - 0) /\ 0 \in 0 .. n
    OBVIOUS
  <2> HIDE DEF e, Is
  <2> QED
    BY <2>1
<1>2. ASSUME NEW k \in 0 .. n - 1, k \in D
      PROVE  k + 1 \in D
  <2> DEFINE m == n - k
  <2>1. m \in 1 .. n /\ n - (k + 1) = m - 1 /\ (m - 1) + 1 = m
    OBVIOUS
  <2>2. PICK g \in [m + 1 .. n -> S] : Is(g, m)
    BY <1>2
  <2> HIDE DEF m
  <2> DEFINE h == [i \in m .. n |->
                     IF i = m THEN IF m \in stop THEN val[m] ELSE g[next[m]]
                     ELSE g[i]]
  <2>3. m \notin stop => next[m] \in m + 1 .. n
    BY <2>1
  <2>4. h \in [m .. n -> S]
    BY <2>1, <2>3
  <2>5. ASSUME NEW i \in m .. n
        PROVE  h[i] = IF i \in stop THEN val[i] ELSE h[next[i]]
    <3>1. CASE i = m
      BY <3>1, <2>1, <2>3
    <3>2. CASE i # m
      <4>1. i \in m + 1 .. n /\ (i \notin stop => next[i] \in i + 1 .. n)
        BY <3>2, <2>1
      <4> QED
        BY <4>1, <2>1, <2>2
    <3> QED
      BY <3>1, <3>2
  <2>7. Is(h, n - (k + 1)) /\ h \in [(n - (k + 1)) + 1 .. n -> S]
    BY <2>1, <2>4, <2>5
  <2> HIDE DEF h, Is
  <2> QED
    BY <2>7
<1>3. \A k \in 0 .. n : k \in D
  <2> HIDE DEF D
  <2> QED BY <1>1, <1>2, Upward
<1>4. n \in D
  <2> HIDE DEF D
  <2> QED BY <1>3
<1>5. PICK g \in [(n - n) + 1 .. n -> S] : Is(g, n - n)
  BY <1>4
<1>6. (n - n) + 1 = 1 /\ n - n = 0
  OBVIOUS
<1>7. g \in [1 .. n -> S] /\ Is(g, 0) /\ 0 + 1 = 1
  <2> HIDE DEF Is
  <2> QED BY <1>5, <1>6
<1> QED
  BY <1>7 DEF HasSearch
=============================================================================
