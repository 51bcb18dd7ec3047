----------------------------- MODULE NumberLemmas -----------------------------
(***************************************************************************)
(* Facts about numbers that the proofs share: least and greatest elements, *)
(* induction stated with a set in the place of the predicate, the          *)
(* existence of functions defined by recursion on a number, and how two    *)
(* such recursions agree and sequences grow.                               *)
(***************************************************************************)
EXTENDS Naturals, Sequences, FiniteSetsExt, WellFoundedInduction, TLAPS

\* What a well-founded relation that orders the numbers says of their sets.
LEMMA LeastByRelation ==
  ASSUME NEW R, IsWellFoundedOn(R, Nat), \A m, n \in Nat : m < n => <<m, n>> \in R,
         NEW T, T \subseteq Nat, T # {}
  PROVE  \E n \in T : \A m \in T : n <= m
<1>1. PICK n \in T : \A m \in T : ~ (<<m, n>> \in R)
  BY WFMin, ZenonT(60)
<1>2. \A m \in T : ~ (m < n)
  BY <1>1
<1>3. \A m \in T : n <= m
  BY <1>2
<1> QED
  BY <1>3

\* Every set of numbers that is not empty has a least one.
LEMMA LeastNumber ==
  ASSUME NEW T, T \subseteq Nat, T # {} PROVE \E n \in T : \A m \in T : n <= m
<1> DEFINE R == OpToRel(<, Nat)
<1>1. IsWellFoundedOn(R, Nat)
  BY NatLessThanWellFounded
<1>2. \A m, n \in Nat : m < n => <<m, n>> \in R
  BY DEF OpToRel
<1> HIDE DEF R
<1> QED
  BY <1>1, <1>2, LeastByRelation

\* Induction from one number to another, over a set of numbers.
LEMMA Climb ==
  ASSUME NEW low \in Nat, NEW high \in Nat, NEW T, low \in T,
         \A n \in low .. high : n < high /\ n \in T => n + 1 \in T
  PROVE  low .. high \subseteq T
<1> DEFINE U == {n \in low .. high : n \notin T}
<1> SUFFICES ASSUME U # {} PROVE FALSE
  OBVIOUS
<1>0. U \subseteq Nat
  OBVIOUS
<1>1. PICK n \in U : \A m \in U : n <= m
  <2> HIDE DEF U
  <2> QED
    BY <1>0, LeastNumber
<1>2. n # low /\ n - 1 \in low .. high /\ n - 1 < high
  BY <1>1
<1>3. n - 1 \in T
  BY <1>1, <1>2
<1>4. n \in T
  BY <1>2, <1>3
<1> QED
  BY <1>1, <1>4

\* A set of numbers below a bound that is not empty has a greatest one.
LEMMA GreatestNumber ==
  ASSUME NEW k \in Nat, NEW S, S \subseteq 1 .. k, S # {}
  PROVE  Max(S) \in S /\ \A i \in S : i <= Max(S)
<1> DEFINE B == {n \in Nat : \A i \in S : i <= n}
<1>1. k \in B
  OBVIOUS
<1>2. PICK n \in B : \A m \in B : n <= m
  BY <1>1, LeastNumber
<1>3. n \in S
  <2> SUFFICES ASSUME n \notin S PROVE FALSE
    OBVIOUS
  <2>1. n # 0
    <3>1. PICK i \in S : TRUE
      OBVIOUS
    <3> QED
      BY <1>2, <3>1
  <2>2. n - 1 \in B
    BY <1>2, <2>1
  <2> QED
    BY <1>2, <2>2
<1>4. \E x \in S : \A y \in S : x >= y
  BY <1>2, <1>3
<1>5. Max(S) \in S /\ \A y \in S : Max(S) >= y
  BY <1>4 DEF Max
<1> QED
  BY <1>5

\* A set of numbers that is not empty has a least one.
LEMMA LeastIsMin ==
  ASSUME NEW S, S \subseteq Nat, S # {} PROVE Min(S) \in S /\ \A i \in S : Min(S) <= i
<1>1. \E x \in S : \A y \in S : x <= y
  BY LeastNumber
<1> QED
  BY <1>1 DEF Min

\* g has base as its first value, and next gives its value at n from the one at
\* n - 1.
Recursion(g, k, S, base, next) ==
  g \in [0 .. k -> S] /\ g[0] = base /\ \A n \in 1 .. k : g[n] = next[n][g[n - 1]]

\* There is such a function.
LEMMA RecursionExists ==
  ASSUME NEW k \in Nat, NEW S, NEW base \in S, NEW next \in [1 .. k -> [S -> S]]
  PROVE  \E g : Recursion(g, k, S, base, next)
<1> DEFINE Fits(g, i) == Recursion(g, i, S, base, next)
           T == {i \in Nat : \E g : Fits(g, i)}
<1>1. 0 \in T
  <2>1. Fits([n \in 0 .. 0 |-> base], 0)
    BY DEF Recursion
  <2> QED
    BY <2>1
<1>2. ASSUME NEW i \in 0 .. k, i < k, i \in T PROVE i + 1 \in T
  <2> USE DEF Recursion
  <2>1. PICK g : Fits(g, i)
    BY <1>2
  <2>2. PICK v : v = next[i + 1][g[i]]
    OBVIOUS
  <2>3. v \in S
    <3>1. g[i] \in S /\ i + 1 \in 1 .. k
      BY <1>2, <2>1
    <3>2. next[i + 1] \in [S -> S]
      BY <3>1
    <3> QED
      BY <2>2, <3>1, <3>2
  <2> DEFINE h == [n \in 0 .. i + 1 |-> IF n = i + 1 THEN v ELSE g[n]]
  <2>4. h \in [0 .. i + 1 -> S] /\ h[0] = base
    BY <1>2, <2>1, <2>3
  <2>5. ASSUME NEW n \in 1 .. i + 1 PROVE h[n] = next[n][h[n - 1]]
    <3>1. CASE n = i + 1
      BY <2>2, <3>1
    <3>2. CASE n # i + 1
      <4>1. n \in 1 .. i /\ h[n] = g[n] /\ h[n - 1] = g[n - 1]
        BY <3>2
      <4> QED
        BY <2>1, <4>1
    <3> QED
      BY <3>1, <3>2
  <2>6. Fits(h, i + 1)
    BY <2>4, <2>5
  <2>7. i + 1 \in Nat
    BY <1>2
  <2> HIDE DEF Fits, h
  <2> QED
    BY <2>6, <2>7
<1>3. k \in T
  <2> HIDE DEF T
  <2>1. 0 .. k \subseteq T
    BY <1>1, <1>2, Climb
  <2> QED
    BY <2>1
<1> QED
  BY <1>3

\* The values of f up to k follow from the one before by next.
Stepwise(f, k, S, base, next) ==
  f[0] = base /\ \A n \in 1 .. k : f[n - 1] \in S => f[n] = next[n][f[n - 1]]

Agree(f, g, k, S) == \A n \in 0 .. k : f[n] \in S /\ f[n] = g[n]

\* Two such functions are the same as far as the steps go.
LEMMA SameRecursion ==
  ASSUME NEW k \in Nat, NEW S, NEW base \in S, NEW next \in [1 .. k -> [S -> S]],
         NEW f, NEW g, Stepwise(f, k, S, base, next), Stepwise(g, k, S, base, next)
  PROVE  Agree(f, g, k, S)
<1> USE DEF Stepwise, Agree
<1> DEFINE T == {n \in Nat : f[n] \in S /\ f[n] = g[n]}
<1>1. 0 \in T
  OBVIOUS
<1>2. ASSUME NEW n \in 0 .. k, n < k, n \in T PROVE n + 1 \in T
  <2>1. PICK m \in 1 .. k : m = n + 1
    BY <1>2
  <2>2. m - 1 = n /\ m \in Nat
    BY <2>1
  <2>3. f[m] = next[m][f[n]] /\ g[m] = next[m][g[n]] /\ f[n] = g[n] /\ f[n] \in S
    BY <1>2, <2>2
  <2>4. next[m] \in [S -> S]
    OBVIOUS
  <2>5. next[m][f[n]] \in S
    BY <2>3, <2>4
  <2> QED
    BY <2>1, <2>2, <2>3, <2>5
<1>3. 0 .. k \subseteq T
  <2> HIDE DEF T
  <2> QED
    BY <1>1, <1>2, Climb
<1> QED
  BY <1>3

\* What holds of the empty sequence and of one element more holds of every one.
LEMMA SequencesGrow ==
  ASSUME NEW V, NEW W, <<>> \in W, \A s \in Seq(V), x \in V : s \in W => Append(s, x) \in W
  PROVE  Seq(V) \subseteq W
<1> SUFFICES ASSUME NEW s \in Seq(V) PROVE s \in W
  OBVIOUS
<1> DEFINE T == {n \in 0 .. Len(s) : SubSeq(s, 1, n) \in W}
<1>1. Len(s) \in Nat /\ 0 \in T
  <2>1. SubSeq(s, 1, 0) = <<>>
    OBVIOUS
  <2>2. SubSeq(s, 1, 0) \in W
    BY <2>1
  <2>3. Len(s) \in Nat /\ 0 \in 0 .. Len(s)
    OBVIOUS
  <2> QED
    BY <2>2, <2>3
<1>2. ASSUME NEW n \in 0 .. Len(s), n < Len(s), n \in T PROVE n + 1 \in T
  <2>1. PICK m \in 1 .. Len(s) : m = n + 1
    BY <1>2
  <2>2. SubSeq(s, 1, n) \in Seq(V) /\ Len(SubSeq(s, 1, n)) = n /\ s[m] \in V
    OBVIOUS
  <2>3. PICK u : u = SubSeq(s, 1, n)
    OBVIOUS
  <2>4. SubSeq(s, 1, m) = Append(u, s[m])
    <3>1. Len(Append(u, s[m])) = m /\ Append(u, s[m]) \in Seq(V) /\ SubSeq(s, 1, m) \in Seq(V) /\ Len(SubSeq(s, 1, m)) = m
      BY <2>1, <2>2, <2>3
    <3>2. ASSUME NEW i \in 1 .. m PROVE SubSeq(s, 1, m)[i] = Append(u, s[m])[i]
      <4>1. SubSeq(s, 1, m)[i] = s[i]
        OBVIOUS
      <4>2. CASE i = m
        BY <2>1, <2>2, <2>3, <4>1, <4>2
      <4>3. CASE i # m
        <5>1. i \in 1 .. n /\ u[i] = s[i] /\ Append(u, s[m])[i] = u[i]
          BY <2>1, <2>2, <2>3, <4>3
        <5> QED
          BY <4>1, <5>1
      <4> QED
        BY <4>2, <4>3
    <3> QED
      BY <3>1, <3>2
  <2>5. u \in W /\ u \in Seq(V)
    BY <1>2, <2>2, <2>3
  <2>6. Append(u, s[m]) \in W
    BY <2>2, <2>5
  <2>7. n + 1 \in 0 .. Len(s) /\ SubSeq(s, 1, n + 1) \in W
    <3>1. SubSeq(s, 1, m) \in W
      BY <2>4, <2>6, Zenon
    <3>2. m \in 0 .. Len(s)
      OBVIOUS
    <3> QED
      BY <2>1, <3>1, <3>2
  <2> QED
    BY <2>7
<1>3. 0 .. Len(s) \subseteq T
  <2> HIDE DEF T
  <2>1. 0 \in Nat /\ Len(s) \in Nat
    BY <1>1
  <2>2. \A n \in 0 .. Len(s) : n < Len(s) /\ n \in T => n + 1 \in T
    BY <1>2
  <2> QED
    BY <1>1, <2>1, <2>2, Climb
<1>4. SubSeq(s, 1, Len(s)) = s
  OBVIOUS
<1>5. Len(s) \in T
  <2>1. Len(s) \in 0 .. Len(s)
    BY <1>1
  <2> QED
    BY <1>3, <2>1
<1> QED
  BY <1>4, <1>5

=============================================================================
