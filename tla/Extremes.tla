------------------------------ MODULE Extremes ------------------------------
(***************************************************************************)
(* Sets of natural numbers have a least element, and those with a bound a  *)
(* greatest one: what stands for induction in the proofs, whether over the *)
(* positions of a text or over the levels of a recursive function, which   *)
(* the least level without a value would contradict.                       *)
(***************************************************************************)
EXTENDS Integers, WellFoundedInduction, TLAPS

\* The least element.
LEMMA HasMin ==
  ASSUME NEW T, T \subseteq Nat, T # {}
  PROVE  \E x \in T : \A y \in T : x <= y
<1>1. \E x \in T : \A y \in T : ~ (<<y, x>> \in OpToRel(<, Nat))
  BY NatLessThanWellFounded, WFMin
<1>2. PICK x \in T : \A y \in T : ~ (<<y, x>> \in OpToRel(<, Nat))
  BY <1>1
<1>3. \A y \in T : ~(y < x)
  BY <1>2 DEF OpToRel
<1> QED
  BY <1>3

\* The greatest element.
LEMMA HasMax ==
  ASSUME NEW T, T \subseteq Nat, T # {}, NEW b \in Nat, \A x \in T : x <= b
  PROVE  \E x \in T : \A y \in T : y <= x
<1> DEFINE U == {m \in Nat : \A x \in T : x <= m}
<1>1. PICK m \in U : \A y \in U : m <= y
  <2>1. b \in U /\ U \subseteq Nat
    OBVIOUS
  <2> HIDE DEF U
  <2> QED
    BY <2>1, HasMin
<1>2. PICK x \in T : TRUE
  OBVIOUS
<1>3. CASE m \in T
  BY <1>1, <1>3
<1>4. CASE m \notin T
  <2>1. \A y \in T : y <= m - 1
    BY <1>1, <1>4
  <2>2. m - 1 \in Nat
    BY <1>1, <1>2, <2>1
  <2>3. m - 1 \in U
    BY <2>1, <2>2
  <2> QED
    BY <1>1, <2>3
<1> QED
  BY <1>3, <1>4

\* g has its first value b and makes each further one as F says.
Makes(F, n, S) == F \in [1..n -> [S -> S]]
Follow(g, b, F, n, S) ==
  g \in [0..n -> S] /\ g[0] = b /\ \A i \in 1..n : g[i] = F[i][g[i - 1]]

\* A recursive function exists: it has each of its values in turn.
LEMMA Recursion ==
  ASSUME NEW S, NEW n \in Nat, NEW b \in S, NEW F, Makes(F, n, S)
  PROVE  \E g : Follow(g, b, F, n, S)
<1>0. F \in [1..n -> [S -> S]]
  BY DEF Makes
<1> DEFINE P(m) == \E g \in [0..m -> S] : g[0] = b /\ \A i \in 1..m : g[i] = F[i][g[i - 1]]
           Missing == {m \in 0..n : ~P(m)}
<1>1. P(0)
  <2> DEFINE g == [i \in 0..0 |-> b]
  <2>1. g \in [0..0 -> S] /\ g[0] = b /\ 1..0 = {}
    OBVIOUS
  <2> HIDE DEF g
  <2> QED
    BY <2>1
<1>2. ASSUME NEW m \in 1..n, P(m - 1) PROVE P(m)
  <2>1. PICK g \in [0..(m - 1) -> S] : g[0] = b /\ \A i \in 1..(m - 1) : g[i] = F[i][g[i - 1]]
    BY <1>2
  <2>2. m - 1 \in 0..(m - 1) /\ g[m - 1] \in S
    BY <2>1
  <2>3. F[m][g[m - 1]] \in S
    BY <1>0, <2>2
  <2> DEFINE h == [i \in 0..m |-> IF i = m THEN F[m][g[m - 1]] ELSE g[i]]
  <2>4. h \in [0..m -> S]
    BY <2>1, <2>3
  <2>5. h[0] = b
    BY <2>1
  <2>6. ASSUME NEW i \in 1..m PROVE h[i] = F[i][h[i - 1]]
    <3>1. i - 1 \in 0..m /\ i - 1 # m /\ h[i - 1] = g[i - 1]
      OBVIOUS
    <3>2. CASE i = m
      BY <3>1, <3>2
    <3>3. CASE i # m
      <4>1. i \in 1..(m - 1) /\ h[i] = g[i]
        BY <3>3
      <4> QED
        BY <2>1, <3>1, <4>1
    <3> QED
      BY <3>2, <3>3
  <2> HIDE DEF h
  <2> QED
    BY <2>4, <2>5, <2>6
<1>3. Missing = {}
  <2> SUFFICES ASSUME Missing # {} PROVE FALSE
    OBVIOUS
  <2>1. PICK m \in Missing : \A k \in Missing : m <= k
    <3>1. Missing \subseteq Nat
      OBVIOUS
    <3> HIDE DEF Missing
    <3> QED
      BY <3>1, HasMin
  <2>2. m \in 0..n /\ ~P(m)
    BY <2>1
  <2> HIDE DEF P
  <2>3. m # 0
    BY <1>1, <2>2
  <2>4. m \in 1..n /\ m - 1 \in 0..n /\ ~(m <= m - 1)
    BY <2>2, <2>3
  <2>5. P(m - 1)
    BY <2>1, <2>4
  <2> QED
    BY <1>2, <2>2, <2>4, <2>5
<1>4. n \in 0..n
  OBVIOUS
<1>5. P(n)
  <2> HIDE DEF P
  <2> QED
    BY <1>3, <1>4
<1> QED
  BY <1>5 DEF Follow
=============================================================================
