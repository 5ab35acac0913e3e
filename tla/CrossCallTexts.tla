--------------------------- MODULE CrossCallTexts ---------------------------
(***************************************************************************)
(* Lemmas about the operators of CrossCall: what stays of a window, sets   *)
(* of calls in their order, texts one after another, and the coverage of   *)
(* a source, which does not grow when the first texts are left out.        *)
(***************************************************************************)
EXTENDS CrossCall, Extremes, FiniteSetTheorems, SequenceTheorems, TLAPS

-----------------------------------------------------------------------------
\* ---- positions ----

\* A loop that takes entries from the head stops at the first that is not stale.
LEMMA DropWhileIs ==
  ASSUME NEW S, NEW w \in Seq(S), NEW stale, stale \subseteq DOMAIN w
  PROVE  \E k \in 1..(Len(w) + 1) :
           /\ \A i \in 1..(k - 1) : i \in stale
           /\ k \notin stale
           /\ DropWhile(w, stale) = SubSeq(w, k, Len(w))
<1> DEFINE P(k) == (\A i \in 1..(k - 1) : i \in stale) /\ k \notin stale
<1>1. Len(w) \in Nat /\ DOMAIN w = 1..Len(w)
  BY LenProperties
<1>2. \E k \in 1..(Len(w) + 1) : P(k)
  <2> DEFINE T == {k \in 1..(Len(w) + 1) : k \notin stale}
  <2>1. T \subseteq Nat /\ Len(w) + 1 \in T
    BY <1>1
  <2>2. PICK k \in T : \A y \in T : k <= y
    <3> HIDE DEF T
    <3> QED
      BY <2>1, HasMin
  <2> QED
    BY <1>1, <2>2
<1>3. DropWhile(w, stale) = SubSeq(w, CHOOSE k \in 1..(Len(w) + 1) : P(k), Len(w))
  BY DEF DropWhile
<1> HIDE DEF P
<1>4. PICK k : k = CHOOSE j \in 1..(Len(w) + 1) : P(j)
  OBVIOUS
<1>5. k \in 1..(Len(w) + 1) /\ P(k)
  BY <1>2, <1>4
<1> QED
  BY <1>3, <1>4, <1>5 DEF P

\* An increasing sequence of all of I is InOrder(I).
Onto(f, I) == \A i \in I : \E k \in DOMAIN f : f[k] = i

LEMMA InOrderIs ==
  ASSUME NEW I, I \subseteq Nat, NEW n \in Nat, NEW f \in [1..n -> I], Increasing(f), Onto(f, I)
  PROVE  IsFiniteSet(I) /\ Cardinality(I) = n /\ InOrder(I) = f
<1>0. ASSUME NEW k \in 1..n
      PROVE  f[k] \in Nat /\ k \in Nat
  <2>1. f[k] \in I
    OBVIOUS
  <2>2. \A x \in I : x \in Nat
    OBVIOUS
  <2>3. f[k] \in Nat
    BY <2>1, <2>2
  <2>4. k \in Nat
    OBVIOUS
  <2> QED
    BY <2>3, <2>4
<1>1. \A j, k \in 1..n : f[j] < f[k] <=> j < k
  <2>1. \A j, k \in 1..n : j < k => f[j] < f[k]
    BY DEF Increasing
  <2> QED
    BY <1>0, <2>1
<1>2. \A j, k \in 1..n : f[j] = f[k] => j = k
  BY <1>1
<1>3. f \in Bijection(1..n, I)
  BY <1>2 DEF Bijection, Injection, Surjection, IsInjective, Onto
<1>4. IsFiniteSet(I) /\ Cardinality(I) = n
  <2>1. ExistsBijection(1..n, I)
    BY <1>3 DEF ExistsBijection
  <2> QED
    BY <2>1, FS_NatBijection, FS_CountingElements
<1>5. ASSUME NEW g \in [1..n -> I], Increasing(g)
      PROVE  g = f
  <2>1. \A j, k \in 1..n : j < k => g[j] < g[k]
    BY <1>5 DEF Increasing
  <2> DEFINE T == {k \in 1..n : g[k] # f[k]}
  <2>2. CASE T = {}
    BY <1>5, <2>2
  <2>3. CASE T # {}
    <3>1. PICK k \in T : \A y \in T : k <= y
      <4>1. T \subseteq Nat
        OBVIOUS
      <4> HIDE DEF T
      <4> QED
        BY <2>3, <4>1, HasMin
    <3>2. \A m \in 1..n : g[m] = f[m] \/ m >= k
      BY <3>1
    <3>3. \A m \in 1..n : m >= k => f[m] # g[k] \/ m > k
      BY <3>1
    \* From k on, g is ahead of f.
    <3> DEFINE U == {m \in 1..n : m >= k /\ ~(\E j \in 1..n : j > m /\ g[m] = f[j])}
    <3>4. k \notin U
      <4>1. PICK j \in 1..n : f[j] = g[k]
        BY <1>5 DEF Onto
      <4>2. j # k
        BY <3>1, <4>1
      <4>3. ASSUME j < k PROVE FALSE
        <5>1. g[j] < g[k] /\ g[j] = f[j]
          BY <2>1, <3>1, <3>2, <4>3
        <5> QED
          BY <1>0, <4>1, <5>1
      <4> QED
        BY <3>1, <4>1, <4>2, <4>3
    <3>5. n \in U
      BY <3>1
    <3>6. PICK m \in U : \A y \in U : m <= y
      <4>1. U \subseteq Nat
        OBVIOUS
      <4> HIDE DEF U
      <4> QED
        BY <3>5, <4>1, HasMin
    <3>7. m > k /\ m - 1 \in 1..n /\ m - 1 \notin U
      BY <3>1, <3>4, <3>6
    <3>8. PICK j \in 1..n : j > m - 1 /\ g[m - 1] = f[j]
      BY <3>7, <3>1
    <3>9. PICK i \in 1..n : f[i] = g[m]
      BY <1>5, <3>6 DEF Onto
    <3>10. f[j] < f[i]
      BY <2>1, <3>6, <3>7, <3>8, <3>9
    <3>11. i > m
      BY <1>1, <3>8, <3>10
    <3> QED
      BY <3>6, <3>9, <3>11
  <2> QED
    BY <2>2, <2>3
<1>6. InOrder(I) = CHOOSE g \in [1..n -> I] : Increasing(g)
  BY <1>4 DEF InOrder
<1>7. PICK h : h = CHOOSE g \in [1..n -> I] : Increasing(g)
  OBVIOUS
<1>8. h \in [1..n -> I] /\ Increasing(h)
  BY <1>7
<1> QED
  BY <1>4, <1>5, <1>6, <1>7, <1>8

-----------------------------------------------------------------------------
\* ---- texts one after another ----

\* What FlattenSeq computes step by step.
Steps(g, q) ==
  \A i \in 1..Len(q) : g[i] = IF i = 1 THEN q[i] ELSE g[i - 1] \o q[i]

LEMMA StepsExist ==
  ASSUME NEW S, NEW q \in Seq(Seq(S))
  PROVE  \E g \in [1..Len(q) -> Seq(S)] : Steps(g, q)
<1>1. Len(q) \in Nat /\ \A i \in 1..Len(q) : q[i] \in Seq(S)
  BY LenProperties, ElementOfSeq
<1> DEFINE P(n) == \E g \in [1..n -> Seq(S)] :
                     \A i \in 1..n : g[i] = IF i = 1 THEN q[i] ELSE g[i - 1] \o q[i]
           Missing == {n \in 0..Len(q) : ~P(n)}
<1>2. CASE Missing = {}
  <2>1. P(Len(q))
    <3>1. Len(q) \in 0..Len(q)
      BY <1>1
    <3> HIDE DEF P
    <3> QED
      BY <1>2, <3>1
  <2> QED
    BY <2>1 DEF Steps
<1>3. CASE Missing # {}
  <2>1. PICK n \in Missing : \A m \in Missing : n <= m
    <3>1. Missing \subseteq Nat
      BY <1>1
    <3> HIDE DEF Missing
    <3> QED
      BY <1>3, <3>1, HasMin
  <2>2. CASE n = 0
    <3>1. [i \in 1..0 |-> <<>>] \in [1..0 -> Seq(S)]
      OBVIOUS
    <3>2. P(0)
      <4>1. 1..0 = {}
        OBVIOUS
      <4> QED
        BY <3>1, <4>1
    <3> QED
      BY <2>1, <2>2, <3>2
  <2>3. CASE n # 0
    <3>1. n \in 1..Len(q) /\ n - 1 \in 0..Len(q) /\ n - 1 \notin Missing
      <4>1. n \in 0..Len(q) /\ \A m \in Missing : n <= m
        BY <2>1
      <4> HIDE DEF P, Missing
      <4> QED
        BY <1>1, <2>3, <4>1
    <3>2. PICK g \in [1..(n - 1) -> Seq(S)] :
            \A i \in 1..(n - 1) : g[i] = IF i = 1 THEN q[i] ELSE g[i - 1] \o q[i]
      BY <3>1
    <3> DEFINE e == IF n = 1 THEN q[n] ELSE g[n - 1] \o q[n]
               h == [i \in 1..n |-> IF i = n THEN e ELSE g[i]]
    <3>3. e \in Seq(S)
      BY <1>1, <3>1, ConcatProperties
    <3>4. h \in [1..n -> Seq(S)]
      BY <3>1, <3>3
    <3>5. ASSUME NEW i \in 1..n
          PROVE  h[i] = IF i = 1 THEN q[i] ELSE h[i - 1] \o q[i]
      <4>1. CASE i = n
        <5>1. n # 1 => h[n - 1] = g[n - 1]
          BY <3>1
        <5> QED
          BY <4>1, <5>1
      <4>2. CASE i # n
        <5>1. i \in 1..(n - 1) /\ h[i] = g[i]
          BY <3>1, <4>2
        <5>2. i # 1 => h[i - 1] = g[i - 1]
          BY <3>1, <4>2
        <5> QED
          BY <3>2, <5>1, <5>2
      <4> QED
        BY <4>1, <4>2
    <3> QED
      BY <2>1, <3>4, <3>5
  <2> QED
    BY <2>2, <2>3
<1> QED
  BY <1>2, <1>3

LEMMA FlattenIs ==
  ASSUME NEW S, NEW q \in Seq(Seq(S)), q # <<>>
  PROVE  \E g \in [1..Len(q) -> Seq(S)] : Steps(g, q) /\ FlattenSeq(q) = g[Len(q)]
<1>1. Len(q) \in Nat \ {0}
  BY EmptySeq
<1> DEFINE Is(g) == g = [i \in 1..Len(q) |-> IF i = 1 THEN q[i] ELSE g[i - 1] \o q[i]]
<1>2. FlattenSeq(q) = (CHOOSE g : Is(g))[Len(q)]
  BY <1>1 DEF FlattenSeq
<1>3. PICK h \in [1..Len(q) -> Seq(S)] : Steps(h, q)
  BY StepsExist
<1>4. Is(h)
  BY <1>3 DEF Steps
<1>5. PICK g : g = CHOOSE f : Is(f)
  OBVIOUS
<1>6. Is(g)
  <2> HIDE DEF Is
  <2> QED
    BY <1>4, <1>5
<1>7. Steps(g, q)
  BY <1>6 DEF Steps
<1>8. g = h
  <2> DEFINE T == {i \in 1..Len(q) : g[i] # h[i]}
  <2>1. CASE T = {}
    <3>1. DOMAIN g = 1..Len(q) /\ DOMAIN h = 1..Len(q) /\ \A i \in 1..Len(q) : g[i] = h[i]
      BY <1>6, <2>1
    <3>2. g = [i \in 1..Len(q) |-> g[i]]
      BY <1>6
    <3>3. h = [i \in 1..Len(q) |-> h[i]]
      OBVIOUS
    <3> QED
      BY <3>1, <3>2, <3>3
  <2>2. CASE T # {}
    <3>1. PICK i \in T : \A j \in T : i <= j
      <4>1. T \subseteq Nat
        OBVIOUS
      <4> HIDE DEF T
      <4> QED
        BY <2>2, <4>1, HasMin
    <3>2. i = 1 \/ (i - 1 \in 1..Len(q) /\ i - 1 \notin T)
      BY <1>1, <3>1
    <3> QED
      BY <1>3, <1>7, <3>1, <3>2 DEF Steps
  <2> QED
    BY <2>1, <2>2
<1> QED
  BY <1>2, <1>3, <1>5, <1>8

\* The last texts of q make up the end of what all of them make.
LEMMA FlattenSuffix ==
  ASSUME NEW S, NEW q \in Seq(Seq(S)), NEW k \in 1..Len(q)
  PROVE  \E a \in Seq(S) : FlattenSeq(SubSeq(q, k, Len(q))) \in Seq(S)
                          /\ FlattenSeq(q) = a \o FlattenSeq(SubSeq(q, k, Len(q)))
<1>0. \A a, b, c \in Seq(S) : (a \o b) \o c = a \o (b \o c)
  BY ConcatAssociative, SMTT(30)
<1> DEFINE r == SubSeq(q, k, Len(q))
<1>1. Len(q) \in Nat /\ \A i \in 1..Len(q) : q[i] \in Seq(S)
  BY LenProperties, ElementOfSeq
<1>2. /\ r \in Seq(Seq(S)) /\ Len(r) = Len(q) - k + 1
      /\ \A i \in 1..Len(r) : r[i] = q[k + i - 1]
  BY <1>1, SubSeqProperties
<1> HIDE DEF r
<1>3. q # <<>> /\ r # <<>>
  <2>1. Len(q) # 0 /\ Len(r) # 0
    BY <1>1, <1>2
  <2> QED
    BY <2>1, EmptySeq
<1>4. PICK g \in [1..Len(q) -> Seq(S)] : Steps(g, q) /\ FlattenSeq(q) = g[Len(q)]
  BY <1>3, FlattenIs
<1>5. PICK h \in [1..Len(r) -> Seq(S)] : Steps(h, r) /\ FlattenSeq(r) = h[Len(r)]
  BY <1>2, <1>3, FlattenIs
<1>6. PICK a \in Seq(S) : a = IF k = 1 THEN <<>> ELSE g[k - 1]
  <2>1. <<>> \in Seq(S)
    BY EmptySeq
  <2>2. k # 1 => k - 1 \in 1..Len(q)
    BY <1>1
  <2> QED
    BY <2>1, <2>2
<1> DEFINE T == {i \in 1..Len(r) : g[k + i - 1] # a \o h[i]}
<1>7. CASE T = {}
  <2>1. Len(r) \in 1..Len(r) /\ k + Len(r) - 1 = Len(q)
    BY <1>1, <1>2
  <2>2. FlattenSeq(q) = a \o FlattenSeq(r) /\ FlattenSeq(r) \in Seq(S)
    BY <1>4, <1>5, <1>7, <2>1
  <2> QED
    BY <2>2 DEF r
<1>8. CASE T # {}
  <2>1. PICK i \in T : \A j \in T : i <= j
    <3>1. T \subseteq Nat
      OBVIOUS
    <3> HIDE DEF T
    <3> QED
      BY <1>8, <3>1, HasMin
  <2>2. CASE i = 1
    <3>1. h[1] = q[k] /\ 1 \in 1..Len(r)
      <4>1. 1 \in 1..Len(r) /\ k + 1 - 1 = k
        BY <2>1, <2>2
      <4>2. h[1] = r[1] /\ r[1] = q[k]
        BY <1>2, <1>5, <4>1 DEF Steps
      <4> QED
        BY <4>1, <4>2
    <3>2. CASE k = 1
      <4>1. <<>> \o q[1] = q[1]
        BY <1>1, <3>2, ConcatEmptySeq
      <4>2. g[1] = q[1] /\ 1 + 1 - 1 = 1
        <5>1. 1 \in 1..Len(q)
          BY <3>2
        <5>2. g[1] = q[1]
          BY <1>4, <5>1 DEF Steps
        <5> QED
          BY <5>2
      <4>3. g[k + i - 1] = a \o h[i]
        BY <1>6, <2>2, <3>1, <3>2, <4>1, <4>2
      <4> QED
        BY <2>1, <4>3
    <3>3. CASE k # 1
      <4>1. g[k] = g[k - 1] \o q[k]
        BY <1>4, <3>3 DEF Steps
      <4>3. k + 1 - 1 = k
        OBVIOUS
      <4>2. g[k + i - 1] = a \o h[i]
        BY <1>6, <2>2, <3>1, <3>3, <4>1, <4>3
      <4> QED
        BY <2>1, <4>2
    <3> QED
      BY <3>2, <3>3
  <2>3. CASE i # 1
    <3>1. i - 1 \in 1..Len(r) /\ i - 1 \notin T /\ k + i - 1 \in 1..Len(q) /\ k + i - 1 # 1
      <4>1. i \in 1..Len(r) /\ \A j \in T : i <= j
        BY <2>1
      <4> HIDE DEF T
      <4> QED
        BY <1>1, <1>2, <2>3, <4>1, SMTT(30)
    <3> DEFINE m == k + i - 1
    <3>2. g[m - 1] = a \o h[i - 1]
      <4>1. k + (i - 1) - 1 = m - 1
        BY <3>1
      <4> QED
        BY <3>1, <4>1
    <3>3. g[m] = g[m - 1] \o q[m]
      <4> HIDE DEF m
      <4>1. m \in 1..Len(q) /\ m # 1
        BY <3>1 DEF m
      <4> QED
        BY <1>4, <4>1 DEF Steps
    <3>4. h[i] = h[i - 1] \o q[m]
      BY <1>2, <1>5, <2>1, <2>3 DEF Steps
    <3>5. (a \o h[i - 1]) \o q[m] = a \o (h[i - 1] \o q[m])
      <4>1. h[i - 1] \in Seq(S) /\ q[m] \in Seq(S)
        BY <1>1, <3>1
      <4> HIDE DEF m
      <4> QED
        BY <1>0, <4>1, Zenon
    <3> QED
      BY <2>1, <3>2, <3>3, <3>4, <3>5
  <2> QED
    BY <2>2, <2>3
<1> QED
  BY <1>7, <1>8
-----------------------------------------------------------------------------
\* ---- n-grams and coverage ----

LEMMA NGramsFinite ==
  ASSUME NEW S, NEW t \in Seq(S)
  PROVE  IsFiniteSet(NGrams(t)) /\ Cardinality(NGrams(t)) \in Nat
<1> DEFINE P == 1..(Len(t) - N + 1)
           f == [i \in P |-> SubSeq(t, i, i + N - 1)]
<1>1. Len(t) - N + 1 \in Int /\ IsFiniteSet(P)
  <2>1. Len(t) - N + 1 \in Int
    BY LenProperties, CrossCallAssumption
  <2> QED
    BY <2>1, FS_Interval
<1>2. f \in Surjection(P, NGrams(t))
  <2>1. NGrams(t) = {f[i] : i \in P}
    BY DEF NGrams
  <2> QED
    BY <2>1 DEF Surjection
<1>3. IsFiniteSet(NGrams(t))
  <2> HIDE DEF P, f
  <2> QED
    BY <1>1, <1>2, FS_Surjection
<1> QED
  BY <1>3, FS_CardinalityType

LEMMA NGramsSuffix ==
  ASSUME NEW S, NEW a \in Seq(S), NEW b \in Seq(S)
  PROVE  NGrams(b) \subseteq NGrams(a \o b)
<1>1. /\ a \o b \in Seq(S) /\ Len(a \o b) = Len(a) + Len(b)
      /\ \A i \in 1..(Len(a) + Len(b)) : (a \o b)[i] = IF i <= Len(a) THEN a[i] ELSE b[i - Len(a)]
  BY ConcatProperties
<1>2. Len(a) \in Nat /\ Len(b) \in Nat /\ N \in Nat \ {0}
  BY LenProperties, CrossCallAssumption
<1>3. ASSUME NEW i \in 1..(Len(b) - N + 1)
      PROVE  /\ i + Len(a) \in 1..(Len(a \o b) - N + 1)
             /\ SubSeq(b, i, i + N - 1)
                  = SubSeq(a \o b, i + Len(a), (i + Len(a)) + N - 1)
  <2> DEFINE k == i + Len(a)
             u == SubSeq(b, i, i + N - 1)
             v == SubSeq(a \o b, k, k + N - 1)
  <2>1. k \in 1..(Len(a \o b) - N + 1)
    BY <1>1, <1>2
  <2>2. /\ u \in Seq(S) /\ Len(u) = N
        /\ \A j \in 1..N : u[j] = b[i + j - 1]
    <3>1. \A j \in i..(i + N - 1) : b[j] \in S
      BY <1>2, ElementOfSeq
    <3>2. i \in Int /\ i + N - 1 \in Int /\ i <= i + N - 1 /\ (i + N - 1) - i + 1 = N
      BY <1>2
    <3> QED
      BY <3>1, <3>2, SubSeqProperties
  <2>3. /\ v \in Seq(S) /\ Len(v) = N
        /\ \A j \in 1..N : v[j] = (a \o b)[k + j - 1]
    <3> DEFINE ab == a \o b
    <3>1. \A j \in k..(k + N - 1) : ab[j] \in S
      <4>1. \A j \in k..(k + N - 1) : j \in 1..Len(ab)
        BY <1>1, <1>2
      <4>2. ab \in Seq(S)
        BY <1>1
      <4> HIDE DEF ab, k
      <4> QED
        BY <4>1, <4>2, ElementOfSeq
    <3>2. k \in Int /\ k + N - 1 \in Int /\ k <= k + N - 1 /\ (k + N - 1) - k + 1 = N
      BY <1>2, <2>1
    <3>3. /\ SubSeq(ab, k, k + N - 1) \in Seq(S) /\ Len(SubSeq(ab, k, k + N - 1)) = N
          /\ \A j \in 1..N : SubSeq(ab, k, k + N - 1)[j] = ab[k + j - 1]
      <4> HIDE DEF ab, k
      <4> QED
        BY <3>1, <3>2, SubSeqProperties
    <3> QED
      BY <3>3
  <2>4. \A j \in 1..N : u[j] = v[j]
    <3> TAKE j \in 1..N
    <3>1. k + j - 1 \in 1..(Len(a) + Len(b)) /\ ~(k + j - 1 <= Len(a))
          /\ (k + j - 1) - Len(a) = i + j - 1
      BY <1>2
    <3>2. (a \o b)[k + j - 1] = b[i + j - 1]
      BY <1>1, <3>1
    <3> QED
      BY <2>2, <2>3, <3>2
  <2>5. u = v
    <3> HIDE DEF u, v
    <3> QED
      BY <2>2, <2>3, <2>4, SeqEqual
  <2> QED
    BY <2>1, <2>5
<1> QED
  BY <1>3 DEF NGrams

\* More of a source is not less than the threshold's part of it.
LEMMA ReachesMonotone ==
  ASSUME NEW a \in Nat, NEW b \in Nat, NEW w \in Nat, a <= b, Reaches(a, w)
  PROVE  Reaches(b, w)
<1>1. Den \in Nat /\ Num \in Nat
  BY CrossCallAssumption
<1>2. PICK c \in Nat : b = a + c
  <2>1. b - a \in Nat /\ b = a + (b - a)
    OBVIOUS
  <2> QED
    BY <2>1
<1>3. Den * b = Den * a + Den * c /\ Den * c \in Nat /\ Den * a \in Nat /\ Num * w \in Nat
  BY <1>1, <1>2
<1> DEFINE x == Den * a
           y == Den * c
           z == Num * w
<1>4. x >= z
  BY DEF Reaches
<1>5. x + y >= z
  <2>1. x \in Nat /\ y \in Nat /\ z \in Nat
    BY <1>3
  <2> HIDE DEF x, y, z
  <2> QED
    BY <1>4, <2>1
<1> QED
  BY <1>3, <1>5 DEF Reaches

LEMMA ReachesNothing ==
  ASSUME NEW w \in Nat \ {0}
  PROVE  ~Reaches(0, w)
<1>1. Den \in Nat /\ Num \in Nat \ {0}
  BY CrossCallAssumption
<1>2. Den * 0 = 0
  BY <1>1
<1>3. Num * w > 0
  BY <1>1
<1>4. ~(Den * 0 >= Num * w)
  BY <1>1, <1>2, <1>3
<1> QED
  BY <1>4 DEF Reaches

\* No text makes nothing of a source.
LEMMA NotOverNothing ==
  ASSUME NEW S, NEW s \in Seq(S)
  PROVE  ~Over(s, <<>>)
<1> SUFFICES ASSUME NGrams(s) # {} PROVE ~Over(s, <<>>)
  BY DEF Over
<1>1. Cardinality(NGrams(s)) \in Nat \ {0}
  BY NGramsFinite, FS_EmptySet
<1>2. Len(s) \in Nat \ {0}
  <2>1. Len(s) \in Nat /\ N \in Nat \ {0}
    BY LenProperties, CrossCallAssumption
  <2>2. PICK i : i \in 1..(Len(s) - N + 1)
    BY DEF NGrams
  <2> QED
    BY <2>1, <2>2
<1>3. Hits(s, FlattenSeq(<<>>)) = 0
  <2>1. FlattenSeq(<<>>) = <<>>
    BY DEF FlattenSeq
  <2>2. NGrams(<<>>) = {}
    <3>1. Len(<<>>) - N + 1 < 1
      BY EmptySeq, CrossCallAssumption
    <3>2. \A i : i \notin 1..(Len(<<>>) - N + 1)
      BY <3>1, CrossCallAssumption
    <3> QED
      BY <3>2 DEF NGrams
  <2>3. NGrams(s) \cap NGrams(<<>>) = {}
    BY <2>2
  <2> QED
    BY <2>1, <2>3, FS_EmptySet DEF Hits
<1> DEFINE each == UNION {NGrams(<<>>[i]) : i \in DOMAIN <<>>}
           found == UNION {UNION {j..(j + Len(<<>>[i]) - 1) : j \in Occurrences(<<>>[i], s)} :
                             i \in DOMAIN <<>>}
<1>4. Cardinality(NGrams(s) \cap each) = 0 /\ Cardinality(found) = 0
  <2>1. each = {} /\ found = {}
    OBVIOUS
  <2>2. NGrams(s) \cap each = {}
    BY <2>1
  <2> QED
    BY <2>1, <2>2, FS_EmptySet
<1>5. ~Reaches(0, Cardinality(NGrams(s))) /\ ~Reaches(0, Len(s))
  BY <1>1, <1>2, ReachesNothing
<1>6. Over(s, <<>>) => \/ Reaches(Hits(s, FlattenSeq(<<>>)), Cardinality(NGrams(s)))
                       \/ Reaches(Cardinality(NGrams(s) \cap each), Cardinality(NGrams(s)))
                       \/ Reaches(Cardinality(found), Len(s))
  BY DEF Over
<1> QED
  BY <1>3, <1>4, <1>5, <1>6

\* A source that the last texts cover is covered by all of them.
LEMMA OverSuffix ==
  ASSUME NEW S, NEW s \in Seq(S), NEW q \in Seq(Seq(S)), NEW k \in 1..(Len(q) + 1),
         Over(s, SubSeq(q, k, Len(q)))
  PROVE  Over(s, q)
<1> DEFINE r == SubSeq(q, k, Len(q))
<1>1. Len(q) \in Nat /\ DOMAIN q = 1..Len(q) /\ \A i \in 1..Len(q) : q[i] \in Seq(S)
  BY LenProperties, ElementOfSeq
<1>2. k \in 1..Len(q)
  <2> SUFFICES ASSUME k = Len(q) + 1 PROVE FALSE
    BY <1>1
  <2>1. r = <<>>
    BY <1>1, SubSeqEmpty
  <2> QED
    BY <2>1, NotOverNothing
<1>3. /\ r \in Seq(Seq(S)) /\ Len(r) = Len(q) - k + 1
      /\ \A i \in 1..Len(r) : r[i] = q[k + i - 1]
  BY <1>1, <1>2, SubSeqProperties, SMTT(30)
<1>4. /\ DOMAIN r = 1..Len(r)
      /\ \A i \in 1..Len(r) : k + i - 1 \in 1..Len(q)
  <2>1. DOMAIN r = 1..Len(r)
    <3> HIDE DEF r
    <3> QED
      BY <1>3, LenProperties
  <2> QED
    BY <1>1, <1>2, <1>3, <2>1
<1>5. Over(s, r)
  OBVIOUS
<1> HIDE DEF r
<1> DEFINE each(t) == UNION {NGrams(t[i]) : i \in DOMAIN t}
           found(t) == UNION {UNION {j..(j + Len(t[i]) - 1) : j \in Occurrences(t[i], s)} :
                                i \in DOMAIN t}
           size == Cardinality(NGrams(s))
<1>6. /\ NGrams(s) # {} /\ IsFiniteSet(NGrams(s)) /\ size \in Nat /\ Len(s) \in Nat
  BY <1>5, NGramsFinite, LenProperties DEF Over
<1>7. ASSUME NEW A, NEW B, A \subseteq B, B \subseteq NGrams(s), Reaches(Cardinality(A), size)
      PROVE  Reaches(Cardinality(B), size)
  <2>1. IsFiniteSet(B)
    BY <1>6, <1>7, FS_Subset
  <2>2. IsFiniteSet(A) /\ Cardinality(A) <= Cardinality(B)
    BY <1>7, <2>1, FS_Subset
  <2>3. Cardinality(A) \in Nat /\ Cardinality(B) \in Nat
    BY <2>1, <2>2, FS_CardinalityType
  <2> HIDE DEF size
  <2> QED
    BY <1>6, <1>7, <2>2, <2>3, ReachesMonotone
<1>8. CASE Reaches(Hits(s, FlattenSeq(r)), size)
  <2>1. PICK a \in Seq(S) : FlattenSeq(r) \in Seq(S) /\ FlattenSeq(q) = a \o FlattenSeq(r)
    BY <1>2, FlattenSuffix DEF r
  <2>2. NGrams(FlattenSeq(r)) \subseteq NGrams(FlattenSeq(q))
    BY <2>1, NGramsSuffix
  <2>3. Reaches(Hits(s, FlattenSeq(q)), size)
    BY <1>7, <1>8, <2>2 DEF Hits
  <2> QED
    BY <1>6, <2>3 DEF Over
<1>9. CASE Reaches(Cardinality(NGrams(s) \cap each(r)), size)
  <2>1. each(r) \subseteq each(q)
    BY <1>1, <1>3, <1>4
  <2>2. Reaches(Cardinality(NGrams(s) \cap each(q)), size)
    <3> HIDE DEF each, size
    <3> QED
      BY <1>7, <1>9, <2>1
  <2> QED
    BY <1>6, <2>2 DEF Over
<1>10. CASE Reaches(Cardinality(found(r)), Len(s))
  <2>1. found(r) \subseteq found(q)
    <3> DEFINE at(i, t) == UNION {j..(j + Len(t[i]) - 1) : j \in Occurrences(t[i], s)}
    <3>1. \A i \in 1..Len(r) : at(i, r) = at(k + i - 1, q)
      BY <1>3
    <3>2. found(r) = UNION {at(i, r) : i \in 1..Len(r)} /\ found(q) = UNION {at(i, q) : i \in 1..Len(q)}
      BY <1>1, <1>4
    <3> HIDE DEF at, found
    <3> QED
      BY <1>4, <3>1, <3>2
  <2>2. found(q) \subseteq 1..Len(s)
    <3> SUFFICES ASSUME NEW i \in 1..Len(q), NEW j \in Occurrences(q[i], s),
                        NEW x \in j..(j + Len(q[i]) - 1)
                 PROVE  x \in 1..Len(s)
      BY <1>1
    <3>1. Len(q[i]) \in Nat
      BY <1>1, LenProperties
    <3>2. j \in 1..(Len(s) - Len(q[i]) + 1)
      BY DEF Occurrences
    <3> QED
      BY <1>6, <3>1, <3>2
  <2>3. IsFiniteSet(1..Len(s))
    BY <1>6, FS_Interval
  <2> HIDE DEF found
  <2>4. IsFiniteSet(found(q)) /\ IsFiniteSet(found(r)) /\ Cardinality(found(r)) <= Cardinality(found(q))
    <3>1. IsFiniteSet(found(q))
      BY <2>2, <2>3, FS_Subset
    <3> QED
      BY <2>1, <3>1, FS_Subset
  <2>5. Cardinality(found(r)) \in Nat /\ Cardinality(found(q)) \in Nat
    BY <2>4, FS_CardinalityType
  <2>6. Reaches(Cardinality(found(q)), Len(s))
    BY <1>6, <1>10, <2>4, <2>5, ReachesMonotone
  <2> QED
    BY <1>6, <2>6 DEF Over, found
<1>11. \/ Reaches(Hits(s, FlattenSeq(r)), size)
       \/ Reaches(Cardinality(NGrams(s) \cap each(r)), size)
       \/ Reaches(Cardinality(found(r)), Len(s))
  BY <1>5 DEF Over
<1> QED
  BY <1>8, <1>9, <1>10, <1>11

-----------------------------------------------------------------------------
\* ---- what a call tells of a source ----

LEMMA FirstMaxIs ==
  ASSUME NEW K, K \subseteq Nat, K # {}, NEW keys \in [K -> Nat],
         NEW b \in Nat, \A i \in K : keys[i] <= b
  PROVE  /\ FirstMax(keys) \in K
         /\ \A j \in K : keys[j] <= keys[FirstMax(keys)]
<1> DEFINE P(i) == \A j \in DOMAIN keys : keys[i] > keys[j] \/ (keys[i] = keys[j] /\ i <= j)
           T == {keys[i] : i \in K}
<1>1. PICK x \in T : \A y \in T : y <= x
  <2>1. T \subseteq Nat /\ T # {} /\ \A y \in T : y <= b
    OBVIOUS
  <2> HIDE DEF T
  <2> QED
    BY <2>1, HasMax
<1> DEFINE U == {i \in K : keys[i] = x}
<1>2. PICK i \in U : \A j \in U : i <= j
  <2>1. U \subseteq Nat /\ U # {}
    BY <1>1
  <2> HIDE DEF U
  <2> QED
    BY <2>1, HasMin
<1>3. i \in DOMAIN keys /\ P(i)
  <2>1. \A j \in K : keys[j] \in Nat /\ keys[j] <= keys[i] /\ (keys[j] = keys[i] => i <= j)
    BY <1>1, <1>2
  <2> QED
    BY <1>2, <2>1
<1>4. FirstMax(keys) = CHOOSE m \in DOMAIN keys : P(m)
  BY DEF FirstMax
<1>5. PICK m : m = CHOOSE n \in DOMAIN keys : P(n)
  OBVIOUS
<1>6. m \in K /\ P(m)
  <2> HIDE DEF P
  <2> QED
    BY <1>3, <1>5
<1>7. \A j \in K : keys[j] <= keys[m]
  BY <1>6
<1> QED
  BY <1>4, <1>5, <1>6, <1>7

\* The evidence is one of the candidates.
LEMMA EvidenceIsText ==
  ASSUME NEW s \in Seq(Symbols), NEW p \in Payloads
  PROVE  Evidence(s, p) \in Seq(Symbols)
<1> DEFINE c == <<p.values>> \o p.inner
           parts == {i \in DOMAIN c : c[i] # <<>> /\ Occurs(c[i], s)}
<1>1. c \in Seq(Seq(Symbols)) /\ c # <<>>
  <2>1. <<p.values>> \in Seq(Seq(Symbols)) /\ p.inner \in Seq(Seq(Symbols)) /\ Len(<<p.values>>) = 1
    BY CrossCallAssumption
  <2>2. c \in Seq(Seq(Symbols)) /\ Len(c) = 1 + Len(p.inner)
    BY <2>1, ConcatProperties
  <2>3. Len(c) # 0
    BY <2>1, <2>2, LenProperties
  <2> QED
    BY <2>2, <2>3, EmptySeq
<1>2. Evidence(s, p) = IF parts # {} THEN c[FirstMax([i \in parts |-> Len(c[i])])]
                       ELSE c[FirstMax([i \in DOMAIN c |-> Hits(s, c[i])])]
  BY DEF Evidence
<1> DEFINE D == DOMAIN c
<1>3. /\ Len(c) \in Nat \ {0} /\ D = 1..Len(c) /\ D \subseteq Nat /\ D # {}
      /\ \A i \in D : c[i] \in Seq(Symbols)
  <2> HIDE DEF c
  <2> QED
    BY <1>1, EmptySeq, LenProperties, ElementOfSeq, SMTT(30)
<1> HIDE DEF c
<1>4. Len(s) \in Nat /\ Cardinality(NGrams(s)) \in Nat
  BY LenProperties, NGramsFinite
<1>5. CASE parts # {}
  <2> DEFINE k == [i \in parts |-> Len(c[i])]
  <2>1. \A i \in parts : Len(c[i]) \in Nat /\ Len(c[i]) <= Len(s)
    <3> TAKE i \in parts
    <3>1. Len(c[i]) \in Nat
      BY <1>3, LenProperties
    <3>2. PICK j : j \in Occurrences(c[i], s)
      BY DEF Occurs
    <3>3. j \in 1..(Len(s) - Len(c[i]) + 1)
      BY <3>2 DEF Occurrences
    <3> QED
      BY <1>4, <3>1, <3>3
  <2>2. k \in [parts -> Nat] /\ \A i \in parts : k[i] <= Len(s)
    BY <2>1
  <2>3. parts \subseteq Nat
    BY <1>3
  <2>4. FirstMax(k) \in parts
    <3> HIDE DEF parts, k
    <3> QED
      BY <1>4, <1>5, <2>2, <2>3, FirstMaxIs
  <2> QED
    BY <1>2, <1>3, <1>5, <2>4
<1>6. CASE parts = {}
  <2> DEFINE k == [i \in D |-> Hits(s, c[i])]
  <2>1. \A i \in D : Hits(s, c[i]) \in Nat /\ Hits(s, c[i]) <= Cardinality(NGrams(s))
    <3> TAKE i \in D
    <3>1. IsFiniteSet(NGrams(s))
      BY NGramsFinite
    <3>2. IsFiniteSet(NGrams(s) \cap NGrams(c[i]))
          /\ Cardinality(NGrams(s) \cap NGrams(c[i])) <= Cardinality(NGrams(s))
      BY <3>1, FS_Intersection
    <3> QED
      BY <3>2, FS_CardinalityType DEF Hits
  <2>2. k \in [D -> Nat] /\ \A i \in D : k[i] <= Cardinality(NGrams(s))
    BY <2>1
  <2>3. FirstMax(k) \in D
    <3> HIDE DEF D, k
    <3> QED
      BY <1>3, <1>4, <2>2, FirstMaxIs
  <2> QED
    BY <1>2, <1>3, <1>6, <2>3
<1> QED
  BY <1>5, <1>6
=============================================================================
