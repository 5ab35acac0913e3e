-------------------------- MODULE ApproveCliProofs --------------------------
(***************************************************************************)
(* What ApproveCli guarantees for lines of any length, pieces of any size  *)
(* and any number of lines: the types of its variables, and that the lines *)
(* shown are those the broker sent, whole and in order.                    *)
(*                                                                         *)
(* Byte j of line k + 1 comes k * LineLen + j bytes into the stream.  The  *)
(* invariant says of the buffer and the wire together that they are the    *)
(* stream from the first line on that is not shown.                        *)
(***************************************************************************)
EXTENDS ApproveCli, Extremes, FiniteSetTheorems, SequenceTheorems, TLAPS

-----------------------------------------------------------------------------
\* ---- pieces of sequences ----

\* The first m elements and the others.
LEMMA Cut ==
  ASSUME NEW S, NEW s \in Seq(S), NEW m \in 1..Len(s)
  PROVE  /\ SubSeq(s, 1, m) \in Seq(S) /\ SubSeq(s, m + 1, Len(s)) \in Seq(S)
         /\ s = SubSeq(s, 1, m) \o SubSeq(s, m + 1, Len(s))
<1>1. /\ Len(s) \in Nat /\ 1 \in 1..(Len(s) + 1) /\ m \in 0..Len(s)
      /\ Len(s) \in m..Len(s) /\ 1 - 1 = 0
  BY LenProperties
<1>2. /\ \A i \in 1..m : s[i] \in S
      /\ \A i \in (m + 1)..Len(s) : s[i] \in S
  BY <1>1, ElementOfSeq
<1>3. SubSeq(s, 1, m) \in Seq(S) /\ SubSeq(s, m + 1, Len(s)) \in Seq(S)
  BY <1>1, <1>2, SubSeqProperties
<1>4. SubSeq(s, 1, m) \o SubSeq(s, m + 1, Len(s)) = SubSeq(s, 1, Len(s))
  BY <1>1, ConcatAdjacentSubSeq
<1> QED
  BY <1>3, <1>4, SubSeqFull

\* What is left after the first d elements.
LEMMA Rest ==
  ASSUME NEW S, NEW s \in Seq(S), NEW t \in Seq(S), NEW d \in Nat, d <= Len(s)
  PROVE  /\ SubSeq(s, d + 1, Len(s)) \in Seq(S)
         /\ Len(SubSeq(s, d + 1, Len(s))) = Len(s) - d
         /\ \A i \in 1..(Len(s) - d) : SubSeq(s, d + 1, Len(s))[i] = s[d + i]
         /\ SubSeq(s \o t, d + 1, Len(s \o t)) = SubSeq(s, d + 1, Len(s)) \o t
<1> DEFINE R(q) == /\ SubSeq(q, d + 1, Len(q)) \in Seq(S)
                   /\ Len(SubSeq(q, d + 1, Len(q))) = Len(q) - d
                   /\ \A i \in 1..(Len(q) - d) : SubSeq(q, d + 1, Len(q))[i] = q[d + i]
<1>1. ASSUME NEW q \in Seq(S), d <= Len(q) PROVE R(q)
  <2>1. Len(q) \in Nat
    BY LenProperties
  <2>2. \A i \in (d + 1)..Len(q) : q[i] \in S
    BY <2>1, ElementOfSeq
  <2>3. /\ SubSeq(q, d + 1, Len(q)) \in Seq(S)
        /\ Len(SubSeq(q, d + 1, Len(q))) = IF d + 1 <= Len(q) THEN Len(q) - (d + 1) + 1 ELSE 0
        /\ \A i \in 1..(Len(q) - (d + 1) + 1) : SubSeq(q, d + 1, Len(q))[i] = q[d + 1 + i - 1]
    BY <2>1, <2>2, SubSeqProperties
  <2>4. Len(q) - (d + 1) + 1 = Len(q) - d /\ \A i \in Nat : d + 1 + i - 1 = d + i
    BY <2>1
  <2>5. (IF d + 1 <= Len(q) THEN Len(q) - (d + 1) + 1 ELSE 0) = Len(q) - d
    BY <1>1, <2>1
  <2>6. \A i \in 1..(Len(q) - d) : SubSeq(q, d + 1, Len(q))[i] = q[d + i]
    <3>1. 1..(Len(q) - d) \subseteq Nat
      BY <2>1
    <3> QED
      BY <2>3, <2>4, <3>1, Zenon
  <2>7. Len(SubSeq(q, d + 1, Len(q))) = Len(q) - d
    <3> DEFINE l == Len(SubSeq(q, d + 1, Len(q)))
    <3>1. l = IF d + 1 <= Len(q) THEN Len(q) - (d + 1) + 1 ELSE 0
      BY <2>3
    <3> HIDE DEF l
    <3>2. l = Len(q) - d
      BY <2>5, <3>1
    <3> QED
      BY <3>2 DEF l
  <2> QED
    BY <2>3, <2>6, <2>7
<1>2. /\ s \o t \in Seq(S) /\ Len(s \o t) = Len(s) + Len(t) /\ Len(s) \in Nat /\ Len(t) \in Nat
      /\ \A i \in 1..(Len(s) + Len(t)) : (s \o t)[i] = IF i <= Len(s) THEN s[i] ELSE t[i - Len(s)]
  BY ConcatProperties, LenProperties
<1>3. R(s) /\ R(s \o t)
  <2>1. d <= Len(s \o t)
    BY <1>2
  <2> HIDE DEF R
  <2> QED
    BY <1>1, <1>2, <2>1
<1>4. SubSeq(s \o t, d + 1, Len(s \o t)) = SubSeq(s, d + 1, Len(s)) \o t
  <2> DEFINE u == SubSeq(s, d + 1, Len(s))
             v == SubSeq(s \o t, d + 1, Len(s \o t))
  <2>1. /\ u \in Seq(S) /\ Len(u) = Len(s) - d
        /\ \A i \in 1..(Len(s) - d) : u[i] = s[d + i]
    BY <1>3
  <2>2. /\ v \in Seq(S) /\ Len(v) = (Len(s) + Len(t)) - d
        /\ \A i \in 1..((Len(s) + Len(t)) - d) : v[i] = (s \o t)[d + i]
    <3>1. /\ v \in Seq(S) /\ Len(v) = Len(s \o t) - d
          /\ \A i \in 1..(Len(s \o t) - d) : v[i] = (s \o t)[d + i]
      BY <1>3
    <3> HIDE DEF v
    <3> QED
      BY <1>2, <3>1, Zenon
  <2> HIDE DEF u, v
  <2>3. /\ u \o t \in Seq(S) /\ Len(u \o t) = Len(u) + Len(t)
        /\ \A i \in 1..(Len(u) + Len(t)) : (u \o t)[i] = IF i <= Len(u) THEN u[i] ELSE t[i - Len(u)]
    BY <2>1, ConcatProperties
  <2>4. Len(v) = Len(u \o t) /\ Len(v) \in Nat
    BY <1>2, <2>1, <2>2, <2>3
  <2>5. ASSUME NEW i \in 1..Len(v) PROVE v[i] = (u \o t)[i]
    <3>1. i \in Nat /\ 1 <= i /\ d + i <= Len(s) + Len(t) /\ i \in 1..((Len(s) + Len(t)) - d)
          /\ d + i \in 1..(Len(s) + Len(t)) /\ i \in 1..(Len(u) + Len(t))
      BY <1>2, <2>1, <2>2, <2>4
    <3>2. v[i] = (s \o t)[d + i]
      BY <2>2, <3>1
    <3>3. (s \o t)[d + i] = IF d + i <= Len(s) THEN s[d + i] ELSE t[(d + i) - Len(s)]
      BY <1>2, <3>1, Zenon
    <3>4. (u \o t)[i] = IF i <= Len(u) THEN u[i] ELSE t[i - Len(u)]
      BY <2>3, <3>1, Zenon
    <3>5. CASE d + i <= Len(s)
      <4>1. i \in 1..(Len(s) - d) /\ i <= Len(u)
        BY <1>2, <2>1, <3>1, <3>5
      <4> QED
        BY <2>1, <3>2, <3>3, <3>4, <3>5, <4>1, Zenon
    <3>6. CASE ~(d + i <= Len(s))
      <4>1. ~(i <= Len(u)) /\ (d + i) - Len(s) = i - Len(u)
        BY <1>2, <2>1, <3>1, <3>6
      <4> QED
        BY <3>2, <3>3, <3>4, <3>6, <4>1, Zenon
    <3> QED
      BY <3>5, <3>6
  <2>6. v = u \o t
    BY <2>2, <2>3, <2>4, <2>5, SeqEqual
  <2> QED
    BY <2>6 DEF u, v
<1> QED
  BY <1>3, <1>4

After(s, d) == SubSeq(s, d + 1, Len(s))

LEMMA AfterConcat ==
  ASSUME NEW S, NEW s \in Seq(S), NEW t \in Seq(S), NEW d \in Nat, d <= Len(s)
  PROVE  After(s \o t, d) = After(s, d) \o t
  BY Rest DEF After

LEMMA Regroup ==
  ASSUME NEW S, NEW f \in Seq(S), NEW g \in Seq(S), NEW u \in Seq(S), NEW v \in Seq(S)
  PROVE  f \o ((g \o u) \o v) = ((f \o g) \o u) \o v
<1>1. g \o u \in Seq(S)
  BY ConcatProperties
<1>2. f \o ((g \o u) \o v) = (f \o (g \o u)) \o v
  BY <1>1, ConcatAssociative, SMTT(30)
<1>3. f \o (g \o u) = (f \o g) \o u
  BY ConcatAssociative
<1> QED
  BY <1>2, <1>3, Zenon

LEMMA Constantly ==
  ASSUME NEW S, NEW x \in S, NEW l \in Nat
  PROVE  /\ [j \in 1..l |-> x] \in Seq(S) /\ Len([j \in 1..l |-> x]) = l
         /\ \A j \in 1..l : [i \in 1..l |-> x][j] = x
  OBVIOUS

-----------------------------------------------------------------------------
\* ---- multiples of LineLen ----

LEMMA Multiples ==
  ASSUME NEW a \in Nat, NEW b \in Nat
  PROVE  /\ a * LineLen \in Nat /\ (a + b) * LineLen = a * LineLen + b * LineLen
         /\ (a + 1) * LineLen = a * LineLen + LineLen
         /\ a < b => a * LineLen + LineLen <= b * LineLen
         /\ a <= b => a * LineLen <= b * LineLen
         /\ LineLen \in Nat \ {0}
         /\ a <= a * LineLen
<1>1. LineLen \in Nat \ {0}
  BY CliAssumption
<1>2. a * LineLen \in Nat /\ b * LineLen \in Nat
  BY <1>1
<1>3. (a + b) * LineLen = a * LineLen + b * LineLen /\ (a + 1) * LineLen = a * LineLen + LineLen
  BY <1>1
<1>4. ASSUME a < b PROVE a * LineLen + LineLen <= b * LineLen
  <2> DEFINE c == b - (a + 1)
  <2>1. c \in Nat /\ b = (a + 1) + c
    BY <1>4
  <2>2. b * LineLen = (a + 1) * LineLen + c * LineLen /\ c * LineLen \in Nat
    <3> HIDE DEF c
    <3> QED
      BY <1>1, <2>1
  <2> HIDE DEF c
  <2> QED
    BY <1>1, <1>2, <1>3, <2>2
<1>5. ASSUME a <= b PROVE a * LineLen <= b * LineLen
  <2>1. CASE a = b
    BY <1>2, <2>1
  <2>2. CASE a < b
    BY <1>1, <1>2, <1>4, <2>2
  <2> QED
    BY <1>5, <2>1, <2>2
<1>6. a <= a * LineLen
  <2> DEFINE c == LineLen - 1
  <2>1. c \in Nat /\ LineLen = c + 1
    BY <1>1
  <2> HIDE DEF c
  <2>2. a * LineLen = a * c + a /\ a * c \in Nat
    BY <2>1
  <2> QED
    BY <2>2
<1> QED
  BY <1>1, <1>2, <1>3, <1>4, <1>5, <1>6

\* Every place of the stream is in one line.
LEMMA InALine ==
  ASSUME NEW i \in Nat \ {0}
  PROVE  \E k \in Nat, j \in 1..LineLen : i = k * LineLen + j
<1> DEFINE T == {m \in Nat : i <= m * LineLen}
<1>1. PICK m \in T : \A y \in T : m <= y
  <2>1. i \in T /\ T \subseteq Nat
    BY Multiples
  <2> HIDE DEF T
  <2> QED
    BY <2>1, HasMin
<1>2. m \in Nat /\ i <= m * LineLen /\ LineLen \in Nat \ {0}
  BY CliAssumption
<1>3. m # 0
  BY <1>2
<1>4. m - 1 \in Nat /\ m - 1 \notin T
  BY <1>1, <1>2, <1>3
<1> PICK k \in Nat : k = m - 1
  BY <1>4
<1>5. k * LineLen < i /\ k * LineLen \in Nat
  BY <1>2, <1>4, Multiples
<1>6. m * LineLen = k * LineLen + LineLen
  <2>1. m = k + 1
    BY <1>2
  <2> QED
    BY <2>1, Multiples
<1> DEFINE j == i - k * LineLen
<1>7. j \in 1..LineLen /\ i = k * LineLen + j
  BY <1>2, <1>5, <1>6
<1> QED
  BY <1>7

\* A place is in one line only.
LEMMA OneLine ==
  ASSUME NEW k \in Nat, NEW m \in Nat, NEW j \in 1..LineLen, NEW h \in 1..LineLen,
         k * LineLen + j = m * LineLen + h
  PROVE  k = m /\ j = h
<1>1. k * LineLen \in Nat /\ m * LineLen \in Nat /\ LineLen \in Nat \ {0}
  BY Multiples
<1>2. ~(k < m)
  <2>1. k < m => k * LineLen + LineLen <= m * LineLen
    BY Multiples
  <2> QED
    BY <1>1, <2>1
<1>3. ~(m < k)
  <2>1. m < k => m * LineLen + LineLen <= k * LineLen
    BY Multiples
  <2> QED
    BY <1>1, <2>1
<1>4. k = m
  BY <1>2, <1>3
<1> QED
  BY <1>1, <1>4

LEMMA WholeLines ==
  ASSUME NEW x \in Nat
  PROVE  \E q \in Nat : q * LineLen <= x /\ x < q * LineLen + LineLen
<1>1. PICK q \in Nat, j \in 1..LineLen : x + 1 = q * LineLen + j
  BY InALine
<1>2. q * LineLen \in Nat /\ LineLen \in Nat
  BY Multiples
<1> QED
  BY <1>1, <1>2

\* The ends of k lines are k places.
LEMMA EndsCount ==
  ASSUME NEW k \in Nat
  PROVE  /\ IsFiniteSet({m * LineLen : m \in 1..k})
         /\ Cardinality({m * LineLen : m \in 1..k}) = k
<1> DEFINE S == {m * LineLen : m \in 1..k}
           f == [m \in 1..k |-> m * LineLen]
<1>1. f \in Bijection(1..k, S)
  <2>1. \A m, n \in 1..k : m * LineLen = n * LineLen => m = n
    <3> SUFFICES ASSUME NEW m \in 1..k, NEW n \in 1..k, m * LineLen = n * LineLen PROVE m = n
      OBVIOUS
    <3>1. LineLen \in 1..LineLen /\ m \in Nat /\ n \in Nat
      BY CliAssumption
    <3> QED
      BY <3>1, OneLine
  <2> QED
    BY <2>1 DEF Bijection, Injection, Surjection, IsInjective
<1> HIDE DEF f, S
<1>2. ExistsBijection(1..k, S)
  BY <1>1 DEF ExistsBijection
<1> QED
  BY <1>2, FS_NatBijection, FS_CountingElements DEF S

-----------------------------------------------------------------------------
\* ---- the stream from the (n + 1)-th line on ----

Follows(b, n) ==
  \A k \in Nat, j \in 1..LineLen :
    k * LineLen + j <= Len(b) => b[k * LineLen + j] = Byte(n + k + 1, j = LineLen)

LEMMA ByteEnd ==
  ASSUME NEW m, NEW e \in BOOLEAN
  PROVE  Byte(m, e).end = e
  BY DEF Byte

LEMMA NewlinesAre ==
  ASSUME NEW b \in Seq(Bytes), NEW n \in Nat, NEW q \in Nat, Follows(b, n),
         q * LineLen <= Len(b), Len(b) < q * LineLen + LineLen
  PROVE  Newlines(b) = {m * LineLen : m \in 1..q}
<1>1. LineLen \in Nat \ {0} /\ LineLen \in 1..LineLen /\ Len(b) \in Nat /\ DOMAIN b = 1..Len(b)
  BY CliAssumption
<1>2. ASSUME NEW i \in Newlines(b) PROVE i \in {m * LineLen : m \in 1..q}
  <2>1. i \in Nat \ {0} /\ i <= Len(b) /\ b[i].end
    BY <1>1 DEF Newlines
  <2>2. PICK k \in Nat, j \in 1..LineLen : i = k * LineLen + j
    BY <2>1, InALine
  <2>3. b[i] = Byte(n + k + 1, j = LineLen)
    BY <2>1, <2>2 DEF Follows
  <2>4. j = LineLen
    <3>1. Byte(n + k + 1, j = LineLen).end = (j = LineLen)
      BY ByteEnd
    <3> QED
      BY <2>1, <2>3, <3>1, Zenon
  <2>5. i = (k + 1) * LineLen
    BY <2>2, <2>4, Multiples
  <2>6. ~(q < k + 1)
    <3>1. q < k + 1 => q * LineLen + LineLen <= (k + 1) * LineLen
      BY Multiples
    <3>2. k + 1 \in Nat
      OBVIOUS
    <3>3. (k + 1) * LineLen \in Nat /\ q * LineLen \in Nat
      BY <3>2, Multiples
    <3> QED
      BY <1>1, <2>1, <2>5, <3>1, <3>3
  <2>7. k + 1 \in 1..q
    BY <2>6
  <2> QED
    BY <2>5, <2>7
<1>3. ASSUME NEW m \in 1..q PROVE m * LineLen \in Newlines(b)
  <2> PICK k \in Nat : m = k + 1
    BY SMT
  <2>1. m * LineLen = k * LineLen + LineLen /\ k * LineLen \in Nat /\ m * LineLen \in Nat
    <3>1. (k + 1) * LineLen = k * LineLen + LineLen /\ k * LineLen \in Nat
      BY Multiples
    <3>2. m \in Nat
      OBVIOUS
    <3>3. m * LineLen \in Nat
      BY <3>2, Multiples
    <3> QED
      BY <3>1, <3>3
  <2>2. m * LineLen <= q * LineLen /\ q * LineLen \in Nat
    BY Multiples
  <2>3. m * LineLen \in 1..Len(b)
    BY <1>1, <2>1, <2>2
  <2>4. b[m * LineLen] = Byte(n + k + 1, LineLen = LineLen)
    <3>1. k * LineLen + LineLen <= Len(b)
      BY <2>1, <2>3
    <3> QED
      BY <1>1, <2>1, <3>1 DEF Follows
  <2>5. b[m * LineLen].end
    <3>1. Byte(n + k + 1, LineLen = LineLen).end = (LineLen = LineLen)
      BY ByteEnd
    <3> QED
      BY <2>4, <3>1, Zenon
  <2> QED
    BY <1>1, <2>3, <2>5 DEF Newlines
<1> QED
  BY <1>2, <1>3

LEMMA EndsAre ==
  ASSUME NEW b \in Seq(Bytes), NEW n \in Nat, NEW q \in Nat, Follows(b, n),
         q * LineLen <= Len(b), Len(b) < q * LineLen + LineLen
  PROVE  /\ Cardinality(Newlines(b)) = q
         /\ Ends(b) = [m \in 1..q |-> m * LineLen]
<1> DEFINE S == {m * LineLen : m \in 1..q}
<1>1. Newlines(b) = S
  BY NewlinesAre
<1>2. Cardinality(Newlines(b)) = q
  BY <1>1, EndsCount
<1>3. ASSUME NEW m \in 1..q PROVE Cardinality({f \in S : f < m * LineLen}) = m - 1
  <2>0. m - 1 \in Nat
    OBVIOUS
  <2>1. {f \in S : f < m * LineLen} = {p * LineLen : p \in 1..(m - 1)}
    <3>1. ASSUME NEW p \in 1..q PROVE p * LineLen < m * LineLen <=> p < m
      <4>1. p \in Nat /\ m \in Nat /\ LineLen \in Nat \ {0}
        BY CliAssumption
      <4>2. p * LineLen \in Nat /\ m * LineLen \in Nat
        BY <4>1, Multiples
      <4>3. p < m => p * LineLen + LineLen <= m * LineLen
        BY <4>1, Multiples
      <4>4. m <= p => m * LineLen <= p * LineLen
        BY <4>1, Multiples
      <4> HIDE DEF S
      <4> QED
        BY <4>1, <4>2, <4>3, <4>4
    <3>2. {f \in S : f < m * LineLen} = {p * LineLen : p \in {r \in 1..q : r * LineLen < m * LineLen}}
      BY Zenon
    <3>3. {r \in 1..q : r * LineLen < m * LineLen} = 1..(m - 1)
      BY <3>1
    <3> QED
      BY <3>2, <3>3
  <2> HIDE DEF S
  <2> QED
    BY <2>0, <2>1, EndsCount
<1>4. ASSUME NEW m \in 1..q
      PROVE  (CHOOSE e \in S : Cardinality({f \in S : f < e}) = m - 1) = m * LineLen
  <2>1. m * LineLen \in S
    OBVIOUS
  <2>2. ASSUME NEW e \in S, Cardinality({f \in S : f < e}) = m - 1 PROVE e = m * LineLen
    <3>1. PICK p \in 1..q : e = p * LineLen
      BY Zenon
    <3>2. Cardinality({f \in S : f < e}) = p - 1
      BY <1>3, <3>1
    <3>3. p = m
      BY <2>2, <3>2
    <3> QED
      BY <3>1, <3>3
  <2> HIDE DEF S
  <2> QED
    BY <1>3, <2>1, <2>2
<1>5. Ends(b) = [m \in 1..q |-> CHOOSE e \in S : Cardinality({f \in S : f < e}) = m - 1]
  <2> HIDE DEF S
  <2> QED
    BY <1>1, <1>2 DEF Ends
<1>6. Ends(b) = [m \in 1..q |-> m * LineLen]
  <2> HIDE DEF S
  <2> QED
    BY <1>4, <1>5
<1> QED
  BY <1>2, <1>6

\* What a piece is split into: the lines it completes, and less than a line.
LEMMA SplitIs ==
  ASSUME NEW b \in Seq(Bytes), NEW n \in Nat, NEW q \in Nat, Follows(b, n),
         q * LineLen <= Len(b), Len(b) < q * LineLen + LineLen
  PROVE  /\ Split(b).lines = [m \in 1..q |-> Body(n + m)]
         /\ Split(b).rest = SubSeq(b, q * LineLen + 1, Len(b))
<1>1. Cardinality(Newlines(b)) = q /\ Ends(b) = [m \in 1..q |-> m * LineLen]
  BY EndsAre
<1>2. LineLen \in Nat \ {0} /\ LineLen \in 1..LineLen /\ Len(b) \in Nat /\ q * LineLen \in Nat
  BY CliAssumption, Multiples
<1>3. ASSUME NEW m \in 1..q + 1 PROVE Start(b, m) = (m - 1) * LineLen + 1
  <2>1. CASE m = 1
    <3>1. m - 1 = 0 /\ 0 * LineLen = 0
      BY <1>2, <2>1
    <3> QED
      BY <2>1, <3>1 DEF Start
  <2>2. CASE m # 1
    <3>1. m - 1 \in 1..q
      BY <2>2
    <3>2. Ends(b)[m - 1] = (m - 1) * LineLen
      BY <1>1, <3>1
    <3> QED
      BY <2>2, <3>2 DEF Start
  <2> QED
    BY <2>1, <2>2
<1>4. ASSUME NEW m \in 1..q PROVE Lines(b)[m] = Body(n + m)
  <2> PICK k \in Nat : m = k + 1
    BY SMT
  <2>1. m * LineLen = k * LineLen + LineLen /\ k * LineLen \in Nat /\ m * LineLen <= q * LineLen
    <3>1. (k + 1) * LineLen = k * LineLen + LineLen /\ k * LineLen \in Nat
      BY Multiples
    <3>2. m \in Nat /\ m <= q
      OBVIOUS
    <3>3. m * LineLen <= q * LineLen
      BY <3>2, Multiples
    <3> QED
      BY <3>1, <3>3
  <2>2. DOMAIN Ends(b) = 1..q /\ Ends(b)[m] = m * LineLen
    BY <1>1
  <2>3. Start(b, m) = k * LineLen + 1
    <3>1. m \in 1..q + 1 /\ m - 1 = k
      OBVIOUS
    <3> QED
      BY <1>3, <3>1
  <2>4. Lines(b)[m] = SubSeq(b, Start(b, m), Ends(b)[m] - 1)
    BY <2>2 DEF Lines
  <2>5. Lines(b)[m] = SubSeq(b, k * LineLen + 1, k * LineLen + LineLen - 1)
    <3>1. m * LineLen - 1 = k * LineLen + LineLen - 1
      <4>1. \A x, y, z \in Nat : x = y + z => x - 1 = y + z - 1
        OBVIOUS
      <4>2. m * LineLen \in Nat
        BY <1>2, <2>1
      <4> QED
        BY <1>2, <2>1, <4>1, <4>2
    <3> QED
      BY <2>2, <2>3, <2>4, <3>1
  <2>6. SubSeq(b, k * LineLen + 1, k * LineLen + LineLen - 1)
          = [j \in 1..(LineLen - 1) |-> b[k * LineLen + j]]
    <3>1. \A c \in Nat : SubSeq(b, c + 1, c + LineLen - 1) = [j \in 1..(LineLen - 1) |-> b[c + j]]
      BY <1>2
    <3> QED
      BY <2>1, <3>1
  <2>7. ASSUME NEW j \in 1..(LineLen - 1) PROVE b[k * LineLen + j] = Byte(n + m, FALSE)
    <3>1. j \in 1..LineLen /\ j # LineLen /\ (j = LineLen) = FALSE
      BY <1>2
    <3>2. k * LineLen + j <= Len(b)
      BY <1>2, <2>1
    <3>3. b[k * LineLen + j] = Byte(n + k + 1, j = LineLen)
      BY <3>1, <3>2 DEF Follows
    <3>4. n + k + 1 = n + m
      OBVIOUS
    <3> QED
      BY <3>1, <3>3, <3>4
  <2> QED
    BY <2>5, <2>6, <2>7 DEF Body
<1>5. Lines(b) = [m \in 1..q |-> Body(n + m)]
  <2>1. DOMAIN Ends(b) = 1..q
    BY <1>1
  <2>2. Lines(b) = [m \in 1..q |-> Lines(b)[m]]
    BY <2>1 DEF Lines
  <2> QED
    BY <1>4, <2>2
<1>6. Start(b, q + 1) = q * LineLen + 1
  <2>1. q + 1 \in 1..q + 1 /\ q + 1 - 1 = q
    OBVIOUS
  <2> QED
    BY <1>3, <2>1
<1> QED
  BY <1>1, <1>5, <1>6 DEF Split

LEMMA FollowsPrefix ==
  ASSUME NEW b \in Seq(Bytes), NEW c \in Seq(Bytes), NEW n \in Nat, Follows(b \o c, n)
  PROVE  Follows(b, n)
<1> SUFFICES ASSUME NEW k \in Nat, NEW j \in 1..LineLen, k * LineLen + j <= Len(b)
             PROVE  b[k * LineLen + j] = Byte(n + k + 1, j = LineLen)
  BY DEF Follows
<1>1. k * LineLen \in Nat /\ LineLen \in Nat
  BY Multiples
<1>2. \A i \in 1..Len(b) : (b \o c)[i] = b[i]
  OBVIOUS
<1>3. k * LineLen + j \in 1..Len(b)
  BY <1>1
<1>4. k * LineLen + j <= Len(b \o c)
  BY <1>1
<1>5. (b \o c)[k * LineLen + j] = Byte(n + k + 1, j = LineLen)
  BY <1>4 DEF Follows
<1> QED
  BY <1>2, <1>3, <1>5

\* Without its first q lines the stream is what follows them.
LEMMA FollowsRest ==
  ASSUME NEW b \in Seq(Bytes), NEW n \in Nat, NEW q \in Nat, Follows(b, n), q * LineLen <= Len(b)
  PROVE  Follows(SubSeq(b, q * LineLen + 1, Len(b)), n + q)
<1>0. q * LineLen \in Nat /\ LineLen \in Nat
  BY Multiples
<1> PICK d \in Nat : d = q * LineLen
  BY <1>0
<1> DEFINE t == SubSeq(b, d + 1, Len(b))
<1>1. Len(t) = Len(b) - d /\ \A i \in 1..Len(t) : t[i] = b[d + i]
  BY SMTT(30)
<1> HIDE DEF t
<1>2. ASSUME NEW k \in Nat, NEW j \in 1..LineLen, k * LineLen + j <= Len(t)
      PROVE  t[k * LineLen + j] = Byte(n + q + k + 1, j = LineLen)
  <2>1. k * LineLen \in Nat
    BY Multiples
  <2>2. (q + k) * LineLen = d + k * LineLen
    BY Multiples
  <2>3. (q + k) * LineLen + j <= Len(b)
    BY <1>0, <1>1, <1>2, <2>1, <2>2
  <2>4. q + k \in Nat
    OBVIOUS
  <2>5. b[(q + k) * LineLen + j] = Byte(n + (q + k) + 1, j = LineLen)
    BY <2>3, <2>4 DEF Follows
  <2>6. k * LineLen + j \in 1..Len(t)
    <3>1. Len(t) \in Nat
      BY <1>1
    <3> QED
      BY <1>2, <2>1, <3>1
  <2>7. t[k * LineLen + j] = b[d + (k * LineLen + j)]
    BY <1>1, <2>6
  <2>8. d + (k * LineLen + j) = (q + k) * LineLen + j
    <3>1. \A x, y \in Nat : x + (y + j) = x + y + j
      BY <1>0
    <3> QED
      BY <2>1, <2>2, <3>1
  <2>9. n + (q + k) + 1 = n + q + k + 1
    OBVIOUS
  <2> QED
    BY <2>5, <2>7, <2>8, <2>9
<1> QED
  BY <1>2 DEF Follows, t

LEMMA BodyIs ==
  ASSUME NEW n \in 1..MaxLines
  PROVE  /\ Body(n) \in Seq(Bytes) /\ Len(Body(n)) = LineLen - 1
         /\ Byte(n, TRUE) \in Bytes
         /\ \A j \in 1..(LineLen - 1) : Body(n)[j] = Byte(n, FALSE)
<1>1. LineLen - 1 \in Nat
  BY CliAssumption
<1>2. Byte(n, TRUE) \in Bytes /\ Byte(n, FALSE) \in Bytes
  BY DEF Byte, Bytes
<1>3. Body(n) = [j \in 1..(LineLen - 1) |-> Byte(n, FALSE)]
  BY DEF Body
<1>4. Body(n) \in Seq(Bytes) /\ Len(Body(n)) = LineLen - 1
  <2>1. \A x \in Bytes, l \in Nat : [j \in 1..l |-> x] \in Seq(Bytes) /\ Len([j \in 1..l |-> x]) = l
    BY Constantly
  <2>2. /\ [j \in 1..(LineLen - 1) |-> Byte(n, FALSE)] \in Seq(Bytes)
        /\ Len([j \in 1..(LineLen - 1) |-> Byte(n, FALSE)]) = LineLen - 1
    BY <1>1, <1>2, <2>1, Zenon
  <2> QED
    BY <1>3, <2>2, Zenon
<1>5. \A j \in 1..(LineLen - 1) : Body(n)[j] = Byte(n, FALSE)
  BY <1>3
<1> QED
  BY <1>2, <1>4, <1>5

\* One more line continues the stream.
LEMMA FollowsMore ==
  ASSUME NEW b \in Seq(Bytes), NEW n \in Nat, NEW r \in Nat, Follows(b, n),
         Len(b) = r * LineLen, n + r + 1 \in 1..MaxLines
  PROVE  /\ Follows(b \o Body(n + r + 1) \o <<Byte(n + r + 1, TRUE)>>, n)
         /\ Len(b \o Body(n + r + 1) \o <<Byte(n + r + 1, TRUE)>>) = (r + 1) * LineLen
<1> PICK m \in 1..MaxLines : m = n + r + 1
  OBVIOUS
<1>1. LineLen \in Nat \ {0} /\ r * LineLen \in Nat /\ (r + 1) * LineLen = r * LineLen + LineLen
  BY Multiples
<1>2. /\ Body(m) \in Seq(Bytes) /\ Len(Body(m)) = LineLen - 1 /\ Byte(m, TRUE) \in Bytes
      /\ \A j \in 1..(LineLen - 1) : Body(m)[j] = Byte(m, FALSE)
  BY BodyIs
<1> PICK u \in Seq(Bytes), v \in Bytes : u = Body(m) /\ v = Byte(m, TRUE)
  BY <1>2
<1> DEFINE t == b \o u \o <<v>>
<1>3. Len(t) = Len(b) + LineLen
  BY <1>1, <1>2
<1>4. \A i \in 1..Len(b) : t[i] = b[i]
  BY <1>2
<1>5. \A j \in 1..(LineLen - 1) : t[Len(b) + j] = u[j]
  BY <1>1, <1>2
<1>6. t[Len(b) + LineLen] = v
  <2>1. Len(b \o u) = Len(b) + LineLen - 1 /\ b \o u \in Seq(Bytes)
    BY <1>1, <1>2
  <2>2. Append(b \o u, v)[Len(b \o u) + 1] = v
    <3>1. \A w \in Seq(Bytes) : Append(w, v)[Len(w) + 1] = v
      BY AppendProperties, ZenonT(40)
    <3> HIDE DEF t
    <3> QED
      BY <2>1, <3>1, Zenon
  <2>4. Append(b \o u, v) = t
    BY <2>1, AppendIsConcat
  <2>3. Len(b \o u) + 1 = Len(b) + LineLen
    BY <1>1, <2>1
  <2> HIDE DEF t
  <2> QED
    BY <2>2, <2>3, <2>4
<1> HIDE DEF t
<1>7. ASSUME NEW k \in Nat, NEW j \in 1..LineLen, k * LineLen + j <= Len(t)
      PROVE  t[k * LineLen + j] = Byte(n + k + 1, j = LineLen)
  <2>1. k * LineLen \in Nat
    BY Multiples
  <2>2. ~(r < k)
    <3>1. r < k => r * LineLen + LineLen <= k * LineLen
      BY Multiples
    <3> QED
      BY <1>1, <1>3, <1>7, <2>1, <3>1
  <2>3. CASE k < r
    <3>1. k * LineLen + LineLen <= r * LineLen
      BY <2>3, Multiples
    <3>2. k * LineLen + j <= Len(b) /\ k * LineLen + j \in 1..Len(b)
      BY <1>1, <2>1, <3>1
    <3>3. b[k * LineLen + j] = Byte(n + k + 1, j = LineLen)
      BY <3>2 DEF Follows
    <3> QED
      BY <1>4, <3>2, <3>3
  <2>4. CASE k = r /\ j = LineLen
    <3>1. t[k * LineLen + j] = v
      BY <1>6, <2>4
    <3>2. n + k + 1 = m /\ (j = LineLen) = TRUE
      BY <2>4
    <3> QED
      BY <3>1, <3>2
  <2>5. CASE k = r /\ j # LineLen
    <3>1. j \in 1..(LineLen - 1) /\ (j = LineLen) = FALSE
      BY <1>1, <2>5
    <3>2. t[k * LineLen + j] = u[j]
      BY <1>5, <2>5, <3>1
    <3>3. n + k + 1 = m
      BY <2>5
    <3> QED
      BY <1>2, <3>1, <3>2, <3>3
  <2> QED
    BY <2>2, <2>3, <2>4, <2>5
<1>8. Follows(t, n)
  BY <1>7 DEF Follows
<1> QED
  BY <1>1, <1>3, <1>8 DEF t

-----------------------------------------------------------------------------
\* ---- the invariant ----

\* buf, then wire, is the stream from the first line on that is not shown; buf
\* holds less than a line of it.
StreamInv ==
  /\ Len(shown) <= emitted
  /\ shown = [n \in 1..Len(shown) |-> Body(n)]
  /\ Follows(buf \o wire, Len(shown))
  /\ Len(buf) + Len(wire) = (emitted - Len(shown)) * LineLen
  /\ Len(buf) < LineLen

IInv == TypeOK /\ StreamInv

LEMMA InitIInv ==
  ASSUME Init
  PROVE  IInv
<1>1. LineLen \in Nat \ {0} /\ MaxLines \in Nat /\ MaxTyped \in Nat
  BY CliAssumption
<1>2. TypeOK
  BY <1>1 DEF Init, TypeOK
<1>3. Len(<<>>) = 0 /\ 0 - 0 = 0 /\ 0 * LineLen = 0 /\ <<>> \o <<>> = <<>>
  BY <1>1
<1>4. <<>> = [n \in 1..0 |-> Body(n)]
  <2>1. 1..0 = {}
    OBVIOUS
  <2> QED
    BY <2>1
<1>5. Follows(<<>>, 0)
  <2> SUFFICES ASSUME NEW k \in Nat, NEW j \in 1..LineLen, k * LineLen + j <= Len(<<>>)
               PROVE  FALSE
    BY DEF Follows
  <2>1. k * LineLen \in Nat
    BY Multiples
  <2> QED
    BY <1>1, <1>3, <2>1
<1>6. StreamInv
  BY <1>1, <1>3, <1>4, <1>5 DEF Init, StreamInv
<1> QED
  BY <1>2, <1>6 DEF IInv

\* The piece that makes the buffer b completes q lines of those after the n-th,
\* of which there are z with what is on the wire, y.
Completes(b, y, n, z, q) ==
  /\ Split(b).lines = [i \in 1..q |-> Body(n + i)]
  /\ Split(b).rest \in Seq(Bytes)
  /\ Follows(Split(b).rest \o y, n + q)
  /\ Len(Split(b).rest) + Len(y) = (z - q) * LineLen
  /\ Len(Split(b).rest) < LineLen

LEMMA RecvStream ==
  ASSUME NEW f \in Seq(Bytes), NEW x \in Seq(Bytes), NEW y \in Seq(Bytes),
         NEW n \in Nat, NEW z \in Nat, Follows(f \o (x \o y), n),
         Len(f) + Len(x \o y) = z * LineLen
  PROVE  \E q \in 0..z : Completes(f \o x, y, n, z, q)
<1>1. (f \o x) \o y = f \o (x \o y)
  BY ConcatAssociative, SMTT(30)
<1> DEFINE b == f \o x
<1>2. b \in Seq(Bytes) /\ Len(b) = Len(f) + Len(x)
  BY ConcatProperties
<1>3. Len(x \o y) = Len(x) + Len(y)
  BY ConcatProperties
<1>4. Len(f) \in Nat /\ Len(x) \in Nat /\ Len(y) \in Nat
  BY LenProperties
<1>5. f \o (x \o y) = b \o y
  BY <1>1
<1> HIDE DEF b
<1>6. Len(b) + Len(y) = z * LineLen /\ Len(b) \in Nat
  <2>1. Len(f) + (Len(x) + Len(y)) = z * LineLen
    BY <1>3, Zenon
  <2> QED
    BY <1>2, <1>4, <2>1
<1>7. Follows(b \o y, n)
  BY <1>5, Zenon
<1>8. Follows(b, n)
  BY <1>2, <1>7, FollowsPrefix
<1>9. PICK q \in Nat : q * LineLen <= Len(b) /\ Len(b) < q * LineLen + LineLen
  BY <1>6, WholeLines
<1>10. Split(b).lines = [i \in 1..q |-> Body(n + i)] /\ Split(b).rest = SubSeq(b, q * LineLen + 1, Len(b))
  BY <1>2, <1>8, <1>9, SplitIs
<1>11. q * LineLen \in Nat /\ z * LineLen \in Nat /\ LineLen \in Nat \ {0}
  BY <1>9, Multiples
<1>12. q <= z
  <2>1. z < q => z * LineLen + LineLen <= q * LineLen
    BY <1>9, Multiples
  <2>2. q * LineLen <= z * LineLen
    BY <1>4, <1>6, <1>9, <1>11, SMTT(30)
  <2>3. ~(z * LineLen + LineLen <= q * LineLen)
    BY <1>11, <2>2
  <2>4. ~(z < q)
    BY <2>1, <2>3
  <2> QED
    BY <1>9, <2>4
<1>13. z - q \in Nat /\ q + (z - q) = z /\ q \in 0..z
  BY <1>9, <1>12
<1>14. z * LineLen = q * LineLen + (z - q) * LineLen /\ (z - q) * LineLen \in Nat
  <2>1. (q + (z - q)) * LineLen = q * LineLen + (z - q) * LineLen /\ (z - q) * LineLen \in Nat
    BY <1>9, <1>13, Multiples
  <2> QED
    BY <1>13, <2>1
<1> DEFINE t == SubSeq(b, q * LineLen + 1, Len(b))
<1>15. /\ t \in Seq(Bytes) /\ Len(t) = Len(b) - q * LineLen
       /\ SubSeq(b \o y, q * LineLen + 1, Len(b \o y)) = t \o y
  <2>1. PICK d \in Nat : d = q * LineLen
    BY <1>11
  <2>2. d <= Len(b)
    BY <1>9, <2>1
  <2>3. /\ SubSeq(b, d + 1, Len(b)) \in Seq(Bytes)
        /\ Len(SubSeq(b, d + 1, Len(b))) = Len(b) - d
        /\ SubSeq(b \o y, d + 1, Len(b \o y)) = SubSeq(b, d + 1, Len(b)) \o y
    <3>1. SubSeq(b, d + 1, Len(b)) \in Seq(Bytes) /\ Len(SubSeq(b, d + 1, Len(b))) = Len(b) - d
      BY <1>2, <2>1, <2>2, Rest
    <3>2. SubSeq(b \o y, d + 1, Len(b \o y)) = SubSeq(b, d + 1, Len(b)) \o y
      <4>1. After(b \o y, d) = After(b, d) \o y
        BY <1>2, <2>1, <2>2, AfterConcat
      <4> QED
        BY <4>1 DEF After
    <3> QED
      BY <3>1, <3>2
  <2> QED
    BY <2>1, <2>3, Zenon
<1> HIDE DEF t
<1>16. Len(t) + Len(y) = (z - q) * LineLen /\ Len(t) < LineLen
  BY <1>4, <1>6, <1>9, <1>11, <1>14, <1>15
<1>17. Follows(t \o y, n + q)
  <2>1. b \o y \in Seq(Bytes) /\ Len(b \o y) = Len(b) + Len(y)
    BY <1>2, ConcatProperties
  <2>2. q * LineLen <= Len(b \o y)
    BY <1>4, <1>6, <1>9, <1>11, <2>1
  <2>3. Follows(SubSeq(b \o y, q * LineLen + 1, Len(b \o y)), n + q)
    BY <1>7, <1>9, <2>1, <2>2, FollowsRest
  <2> QED
    BY <1>15, <2>3
<1>18. Completes(b, y, n, z, q)
  <2>1. Split(b).rest = t
    BY <1>10 DEF t
  <2> QED
    BY <1>10, <1>15, <1>16, <1>17, <2>1, Zenon DEF Completes
<1> QED
  BY <1>13, <1>18 DEF b

LEMMA RecvIInv ==
  ASSUME IInv, Recv
  PROVE  IInv'
<1>1. LineLen \in Nat \ {0} /\ MaxLines \in Nat
  BY CliAssumption
<1>2. /\ wire \in Seq(Bytes) /\ buf \in Seq(Bytes) /\ Len(shown) \in Nat
      /\ emitted \in 0..MaxLines /\ Len(shown) <= emitted
      /\ emitted - Len(shown) \in Nat
  <2>1. shown \in Seq(Seq(Bytes))
    BY DEF IInv, TypeOK
  <2>2. Len(shown) \in Nat
    BY <2>1, LenProperties
  <2>3. /\ wire \in Seq(Bytes) /\ buf \in Seq(Bytes)
        /\ emitted \in 0..MaxLines /\ Len(shown) <= emitted
    BY DEF IInv, TypeOK, StreamInv
  <2> QED
    BY <1>1, <2>2, <2>3
<1>3. /\ shown = [i \in 1..Len(shown) |-> Body(i)]
      /\ Follows(buf \o wire, Len(shown))
      /\ Len(buf) + Len(wire) = (emitted - Len(shown)) * LineLen
  BY DEF IInv, StreamInv
<1>4. PICK m \in 1..Len(wire) :
        /\ shown' = shown \o Split(buf \o SubSeq(wire, 1, m)).lines
        /\ buf' = Split(buf \o SubSeq(wire, 1, m)).rest
        /\ wire' = SubSeq(wire, m + 1, Len(wire))
  BY DEF Recv
<1>5. /\ SubSeq(wire, 1, m) \in Seq(Bytes) /\ SubSeq(wire, m + 1, Len(wire)) \in Seq(Bytes)
      /\ wire = SubSeq(wire, 1, m) \o SubSeq(wire, m + 1, Len(wire))
  BY <1>2, <1>4, Cut
<1>6. PICK x \in Seq(Bytes), y \in Seq(Bytes) :
        x = SubSeq(wire, 1, m) /\ y = SubSeq(wire, m + 1, Len(wire))
  BY <1>5
<1>7. wire = x \o y
  BY <1>5, <1>6
<1>8. shown' = shown \o Split(buf \o x).lines /\ buf' = Split(buf \o x).rest /\ wire' = y
  BY <1>4, <1>6
<1>9. PICK n \in Nat, z \in Nat : n = Len(shown) /\ z = emitted - Len(shown)
  BY <1>2
<1>10. Follows(buf \o (x \o y), n) /\ Len(buf) + Len(x \o y) = z * LineLen
  BY <1>3, <1>7, <1>9, Zenon
<1>11. PICK q \in 0..z : Completes(buf \o x, y, n, z, q)
  BY <1>2, <1>6, <1>10, <1>9, RecvStream
<1>12. /\ q \in 0..z
       /\ Split(buf \o x).lines = [i \in 1..q |-> Body(n + i)]
       /\ Split(buf \o x).rest \in Seq(Bytes)
       /\ Follows(Split(buf \o x).rest \o y, n + q)
       /\ Len(Split(buf \o x).rest) + Len(y) = (z - q) * LineLen
       /\ Len(Split(buf \o x).rest) < LineLen
  BY <1>11, Zenon DEF Completes
<1>13. q \in Nat /\ n + q \in Nat /\ n + q <= emitted /\ z - q = emitted - (n + q)
  BY <1>1, <1>2, <1>12, <1>9
<1>14. shown' = [i \in 1..(n + q) |-> Body(i)]
  <2>1. shown' = [i \in 1..n |-> Body(i)] \o [i \in 1..q |-> Body(n + i)]
    BY <1>3, <1>8, <1>12, <1>9, Zenon
  <2>2. n \in Nat /\ q \in Nat
    BY <1>9, <1>13
  <2> QED
    BY <2>1, <2>2
<1>15. Len(shown') = n + q
  BY <1>13, <1>14
<1>16. emitted' = emitted
  BY DEF Recv
<1>17. buf' \in Seq(Bytes) /\ wire' \in Seq(Bytes)
  BY <1>6, <1>8, <1>12, Zenon
<1>18. /\ Follows(buf' \o wire', n + q)
       /\ Len(buf') + Len(wire') = (z - q) * LineLen
       /\ Len(buf') < LineLen
  BY <1>8, <1>12, <1>9, Zenon
<1>19. StreamInv'
  <2>1. /\ Len(shown') <= emitted'
        /\ Len(buf') + Len(wire') = (emitted' - Len(shown')) * LineLen
    BY <1>13, <1>15, <1>16, <1>18
  <2>2. shown' = [i \in 1..Len(shown') |-> Body(i)] /\ Follows(buf' \o wire', Len(shown'))
    BY <1>14, <1>15, <1>18, Zenon
  <2> QED
    BY <1>18, <2>1, <2>2 DEF StreamInv
<1>20. shown' \in Seq(Seq(Bytes))
  <2>1. \A i \in 1..(n + q) : i \in 1..MaxLines
    BY <1>1, <1>2, <1>13
  <2>2. \A i \in 1..(n + q) : Body(i) \in Seq(Bytes)
    BY <2>1, BodyIs
  <2> QED
    BY <1>13, <1>14, <2>2
<1>21. TypeOK'
  BY <1>16, <1>17, <1>20 DEF Recv, IInv, TypeOK
<1> QED
  BY <1>19, <1>21 DEF IInv

LEMMA BrokerSendsIInv ==
  ASSUME IInv, BrokerSends
  PROVE  IInv'
<1>1. LineLen \in Nat \ {0} /\ MaxLines \in Nat
  BY CliAssumption
<1>2. /\ wire \in Seq(Bytes) /\ buf \in Seq(Bytes) /\ shown \in Seq(Seq(Bytes))
      /\ emitted \in 0..MaxLines /\ emitted < MaxLines
  BY DEF IInv, TypeOK, BrokerSends
<1> PICK n \in Nat : n = Len(shown)
  BY <1>2, LenProperties
<1>3. n <= emitted
  BY DEF IInv, StreamInv
<1>4. emitted - n \in Nat
  <2>1. emitted \in Nat
    BY <1>1, <1>2
  <2> QED
    BY <1>3, <2>1
<1> PICK z \in Nat : z = emitted - n
  BY <1>4
<1> PICK p \in 1..MaxLines : p = emitted + 1
  BY <1>1, <1>2
<1>5. n + z + 1 = p
  BY <1>2
<1> PICK b \in Seq(Bytes) : b = buf \o wire
  BY <1>2, ConcatProperties
<1>6. /\ emitted' = p /\ buf' = buf /\ shown' = shown
      /\ wire' = wire \o Body(p) \o <<Byte(p, TRUE)>>
  BY DEF BrokerSends
<1>7. Body(p) \in Seq(Bytes) /\ Byte(p, TRUE) \in Bytes
  BY BodyIs
<1>8. buf' \o wire' = b \o Body(p) \o <<Byte(p, TRUE)>>
  <2>1. PICK v \in Seq(Bytes) : v = <<Byte(p, TRUE)>>
    <3>1. \A w \in Bytes : <<w>> \in Seq(Bytes)
      OBVIOUS
    <3> QED
      BY <1>7, <3>1
  <2>2. PICK u \in Seq(Bytes) : u = Body(p)
    BY <1>7
  <2>3. buf \o ((wire \o u) \o v) = ((buf \o wire) \o u) \o v
    BY <1>2, <2>1, <2>2, Regroup, SMTT(30)
  <2> QED
    BY <1>6, <2>1, <2>2, <2>3, Zenon
<1>9. Follows(b, n) /\ Len(b) = z * LineLen
  <2>1. Len(b) = Len(buf) + Len(wire)
    BY <1>2, ConcatProperties
  <2> QED
    BY <2>1 DEF IInv, StreamInv
<1>10. Follows(buf' \o wire', n) /\ Len(buf' \o wire') = (z + 1) * LineLen
  <2>1. n + z + 1 \in 1..MaxLines
    BY <1>5
  <2>2. /\ Follows(b \o Body(n + z + 1) \o <<Byte(n + z + 1, TRUE)>>, n)
        /\ Len(b \o Body(n + z + 1) \o <<Byte(n + z + 1, TRUE)>>) = (z + 1) * LineLen
    BY <1>9, <2>1, FollowsMore
  <2> QED
    BY <1>5, <1>8, <2>2
<1>11. wire' \in Seq(Bytes)
  <2>1. <<Byte(p, TRUE)>> \in Seq(Bytes) /\ wire \o Body(p) \in Seq(Bytes)
    <3>1. \A v \in Bytes : <<v>> \in Seq(Bytes)
      OBVIOUS
    <3> QED
      BY <1>2, <1>7, <3>1, ConcatProperties
  <2> QED
    BY <1>6, <2>1, ConcatProperties
<1>12. Len(buf') + Len(wire') = (emitted' - Len(shown')) * LineLen
  <2>1. Len(buf' \o wire') = Len(buf') + Len(wire')
    BY <1>2, <1>6, <1>11, ConcatProperties
  <2>2. emitted' - Len(shown') = z + 1
    BY <1>2, <1>6
  <2> QED
    BY <1>10, <2>1, <2>2
<1>13. StreamInv'
  <2>1. Len(shown') <= emitted'
    BY <1>2, <1>6 DEF IInv, StreamInv
  <2> QED
    BY <1>6, <1>10, <1>12, <2>1 DEF IInv, StreamInv
<1>14. TypeOK'
  <2>1. emitted' \in 0..MaxLines
    BY <1>1, <1>6
  <2> QED
    BY <1>2, <1>6, <1>11, <2>1 DEF BrokerSends, IInv, TypeOK
<1> QED
  BY <1>13, <1>14 DEF IInv

LEMMA NextIInv ==
  ASSUME IInv, [Next]_vars
  PROVE  IInv'
<1> USE DEF IInv
<1>1. CASE Recv
  BY <1>1, RecvIInv
<1>2. CASE BrokerSends
  BY <1>2, BrokerSendsIInv
<1>3. ASSUME TypeOK', UNCHANGED <<emitted, wire, buf, shown>>
      PROVE  IInv'
  BY <1>3 DEF StreamInv
<1>4. CASE Connect
  <2>1. TypeOK'
    BY <1>4 DEF Connect, TypeOK
  <2> QED
    BY <1>3, <1>4, <2>1 DEF Connect
<1>5. CASE RecvEnd
  <2>1. TypeOK'
    BY <1>5 DEF RecvEnd, TypeOK
  <2> QED
    BY <1>3, <1>5, <2>1 DEF RecvEnd
<1>6. CASE RecvTimeout
  <2>1. TypeOK'
    BY <1>6 DEF RecvTimeout, TypeOK
  <2> QED
    BY <1>3, <1>6, <2>1 DEF RecvTimeout
<1>7. CASE Type
  <2>1. MaxTyped \in Nat
    BY CliAssumption
  <2>2. typed' \in 0..MaxTyped /\ commands' \in Seq(1..MaxTyped)
    <3>1. /\ typed \in 0..MaxTyped /\ typed < MaxTyped /\ typed' = typed + 1
          /\ commands \in Seq(1..MaxTyped)
          /\ commands' = Append(commands, typed + 1) \/ commands' = commands
      BY <1>7 DEF Type, TypeOK
    <3>2. typed + 1 \in 1..MaxTyped
      BY <2>1, <3>1
    <3>3. Append(commands, typed + 1) \in Seq(1..MaxTyped)
      BY <3>1, <3>2, AppendProperties
    <3>4. typed' \in 0..MaxTyped
      BY <2>1, <3>1
    <3> QED
      BY <3>1, <3>3, <3>4
  <2>3. TypeOK'
    BY <1>7, <2>2 DEF Type, Exit, TypeOK
  <2> QED
    BY <1>3, <1>7, <2>3 DEF Type
<1>8. CASE Quit
  <2>1. TypeOK'
    BY <1>8 DEF Quit, Exit, TypeOK
  <2> QED
    BY <1>3, <1>8, <2>1 DEF Quit
<1>9. CASE BrokerGone
  <2>1. TypeOK'
    BY <1>9 DEF BrokerGone, TypeOK
  <2> QED
    BY <1>3, <1>9, <2>1 DEF BrokerGone
<1>10. CASE UNCHANGED vars
  <2>1. TypeOK'
    BY <1>10 DEF vars, TypeOK
  <2> QED
    BY <1>3, <1>10, <2>1 DEF vars
<1> QED
  BY <1>1, <1>2, <1>4, <1>5, <1>6, <1>7, <1>8, <1>9, <1>10 DEF Next

LEMMA Invariance == Spec => []IInv
<1>1. Init => IInv
  BY InitIInv
<1>2. IInv /\ [Next]_vars => IInv'
  BY NextIInv
<1> QED
  BY <1>1, <1>2, PTL DEF Spec

-----------------------------------------------------------------------------
\* ---- the theorems ----

(* The variables of the program and of its connection keep their types.    *)
THEOREM TypeCorrect == Spec => []TypeOK
<1>1. IInv => TypeOK
  BY DEF IInv
<1> QED
  BY <1>1, Invariance, PTL

(* Whatever pieces _listen receives the stream in, it shows the lines the  *)
(* broker sent, whole, in order, each once, and as soon as they are there. *)
THEOREM LinesAreShownAsSent == Spec => []ShownAsSent
<1>1. ASSUME IInv PROVE ShownAsSent
  <2>1. /\ wire \in Seq(Bytes) /\ buf \in Seq(Bytes) /\ Len(buf) \in Nat
        /\ Len(shown) \in Nat /\ LineLen \in Nat
    BY <1>1, CliAssumption DEF IInv, TypeOK
  <2>2. Follows(buf \o wire, Len(shown)) /\ Len(buf) < LineLen
    BY <1>1 DEF IInv, StreamInv
  <2>3. Follows(buf, Len(shown))
    BY <2>1, <2>2, FollowsPrefix
  <2>4. 0 * LineLen = 0 /\ 0 * LineLen <= Len(buf) /\ Len(buf) < 0 * LineLen + LineLen
    BY <2>1, <2>2
  <2>5. Newlines(buf) = {m * LineLen : m \in 1..0}
    BY <2>1, <2>3, <2>4, NewlinesAre
  <2>6. Newlines(buf) = {}
    <3>1. 1..0 = {}
      OBVIOUS
    <3> QED
      BY <2>5, <3>1
  <2> QED
    BY <1>1, <2>6 DEF IInv, StreamInv, ShownAsSent
<1> QED
  BY <1>1, Invariance, PTL
=============================================================================
