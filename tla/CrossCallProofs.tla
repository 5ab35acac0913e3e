-------------------------- MODULE CrossCallProofs --------------------------
(***************************************************************************)
(* What CrossCall guarantees for every text, payload, destination and      *)
(* bound: the types of its variables, that slices which reach the          *)
(* threshold are reported, and that a cross-call report is deserved.       *)
(*                                                                         *)
(* The windows keep copies of what calls told.  The invariant ties each    *)
(* entry to the call of the log that left it there, and says of a call     *)
(* that is not in the window why it is not.                                *)
(***************************************************************************)
EXTENDS CrossCallTexts

\* What the calls at the positions f told of id.
Says(f, id) == [n \in DOMAIN f |-> Evidence(Text[id], log[f[n]].payload)]

Quiet(d, id) == \A i \in CallsTo(d, id) : log[i].report = None

\* c: the calls whose evidence the window of d and id holds.
Recorded(c, d, id) ==
  /\ c \in [1..Len(windows[d][id]) -> CallsTo(d, id)]
  /\ Increasing(c)
  /\ \A k \in 1..Len(windows[d][id]) :
       windows[d][id][k] = [text |-> Evidence(Text[id], log[c[k]].payload), at |-> log[c[k]].at]

\* Call i is too old for a window of d and id.
Outdated(i, d, id) == \E j \in CallsTo(d, id) : log[j].at - log[i].at > WindowSecs

\* A call that is not in the window is outdated, or the window is full.
Complete(c, d, id) ==
  \A i \in CallsTo(d, id) :
    \/ i \in Range(c)
    \/ Outdated(i, d, id)
    \/ Len(windows[d][id]) = WindowMax /\ i < c[1]

\* The calls before last that a window may hold when last is made.
Earlier(last, d, id) == {i \in CallsTo(d, id) : i < last /\ log[last].at - log[i].at <= WindowSecs}

\* The calls f reach the threshold with the call last and not without it.
Crossing(f, last, d, id) ==
  /\ f \in [DOMAIN f -> Earlier(last, d, id)] /\ Increasing(f)
  /\ ~Over(Text[id], Says(f, id))
  /\ Over(Text[id], Append(Says(f, id), Evidence(Text[id], log[last].payload)))

TimesInv ==
  /\ \A i \in DOMAIN log : log[i].at <= now
  /\ \A i, j \in DOMAIN log : i < j => log[i].at <= log[j].at
  /\ \A d \in Dests, id \in Ids : \A k \in DOMAIN windows[d][id] : windows[d][id][k].at <= now

WindowInv ==
  \A d \in Dests, id \in Ids :
    \E c : Recorded(c, d, id) /\ (Quiet(d, id) => Complete(c, d, id))

BelowInv ==
  \A d \in Dests, id \in Ids : Quiet(d, id) => ~Over(Text[id], TextsOf(windows[d][id]))

DeservedInv ==
  \A d \in Dests, id \in Ids : \A last \in CallsTo(d, id) :
    log[last].report = id =>
      \E q \in 0..(WindowMax - 1) : \E f : DOMAIN f = 1..q /\ Crossing(f, last, d, id)

-----------------------------------------------------------------------------
\* ---- one entry more in a window ----

\* Record keeps the entries from some m on and appends one.  What it drops is
\* stale, or it is the first of a full window.
LEMMA RecordIs ==
  ASSUME now \in 0..MaxNow, NEW w \in Seq(Entries), Len(w) <= WindowMax,
         \A i, j \in DOMAIN w : i < j => w[i].at <= w[j].at,
         NEW t
  PROVE  \E k, m \in 1..(Len(w) + 1) :
           /\ k <= m /\ Fresh(w) = SubSeq(w, k, Len(w))
           /\ Record(w, t) = Append(SubSeq(w, m, Len(w)), [text |-> t, at |-> now])
           /\ Len(w) - m + 1 < WindowMax
           /\ \A i \in m..Len(w) : now - w[i].at <= WindowSecs
           /\ \/ \A i \in 1..(m - 1) : now - w[i].at > WindowSecs
              \/ m = 2 /\ Len(w) = WindowMax
<1> DEFINE stale == {i \in DOMAIN w : now - w[i].at > WindowSecs}
           e == [text |-> t, at |-> now]
           Kept(k, m) ==
             /\ k <= m /\ Fresh(w) = SubSeq(w, k, Len(w))
             /\ Record(w, t) = Append(SubSeq(w, m, Len(w)), e)
             /\ Len(w) - m + 1 < WindowMax
             /\ \A i \in m..Len(w) : now - w[i].at <= WindowSecs
             /\ \/ \A i \in 1..(m - 1) : now - w[i].at > WindowSecs
                \/ m = 2 /\ Len(w) = WindowMax
<1>1. /\ Len(w) \in Nat /\ DOMAIN w = 1..Len(w) /\ WindowMax \in Nat \ {0} /\ now \in Nat
      /\ WindowSecs \in Nat /\ \A i \in 1..Len(w) : w[i].at \in Nat
  <2>1. Len(w) \in Nat /\ DOMAIN w = 1..Len(w) /\ \A i \in 1..Len(w) : w[i] \in Entries
    BY LenProperties, ElementOfSeq
  <2>2. MaxNow \in Nat /\ WindowMax \in Nat \ {0} /\ WindowSecs \in Nat
    BY CrossCallAssumption
  <2>3. \A x \in Entries : x.at \in Nat
    BY <2>2 DEF Entries
  <2> QED
    BY <2>1, <2>2, <2>3
<1>2. PICK k \in 1..(Len(w) + 1) :
        /\ \A i \in 1..(k - 1) : i \in stale
        /\ k \notin stale
        /\ Fresh(w) = SubSeq(w, k, Len(w))
  <2>1. stale \subseteq DOMAIN w /\ Fresh(w) = DropWhile(w, stale)
    BY DEF Fresh
  <2> HIDE DEF stale
  <2> QED
    BY <2>1, DropWhileIs
<1>3. \A i \in k..Len(w) : now - w[i].at <= WindowSecs
  <2> TAKE i \in k..Len(w)
  <2>1. k \in 1..Len(w) /\ i \in 1..Len(w) /\ now - w[k].at <= WindowSecs
    BY <1>1, <1>2
  <2>2. w[k].at <= w[i].at
    BY <1>1, <2>1
  <2> QED
    BY <1>1, <2>1, <2>2
<1>4. \A i \in 1..(k - 1) : now - w[i].at > WindowSecs
  BY <1>2
<1> DEFINE u == SubSeq(w, k, Len(w))
<1>5. /\ u \in Seq(Entries) /\ Len(u) = Len(w) - k + 1
      /\ \A i \in 1..Len(u) : u[i] = w[k + i - 1]
  BY <1>1, ElementOfSeq, SubSeqProperties
<1>6. Len(Append(u, e)) = Len(w) - k + 2
  BY <1>1, <1>5
<1>7. Record(w, t) = IF Len(Append(u, e)) > WindowMax THEN Tail(Append(u, e)) ELSE Append(u, e)
  BY <1>2 DEF Record
<1>8. CASE Len(Append(u, e)) <= WindowMax
  <2>1. Record(w, t) = Append(SubSeq(w, k, Len(w)), e) /\ Len(w) - k + 1 < WindowMax
    BY <1>1, <1>6, <1>7, <1>8
  <2>2. Kept(k, k) /\ k \in 1..(Len(w) + 1)
    BY <1>2, <1>3, <1>4, <2>1
  <2> HIDE DEF Kept
  <2>3. \E a, m \in 1..(Len(w) + 1) : Kept(a, m)
    BY <2>2
  <2> QED
    BY <2>3 DEF Kept
<1>9. CASE Len(Append(u, e)) > WindowMax
  <2>1. k = 1 /\ Len(w) = WindowMax
    <3>1. Len(w) - k + 2 > WindowMax
      BY <1>6, <1>9
    <3>2. \A l, m \in Nat : \A x \in 1..(l + 1) : l <= m /\ l - x + 2 > m => x = 1 /\ l = m
      OBVIOUS
    <3> HIDE DEF u, e
    <3> QED
      BY <1>1, <3>1, <3>2
  <2>2. u = w
    BY <2>1, SubSeqFull
  <2>3. Tail(Append(w, e)) = Append(SubSeq(w, 2, Len(w)), e)
    <3> DEFINE v == SubSeq(w, 2, Len(w))
    <3>1. v \in Seq(Entries) /\ Len(v) = Len(w) - 1 /\ \A i \in 1..Len(v) : v[i] = w[i + 1]
      <4>1. \A i \in 2..Len(w) : w[i] \in Entries
        BY <1>1, ElementOfSeq
      <4>2. \A i \in 1..(Len(w) - 1) : 2 + i - 1 = i + 1
        BY <1>1
      <4>3. Len(w) - 2 + 1 = Len(w) - 1 /\ (2 <= Len(w) \/ Len(w) - 1 = 0)
        BY <1>1, <2>1
      <4> QED
        BY <1>1, <4>1, <4>2, <4>3, SubSeqProperties
    <3> HIDE DEF v, e
    <3> DEFINE S == Entries \cup {e}
    <3>2. w \in Seq(S) /\ v \in Seq(S) /\ e \in S
      BY <3>1, SeqMonotonic
    <3> HIDE DEF S
    <3> DEFINE a == Append(w, e)
               b == Append(v, e)
    <3>3. /\ a \in Seq(S) /\ Len(a) = Len(w) + 1
          /\ \A i \in 1..Len(w) : a[i] = w[i]
          /\ a[Len(w) + 1] = e
      BY <1>1, <3>2
    <3>4. /\ b \in Seq(S) /\ Len(b) = Len(w)
          /\ \A i \in 1..(Len(w) - 1) : b[i] = v[i]
          /\ b[Len(w)] = e
      <4>1. Len(v) \in Nat /\ Len(v) = Len(w) - 1 /\ Len(v) + 1 = Len(w)
        BY <1>1, <3>1, <3>2, LenProperties
      <4>2. b \in Seq(S) /\ Len(b) = Len(v) + 1 /\ b[Len(v) + 1] = e
            /\ \A i \in 1..Len(v) : b[i] = v[i]
        BY <3>2, <4>1
      <4> HIDE DEF b
      <4> QED
        BY <4>1, <4>2
    <3> HIDE DEF a, b
    <3>5. a # <<>>
      BY <1>1, <3>3, EmptySeq
    <3>6. Tail(a) \in Seq(S) /\ Len(Tail(a)) = Len(w) /\ \A i \in 1..Len(w) : Tail(a)[i] = a[i + 1]
      BY <1>1, <3>3, <3>5, HeadTailProperties
    <3>7. \A i \in 1..Len(w) : Tail(a)[i] = b[i]
      BY <1>1, <3>1, <3>3, <3>4, <3>6, SMTT(30)
    <3>8. Tail(a) = b
      BY <3>4, <3>6, <3>7, SeqEqual
    <3> QED
      BY <3>8 DEF a, b, v
  <2>4. Record(w, t) = Append(SubSeq(w, 2, Len(w)), e) /\ 2 \in 1..(Len(w) + 1)
        /\ Len(w) - 2 + 1 < WindowMax
    BY <1>1, <1>7, <1>9, <2>1, <2>2, <2>3
  <2>5. \A i \in 2..Len(w) : now - w[i].at <= WindowSecs
    BY <1>3, <2>1
  <2>6. k <= 2
    BY <2>1
  <2>7. Kept(k, 2) /\ k \in 1..(Len(w) + 1)
    BY <1>2, <2>1, <2>4, <2>5, <2>6
  <2> HIDE DEF Kept
  <2>8. \E a, m \in 1..(Len(w) + 1) : Kept(a, m)
    BY <2>4, <2>7
  <2> QED
    BY <2>8 DEF Kept
<1>10. Len(Append(u, e)) <= WindowMax \/ Len(Append(u, e)) > WindowMax
  <2> HIDE DEF u, e
  <2> QED
    BY <1>1, <1>6
<1> QED
  BY <1>8, <1>9, <1>10

\* The entries that Record keeps, with the new one.
LEMMA KeptIs ==
  ASSUME now \in 0..MaxNow, NEW w \in Seq(Entries), NEW m \in 1..(Len(w) + 1),
         NEW e \in Entries
  PROVE  LET u == SubSeq(w, m, Len(w))
             v == Append(u, e)
             n == Len(w) - m + 2
         IN /\ u \in Seq(Entries) /\ Len(u) = n - 1
            /\ \A i \in 1..(n - 1) : u[i] = w[m + i - 1]
            /\ v \in Seq(Entries) /\ Len(v) = n /\ n \in Nat \ {0}
            /\ \A i \in 1..(n - 1) : m + i - 1 \in 1..Len(w) /\ v[i] = w[m + i - 1]
            /\ v[n] = e
<1> DEFINE u == SubSeq(w, m, Len(w))
           v == Append(u, e)
           n == Len(w) - m + 2
<1>1. Len(w) \in Nat /\ \A i \in m..Len(w) : w[i] \in Entries
  BY LenProperties, ElementOfSeq
<1>2. u \in Seq(Entries) /\ Len(u) = n - 1 /\ n \in Nat \ {0} /\ n - 1 \in Nat
      /\ \A i \in 1..(n - 1) : u[i] = w[m + i - 1] /\ m + i - 1 \in 1..Len(w)
  <2>1. n \in Nat \ {0} /\ n - 1 \in Nat /\ Len(w) - m + 1 = n - 1 /\ m \in Int
    BY <1>1
  <2>2. u \in Seq(Entries) /\ Len(u) = n - 1 /\ \A i \in 1..(n - 1) : u[i] = w[m + i - 1]
    BY <1>1, <2>1, SubSeqProperties
  <2>3. \A i \in 1..(n - 1) : m + i - 1 \in 1..Len(w)
    BY <1>1
  <2> QED
    BY <2>1, <2>2, <2>3
<1> HIDE DEF u, n
<1>3. v \in Seq(Entries) /\ Len(v) = n /\ \A i \in 1..(n - 1) : v[i] = u[i]
  BY <1>2
<1>4. v[n] = e
  BY <1>2
<1> QED
  BY <1>2, <1>3, <1>4 DEF u, n

-----------------------------------------------------------------------------
\* ---- what an evaluation does to the log and to each window ----

Called(d, p, report, out) == [dest |-> d, payload |-> p, at |-> now, report |-> report, out |-> out]

Visits(d, p, id) == windows'[d][id] = Record(windows[d][id], Evidence(Text[id], p))

\* The three outcomes: alone, across calls, and neither.
Evaluated(d, p, report, out) ==
  /\ log' = Append(log, Called(d, p, report, out))
  /\ windows' \in [Dests -> [Ids -> Seq(Entries)]]
  /\ \A e \in Dests, id \in Ids :
       \/ windows'[e][id] = windows[e][id]
       \/ e = d /\ id \in ToSet(sources) /\ Visits(d, p, id)
  /\ report = None /\ d \in Dests => \A id \in ToSet(sources) : Visits(d, p, id) /\ ~Crosses(d, id, p)
  /\ report \in Ids => d \in Dests /\ Crosses(d, report, p)

LEMMA EntriesKept ==
  ASSUME TypeOK, TimesInv, NEW d \in Dests, NEW id \in Ids, NEW p \in Payloads
  PROVE  LET w == windows[d][id]
             e == [text |-> Evidence(Text[id], p), at |-> now]
         IN /\ now \in 0..MaxNow /\ w \in Seq(Entries) /\ Len(w) <= WindowMax
            /\ \A i, j \in DOMAIN w : i < j => w[i].at <= w[j].at
            /\ e \in Entries /\ DOMAIN w = 1..Len(w) /\ Len(w) \in Nat
            /\ Record(w, Evidence(Text[id], p)) \in Seq(Entries)
            /\ Len(Record(w, Evidence(Text[id], p))) <= WindowMax
            /\ LET v == Record(w, Evidence(Text[id], p)) IN
                 /\ \A i, j \in DOMAIN v : i < j => v[i].at <= v[j].at
                 /\ \A i \in DOMAIN v : v[i].at <= now
<1> DEFINE w == windows[d][id]
           t == Evidence(Text[id], p)
           e == [text |-> t, at |-> now]
           v == Record(w, t)
<1>1. /\ now \in 0..MaxNow /\ w \in Seq(Entries) /\ Len(w) <= WindowMax
      /\ \A i, j \in DOMAIN w : i < j => w[i].at <= w[j].at
      /\ \A i \in DOMAIN w : w[i].at <= now
  BY DEF TypeOK, TimesInv
<1>2. e \in Entries
  BY <1>1 DEF Entries
<1>3. DOMAIN w = 1..Len(w) /\ Len(w) \in Nat /\ \A i \in 1..Len(w) : w[i] \in Entries
  BY <1>1, LenProperties, ElementOfSeq
<1>4. \A i \in 1..Len(w) : w[i].at \in Nat /\ now \in Nat
  <2>1. \A x \in Entries : x.at \in Nat
    BY CrossCallAssumption DEF Entries
  <2> QED
    BY <1>1, <1>3, <2>1, CrossCallAssumption
<1> HIDE DEF w, t
<1>5. PICK k, m \in 1..(Len(w) + 1) : v = Append(SubSeq(w, m, Len(w)), e) /\ Len(w) - m + 1 < WindowMax
  BY <1>1, RecordIs
<1> DEFINE n == Len(w) - m + 2
<1>6. /\ v \in Seq(Entries) /\ Len(v) = n /\ n \in Nat \ {0}
      /\ \A i \in 1..(n - 1) : m + i - 1 \in 1..Len(w) /\ v[i] = w[m + i - 1]
      /\ v[n] = e
  <2> HIDE DEF v, e
  <2> QED
    BY <1>1, <1>2, <1>5, KeptIs
<1>7. Len(v) <= WindowMax
  BY <1>3, <1>5, <1>6, CrossCallAssumption
<1>8. DOMAIN v = 1..n /\ v[n].at = now
  <2>1. DOMAIN v = 1..Len(v)
    <3> HIDE DEF v
    <3> QED
      BY <1>6, LenProperties
  <2> QED
    BY <1>6, <2>1
<1> HIDE DEF v, e, n
<1>9. \A i \in 1..(n - 1) : v[i].at <= now /\ v[i].at = w[m + i - 1].at
  BY <1>1, <1>3, <1>6
<1>10. \A i \in 1..n : i = n \/ i \in 1..(n - 1)
  BY <1>6
<1>11. \A i \in DOMAIN v : v[i].at <= now
  BY <1>4, <1>8, <1>9, <1>10, <1>1, CrossCallAssumption
<1>12. ASSUME NEW i \in DOMAIN v, NEW j \in DOMAIN v, i < j PROVE v[i].at <= v[j].at
  <2>1. i \in 1..(n - 1)
    BY <1>6, <1>8, <1>12
  <2>2. CASE j = n
    BY <1>8, <1>11, <2>2
  <2>3. CASE j \in 1..(n - 1)
    <3>1. m + i - 1 < m + j - 1
      BY <1>12, <2>1, <2>3
    <3> QED
      BY <1>1, <1>3, <1>6, <1>9, <2>1, <2>3, <3>1
  <2> QED
    BY <1>8, <1>10, <2>2, <2>3
<1> QED
  BY <1>1, <1>2, <1>3, <1>6, <1>7, <1>11, <1>12 DEF v, e, t, w

LEMMA EvaluationIs ==
  ASSUME TypeOK, TimesInv, NEW d \in Dests \cup {NoDomain}, NEW p \in Payloads, Evaluate(d, p)
  PROVE  /\ UNCHANGED <<now, sources, activity, since>> /\ exact' \subseteq exact
         /\ \E report \in Ids \cup {None, Alone}, out \in BOOLEAN : Evaluated(d, p, report, out)
<1>1. UNCHANGED <<now, sources, activity, since>> /\ exact' \subseteq exact
  BY DEF Evaluate, Live
<1>2. /\ windows \in [Dests -> [Ids -> Seq(Entries)]] /\ ToSet(sources) \subseteq Ids
      /\ sources \in Seq(Ids) /\ \A i \in DOMAIN sources : sources[i] \in Ids
  BY LenProperties, ElementOfSeq DEF TypeOK, ToSet
<1>3. None \notin Ids /\ Alone \notin Ids /\ None # Alone /\ NoDomain \notin Dests
  BY CrossCallAssumption
<1>4. CASE Matches(p, Live)
  <2>1. PICK out \in BOOLEAN : log' = Append(log, Called(d, p, Alone, out)) /\ windows' = windows
    BY <1>4 DEF Evaluate, Log, Called
  <2>2. Evaluated(d, p, Alone, out)
    BY <1>2, <1>3, <2>1 DEF Evaluated
  <2> QED
    BY <1>1, <2>2
<1>5. CASE ~Matches(p, Live) /\ d = NoDomain
  <2>1. PICK out \in BOOLEAN : log' = Append(log, Called(d, p, None, out)) /\ windows' = windows
    BY <1>5 DEF Evaluate, Log, Called
  <2>2. Evaluated(d, p, None, out)
    BY <1>2, <1>3, <1>5, <2>1 DEF Evaluated
  <2> QED
    BY <1>1, <2>2
<1>6. CASE ~Matches(p, Live) /\ d # NoDomain
  <2> DEFINE crossed == Crossed(d, p)
             visited == Visited(crossed)
  <2>1. /\ Accumulate(d, p, visited)
        /\ IF crossed = {} THEN Log(d, p, None)
           ELSE \E i \in crossed \cap visited : Log(d, p, sources[i])
    BY <1>6 DEF Evaluate
  <2>2. d \in Dests
    BY <1>6
  <2>3. /\ windows' \in [Dests -> [Ids -> Seq(Entries)]]
        /\ \A e \in Dests, id \in Ids :
             windows'[e][id] = IF e = d /\ \E i \in visited : sources[i] = id
                               THEN Record(windows[d][id], Evidence(Text[id], p)) ELSE windows[e][id]
    <3> DEFINE new == [id \in Ids |-> IF \E i \in visited : sources[i] = id
                                      THEN Record(windows[d][id], Evidence(Text[id], p))
                                      ELSE windows[d][id]]
    <3>1. windows' = [windows EXCEPT ![d] = new]
      BY <2>1 DEF Accumulate
    <3>2. \A id \in Ids : Record(windows[d][id], Evidence(Text[id], p)) \in Seq(Entries)
      BY <2>2, EntriesKept
    <3>3. new \in [Ids -> Seq(Entries)]
      <4> HIDE DEF visited
      <4> QED
        BY <1>2, <2>2, <3>2
    <3>4. \A id \in Ids : new[id] = IF \E i \in visited : sources[i] = id
                                    THEN Record(windows[d][id], Evidence(Text[id], p))
                                    ELSE windows[d][id]
      OBVIOUS
    <3> HIDE DEF new, visited
    <3>5. windows'[d] = new /\ \A e \in Dests : e # d => windows'[e] = windows[e]
      BY <1>2, <2>2, <3>1
    <3>6. windows' \in [Dests -> [Ids -> Seq(Entries)]]
      BY <1>2, <3>1, <3>3
    <3> QED
      BY <3>4, <3>5, <3>6
  <2>4. visited \subseteq DOMAIN sources
    BY DEF Visited
  <2>5. \A e \in Dests, id \in Ids :
          \/ windows'[e][id] = windows[e][id]
          \/ e = d /\ id \in ToSet(sources) /\ Visits(d, p, id)
    <3> HIDE DEF visited
    <3> QED
      BY <1>2, <2>2, <2>3, <2>4 DEF ToSet, Visits
  <2>6. CASE crossed = {}
    <3>1. PICK out \in BOOLEAN : log' = Append(log, Called(d, p, None, out))
      BY <2>1, <2>6 DEF Log, Called
    <3>2. \A id \in ToSet(sources) : Visits(d, p, id) /\ ~Crosses(d, id, p)
      <4> TAKE id \in ToSet(sources)
      <4>1. PICK i \in DOMAIN sources : sources[i] = id
        BY DEF ToSet
      <4>2. i \in visited
        BY <2>6 DEF Visited
      <4>3. ~Crosses(d, id, p)
        BY <2>6, <4>1 DEF Crossed
      <4>4. Visits(d, p, id)
        <5> HIDE DEF visited
        <5> QED
          BY <1>2, <2>2, <2>3, <4>1, <4>2 DEF Visits
      <4> QED
        BY <4>3, <4>4
    <3>3. Evaluated(d, p, None, out)
      BY <1>3, <2>3, <2>5, <3>1, <3>2 DEF Evaluated
    <3> QED
      BY <1>1, <3>3
  <2>7. CASE crossed # {}
    <3>1. PICK i \in crossed \cap visited : Log(d, p, sources[i])
      BY <2>1, <2>7
    <3>2. PICK out \in BOOLEAN : log' = Append(log, Called(d, p, sources[i], out))
      BY <3>1 DEF Log, Called
    <3>3. i \in DOMAIN sources /\ Crosses(d, sources[i], p)
      BY <3>1 DEF Crossed
    <3>4. Evaluated(d, p, sources[i], out)
      BY <1>2, <1>3, <2>2, <2>3, <2>5, <3>2, <3>3 DEF Evaluated
    <3> QED
      BY <1>1, <1>2, <3>3, <3>4
  <2> QED
    BY <2>6, <2>7
<1> QED
  BY <1>4, <1>5, <1>6

-----------------------------------------------------------------------------
\* ---- types and times ----

LEMMA LogGrows ==
  ASSUME TypeOK, NEW e \in Calls, log' = Append(log, e)
  PROVE  /\ log' \in Seq(Calls) /\ Len(log') = Len(log) + 1 /\ Len(log) \in Nat
         /\ DOMAIN log = 1..Len(log) /\ DOMAIN log' = 1..(Len(log) + 1)
         /\ \A i \in 1..Len(log) : log'[i] = log[i]
         /\ log'[Len(log) + 1] = e
<1>1. log \in Seq(Calls)
  BY DEF TypeOK
<1>2. log' \in Seq(Calls) /\ Len(log') = Len(log) + 1
  BY <1>1
<1>3. Len(log) \in Nat /\ DOMAIN log = 1..Len(log) /\ DOMAIN log' = 1..(Len(log) + 1)
  BY <1>1, <1>2, LenProperties
<1>4. (\A i \in 1..Len(log) : log'[i] = log[i]) /\ log'[Len(log) + 1] = e
  BY <1>1, <1>3
<1> QED
  BY <1>2, <1>3, <1>4

LEMMA CallIs ==
  ASSUME TypeOK, NEW d \in Dests \cup {NoDomain}, NEW p \in Payloads,
         NEW report \in Ids \cup {None, Alone}, NEW out \in BOOLEAN
  PROVE  Called(d, p, report, out) \in Calls
BY DEF TypeOK, Called, Calls

LEMMA InitTypes == Init => TypeOK /\ TimesInv
<1> SUFFICES ASSUME Init PROVE TypeOK /\ TimesInv
  OBVIOUS
<1> USE DEF Init
<1>1. MaxNow \in Nat /\ WindowMax \in Nat
  BY CrossCallAssumption
<1>2. /\ now \in 0..MaxNow /\ activity \in 0..now
  BY <1>1
<1>3. sources \in Seq(Ids) /\ IsInjective(sources) /\ exact \subseteq ToSet(sources)
  <2>1. <<>> \in Seq(Ids) /\ DOMAIN <<>> = {}
    BY EmptySeq
  <2> QED
    BY <2>1 DEF IsInjective
<1>4. windows \in [Dests -> [Ids -> Seq(Entries)]]
  <2>1. <<>> \in Seq(Entries)
    BY EmptySeq
  <2> QED
    BY <2>1
<1>5. \A d \in Dests, id \in Ids : windows[d][id] = <<>>
  OBVIOUS
<1>6. Len(<<>>) = 0 /\ DOMAIN <<>> = {}
  BY EmptySeq
<1>7. since \in [Ids -> 0..Len(log)] /\ log \in Seq(Calls)
  <2>1. <<>> \in Seq(Calls) /\ 0 \in 0..Len(log)
    BY <1>6, EmptySeq
  <2> QED
    BY <2>1
<1>8. TypeOK
  <2>1. \A d \in Dests, id \in Ids :
          /\ Len(windows[d][id]) <= WindowMax
          /\ \A i, j \in DOMAIN windows[d][id] : i < j => windows[d][id][i].at <= windows[d][id][j].at
    BY <1>1, <1>5, <1>6
  <2> HIDE DEF Init
  <2> QED
    BY <1>2, <1>3, <1>4, <1>7, <2>1 DEF TypeOK
<1>9. TimesInv
  BY <1>5, <1>6 DEF TimesInv
<1> QED
  BY <1>8, <1>9

LEMMA RegisterTypes ==
  ASSUME TypeOK, TimesInv, NEW id \in Ids, Register(id)
  PROVE  TypeOK' /\ TimesInv' /\ ToSet(sources') = ToSet(sources) \cup {id}
<1> USE DEF Register
<1>1. /\ sources \in Seq(Ids) /\ IsInjective(sources) /\ exact \subseteq ToSet(sources)
      /\ Len(sources) \in Nat /\ DOMAIN sources = 1..Len(sources)
  BY LenProperties DEF TypeOK
<1>2. /\ sources' \in Seq(Ids) /\ Len(sources') = Len(sources) + 1
      /\ DOMAIN sources' = 1..(Len(sources) + 1)
      /\ \A i \in 1..Len(sources) : sources'[i] = sources[i]
      /\ sources'[Len(sources) + 1] = id
  <2>1. sources' \in Seq(Ids) /\ Len(sources') = Len(sources) + 1
    BY <1>1
  <2>2. DOMAIN sources' = 1..Len(sources')
    BY <2>1, LenProperties
  <2> QED
    BY <1>1, <2>1, <2>2
<1>3. ToSet(sources') = ToSet(sources) \cup {id}
  <2>1. \A i \in DOMAIN sources' : i \in 1..Len(sources) \/ i = Len(sources) + 1
    BY <1>1, <1>2
  <2>2. \A i \in 1..Len(sources) : i \in DOMAIN sources'
    BY <1>1, <1>2
  <2>3. Len(sources) + 1 \in DOMAIN sources'
    BY <1>1, <1>2
  <2> QED
    BY <1>1, <1>2, <2>1, <2>2, <2>3 DEF ToSet
<1>4. IsInjective(sources')
  <2> SUFFICES ASSUME NEW i \in DOMAIN sources', NEW j \in DOMAIN sources', sources'[i] = sources'[j]
               PROVE  i = j
    BY DEF IsInjective
  <2>1. \A k \in 1..Len(sources) : sources[k] # id
    BY <1>1 DEF ToSet
  <2>2. i \in 1..Len(sources) \/ i = Len(sources) + 1
    BY <1>1, <1>2
  <2>3. j \in 1..Len(sources) \/ j = Len(sources) + 1
    BY <1>1, <1>2
  <2> QED
    BY <1>1, <1>2, <2>1, <2>2, <2>3 DEF IsInjective
<1>5. exact' \subseteq ToSet(sources')
  BY <1>1, <1>3
<1>6. since' \in [Ids -> 0..Len(log)] /\ log \in Seq(Calls)
  <2>1. since \in [Ids -> 0..Len(log)] /\ log \in Seq(Calls) /\ Len(log) \in Nat
    BY LenProperties DEF TypeOK
  <2>2. Len(log) \in 0..Len(log)
    BY <2>1
  <2> QED
    BY <2>1, <2>2
<1>7. now \in 0..MaxNow /\ now \in Nat /\ now \in 0..now
  BY CrossCallAssumption DEF TypeOK
<1>8. TypeOK'
  <2>1. now' \in 0..MaxNow /\ activity' \in 0..now'
    BY <1>7
  <2>2. windows' \in [Dests -> [Ids -> Seq(Entries)]]
        /\ \A d \in Dests, i \in Ids :
             /\ Len(windows'[d][i]) <= WindowMax
             /\ \A j, k \in DOMAIN windows'[d][i] : j < k => windows'[d][i][j].at <= windows'[d][i][k].at
    BY DEF TypeOK
  <2>3. since' \in [Ids -> 0..Len(log')] /\ log' \in Seq(Calls)
    BY <1>6
  <2> QED
    BY <1>2, <1>4, <1>5, <2>1, <2>2, <2>3 DEF TypeOK
<1>9. TimesInv'
  BY DEF TimesInv
<1> QED
  BY <1>3, <1>8, <1>9

LEMMA EvaluateTypes ==
  ASSUME TypeOK, TimesInv, NEW d \in Dests \cup {NoDomain}, NEW p \in Payloads, Evaluate(d, p)
  PROVE  TypeOK' /\ TimesInv'
<1>1. UNCHANGED <<now, sources, activity, since>> /\ exact' \subseteq exact
  BY EvaluationIs
<1>2. PICK report \in Ids \cup {None, Alone}, out \in BOOLEAN : Evaluated(d, p, report, out)
  BY EvaluationIs
<1> DEFINE e == Called(d, p, report, out)
<1>3. e \in Calls /\ log' = Append(log, e) /\ e.at = now
  BY <1>2, CallIs DEF Evaluated, Called
<1> HIDE DEF e
<1>4. /\ log' \in Seq(Calls) /\ Len(log') = Len(log) + 1 /\ Len(log) \in Nat
      /\ DOMAIN log = 1..Len(log) /\ DOMAIN log' = 1..(Len(log) + 1)
      /\ \A i \in 1..Len(log) : log'[i] = log[i]
      /\ log'[Len(log) + 1] = e
  BY <1>3, LogGrows
<1>5. \A f \in Dests, id \in Ids :
        \/ windows'[f][id] = windows[f][id]
        \/ f = d /\ windows'[f][id] = Record(windows[f][id], Evidence(Text[id], p))
  BY <1>2 DEF Evaluated, Visits
<1>6. ASSUME NEW f \in Dests, NEW id \in Ids
      PROVE  LET v == windows'[f][id] IN
             /\ Len(v) <= WindowMax
             /\ \A i, j \in DOMAIN v : i < j => v[i].at <= v[j].at
             /\ \A i \in DOMAIN v : v[i].at <= now
  <2>1. CASE windows'[f][id] = windows[f][id]
    BY <2>1 DEF TypeOK, TimesInv
  <2>2. CASE windows'[f][id] = Record(windows[f][id], Evidence(Text[id], p))
    BY <2>2, EntriesKept
  <2> QED
    BY <1>5, <2>1, <2>2
<1>7. since \in [Ids -> 0..(Len(log) + 1)]
  <2>1. since \in [Ids -> 0..Len(log)] /\ \A x \in 0..Len(log) : x \in 0..(Len(log) + 1)
    BY <1>4 DEF TypeOK
  <2> QED
    BY <2>1
<1>8. windows' \in [Dests -> [Ids -> Seq(Entries)]]
  BY <1>2 DEF Evaluated
<1>9. TypeOK'
  <2>1. /\ now \in 0..MaxNow /\ activity \in 0..now
        /\ sources \in Seq(Ids) /\ IsInjective(sources) /\ exact' \subseteq ToSet(sources)
    BY <1>1 DEF TypeOK
  <2>2. now' \in 0..MaxNow /\ activity' \in 0..now' /\ sources' = sources
    BY <1>1, <2>1
  <2>3. since' \in [Ids -> 0..Len(log')]
    BY <1>1, <1>4, <1>7
  <2>4. \A f \in Dests, id \in Ids :
          /\ Len(windows'[f][id]) <= WindowMax
          /\ \A i, j \in DOMAIN windows'[f][id] : i < j => windows'[f][id][i].at <= windows'[f][id][j].at
    BY <1>6
  <2> QED
    BY <1>4, <1>8, <2>1, <2>2, <2>3, <2>4 DEF TypeOK
<1>10. TimesInv'
  <2>1. \A i \in 1..(Len(log) + 1) : i = Len(log) + 1 \/ i \in 1..Len(log)
    BY <1>4
  <2>2. \A i \in 1..Len(log) : log[i].at <= now
    BY <1>4 DEF TimesInv
  <2>3. now <= now
    BY CrossCallAssumption DEF TypeOK
  <2>4. \A i \in DOMAIN log' : log'[i].at <= now'
    BY <1>1, <1>3, <1>4, <2>1, <2>2, <2>3
  <2>5. ASSUME NEW i \in DOMAIN log', NEW j \in DOMAIN log', i < j
        PROVE  log'[i].at <= log'[j].at
    <3>1. i \in 1..Len(log)
      BY <1>4, <2>5
    <3>2. CASE j = Len(log) + 1
      BY <1>3, <1>4, <2>2, <3>1, <3>2
    <3>3. CASE j \in 1..Len(log)
      BY <1>4, <2>5, <3>1, <3>3 DEF TimesInv
    <3> QED
      BY <1>4, <2>1, <3>2, <3>3
  <2> QED
    BY <1>1, <1>6, <2>4, <2>5 DEF TimesInv
<1> QED
  BY <1>9, <1>10

LEMMA PassTypes ==
  ASSUME TypeOK, TimesInv, Pass
  PROVE  TypeOK' /\ TimesInv'
<1> USE DEF Pass
<1>1. /\ now \in Nat /\ now' = now + 1 /\ now' \in 0..MaxNow /\ activity \in 0..now'
  BY CrossCallAssumption DEF TypeOK
<1>2. TypeOK'
  <2>1. /\ sources' = sources /\ exact' = exact /\ activity' = activity
        /\ windows' = windows /\ since' = since /\ log' = log
    OBVIOUS
  <2>2. activity' \in 0..now'
    BY <1>1, <2>1
  <2>3. sources' \in Seq(Ids) /\ IsInjective(sources') /\ exact' \subseteq ToSet(sources')
    BY <2>1 DEF TypeOK
  <2>4. /\ windows' \in [Dests -> [Ids -> Seq(Entries)]]
        /\ \A d \in Dests, id \in Ids :
             /\ Len(windows'[d][id]) <= WindowMax
             /\ \A i, j \in DOMAIN windows'[d][id] :
                  i < j => windows'[d][id][i].at <= windows'[d][id][j].at
    BY <2>1 DEF TypeOK
  <2>5. since' \in [Ids -> 0..Len(log')] /\ log' \in Seq(Calls)
    BY <2>1 DEF TypeOK
  <2> QED
    BY <1>1, <2>2, <2>3, <2>4, <2>5, Zenon DEF TypeOK
<1>3. \A i \in DOMAIN log : log[i].at \in Nat
  <2>1. log \in Seq(Calls)
    BY DEF TypeOK
  <2>2. \A i \in DOMAIN log : log[i] \in Calls
    BY <2>1, LenProperties, ElementOfSeq
  <2> QED
    BY <2>2, CrossCallAssumption DEF Calls
<1>4. \A d \in Dests, id \in Ids : \A k \in DOMAIN windows[d][id] : windows[d][id][k].at \in Nat
  <2> TAKE d \in Dests, id \in Ids
  <2>1. windows[d][id] \in Seq(Entries)
    BY DEF TypeOK
  <2>2. \A k \in DOMAIN windows[d][id] : windows[d][id][k] \in Entries
    BY <2>1, LenProperties, ElementOfSeq
  <2> QED
    BY <2>2, CrossCallAssumption DEF Entries
<1>5. \A x \in Nat : x <= now => x <= now'
  BY <1>1
<1>6. TimesInv'
  BY <1>3, <1>4, <1>5 DEF TimesInv
<1> QED
  BY <1>2, <1>6

LEMMA NextTypes == TypeOK /\ TimesInv /\ [Next]_vars => TypeOK' /\ TimesInv'
<1> SUFFICES ASSUME TypeOK, TimesInv, [Next]_vars PROVE TypeOK' /\ TimesInv'
  OBVIOUS
<1>1. CASE Next
  BY <1>1, RegisterTypes, EvaluateTypes, PassTypes DEF Next
<1>2. CASE UNCHANGED vars
  <2>1. /\ now' = now /\ sources' = sources /\ exact' = exact /\ activity' = activity
        /\ windows' = windows /\ since' = since /\ log' = log
    BY <1>2 DEF vars
  <2>2. TypeOK'
    BY <2>1 DEF TypeOK
  <2>3. TimesInv'
    BY <2>1 DEF TimesInv
  <2> QED
    BY <2>2, <2>3
<1> QED
  BY <1>1, <1>2

(* The variables keep their types: sources are registered once, what the   *)
(* exact matcher holds is among them, and a window never holds more than   *)
(* window_max_calls entries, nor out of the order of the calls.            *)
THEOREM TypeCorrect == Spec => []TypeOK
<1>1. Init => TypeOK /\ TimesInv
  BY InitTypes
<1>2. TypeOK /\ TimesInv /\ [Next]_vars => TypeOK' /\ TimesInv'
  BY NextTypes
<1> QED
  BY <1>1, <1>2, PTL DEF Spec

-----------------------------------------------------------------------------
\* ---- the texts of a window ----

LEMMA TextsOfIs ==
  ASSUME NEW w \in Seq(Entries)
  PROVE  /\ TextsOf(w) \in Seq(Seq(Symbols)) /\ Len(TextsOf(w)) = Len(w)
         /\ DOMAIN w = 1..Len(w) /\ Len(w) \in Nat
         /\ \A i \in 1..Len(w) : TextsOf(w)[i] = w[i].text
<1>1. DOMAIN w = 1..Len(w) /\ Len(w) \in Nat /\ \A i \in 1..Len(w) : w[i] \in Entries
  BY LenProperties, ElementOfSeq
<1>2. \A id \in Ids, p \in Payloads : Evidence(Text[id], p) \in Seq(Symbols)
  <2>1. \A id \in Ids : Text[id] \in Seq(Symbols)
    BY CrossCallAssumption
  <2> QED
    BY <2>1, EvidenceIsText
<1>3. \A x \in Entries : x.text \in Seq(Symbols)
  BY <1>2 DEF Entries
<1>4. TextsOf(w) = [i \in 1..Len(w) |-> w[i].text]
  BY <1>1 DEF TextsOf
<1>5. TextsOf(w) \in [1..Len(w) -> Seq(Symbols)]
  BY <1>1, <1>3, <1>4
<1> QED
  BY <1>1, <1>4, <1>5

\* The later entries of a window are not over the threshold alone.
LEMMA OverLonger ==
  ASSUME NEW s \in Seq(Symbols), NEW w \in Seq(Entries),
         NEW k \in 1..(Len(w) + 1), NEW m \in 1..(Len(w) + 1), k <= m,
         Over(s, TextsOf(SubSeq(w, m, Len(w))))
  PROVE  Over(s, TextsOf(SubSeq(w, k, Len(w))))
<1> DEFINE u == SubSeq(w, k, Len(w))
           v == SubSeq(w, m, Len(w))
           q == TextsOf(u)
           j == m - k + 1
<1>1. Len(w) \in Nat /\ \A i \in 1..Len(w) : w[i] \in Entries
  BY LenProperties, ElementOfSeq
<1>2. u \in Seq(Entries) /\ Len(u) = Len(w) - k + 1 /\ \A i \in 1..Len(u) : u[i] = w[k + i - 1]
  BY <1>1, SubSeqProperties
<1>3. v \in Seq(Entries) /\ Len(v) = Len(w) - m + 1 /\ \A i \in 1..Len(v) : v[i] = w[m + i - 1]
  BY <1>1, SubSeqProperties
<1>4. Over(s, TextsOf(v))
  OBVIOUS
<1> HIDE DEF u, v
<1>5. /\ q \in Seq(Seq(Symbols)) /\ Len(q) = Len(u)
      /\ \A i \in 1..Len(u) : q[i] = u[i].text
  BY <1>2, TextsOfIs
<1>6. /\ TextsOf(v) \in Seq(Seq(Symbols)) /\ Len(TextsOf(v)) = Len(v)
      /\ \A i \in 1..Len(v) : TextsOf(v)[i] = v[i].text
  BY <1>3, TextsOfIs
<1> HIDE DEF q
<1>7. j \in 1..(Len(q) + 1) /\ Len(q) - j + 1 = Len(v) /\ Len(q) \in Nat
  BY <1>1, <1>2, <1>3, <1>5
<1>8. /\ SubSeq(q, j, Len(q)) \in Seq(Seq(Symbols)) /\ Len(SubSeq(q, j, Len(q))) = Len(v)
      /\ \A i \in 1..Len(v) : SubSeq(q, j, Len(q))[i] = q[j + i - 1]
  <2>1. \A i \in j..Len(q) : q[i] \in Seq(Symbols)
    BY <1>5, <1>7, ElementOfSeq
  <2> HIDE DEF j
  <2> QED
    BY <1>7, <2>1, SubSeqProperties
<1>9. \A i \in 1..Len(v) : SubSeq(q, j, Len(q))[i] = TextsOf(v)[i]
  <2> TAKE i \in 1..Len(v)
  <2>1. j + i - 1 \in 1..Len(u) /\ k + (j + i - 1) - 1 = m + i - 1
    BY <1>1, <1>2, <1>3, SMTT(30)
  <2>2. u[j + i - 1] = w[m + i - 1]
    BY <1>2, <2>1
  <2> HIDE DEF j
  <2> QED
    BY <1>3, <1>5, <1>6, <1>8, <2>1, <2>2, ZenonT(40)
<1> HIDE DEF j
<1>10. SubSeq(q, j, Len(q)) = TextsOf(v)
  BY <1>6, <1>8, <1>9, SeqEqual
<1>11. Over(s, q)
  BY <1>4, <1>5, <1>7, <1>10, OverSuffix
<1> QED
  BY <1>11 DEF q, u

-----------------------------------------------------------------------------
\* ---- the calls of a window ----

LEMMA CallsToIs ==
  ASSUME TypeOK, NEW d \in Dests, NEW id \in Ids
  PROVE  /\ CallsTo(d, id) \subseteq 1..Len(log) /\ Len(log) \in Nat
         /\ CallsTo(d, id) # {} => id \in ToSet(sources)
<1>1. since[id] \in 0..Len(log) /\ Len(log) \in Nat
  BY LenProperties DEF TypeOK
<1> QED
  BY <1>1 DEF CallsTo

LEMMA RegisterCalls ==
  ASSUME TypeOK, NEW id \in Ids, Register(id), NEW d \in Dests, NEW o \in Ids
  PROVE  CallsTo(d, o)' = CallsTo(d, o)
<1>1. ToSet(sources') = ToSet(sources) \cup {id} /\ id \notin ToSet(sources) /\ log' = log
  <2>1. sources \in Seq(Ids)
    BY DEF TypeOK
  <2>2. Len(sources) \in Nat /\ DOMAIN sources = 1..Len(sources)
    BY <2>1, LenProperties
  <2>3. sources' = Append(sources, id)
    BY DEF Register
  <2>4. /\ DOMAIN sources' = 1..(Len(sources) + 1)
        /\ \A i \in 1..Len(sources) : sources'[i] = sources[i]
        /\ sources'[Len(sources) + 1] = id
    <3>1. sources' \in Seq(Ids) /\ Len(sources') = Len(sources) + 1
      BY <2>1, <2>3
    <3> QED
      BY <2>1, <2>2, <2>3, <3>1, LenProperties
  <2>5. \A i \in 1..(Len(sources) + 1) : i \in 1..Len(sources) \/ i = Len(sources) + 1
    BY <2>2
  <2>6. Len(sources) + 1 \in 1..(Len(sources) + 1) /\ 1..Len(sources) \subseteq 1..(Len(sources) + 1)
    BY <2>2
  <2>7. {sources'[i] : i \in 1..(Len(sources) + 1)} = {sources[i] : i \in 1..Len(sources)} \cup {id}
    BY <2>4, <2>5, <2>6
  <2> QED
    BY <2>2, <2>4, <2>7 DEF ToSet, Register
<1>2. since' = [since EXCEPT ![id] = Len(log)] /\ since \in [Ids -> 0..Len(log)] /\ Len(log) \in Nat
  BY LenProperties DEF Register, TypeOK
<1>3. CASE o = id
  <2>1. since'[o] = Len(log) /\ \A i : i \notin (Len(log) + 1)..Len(log)
    BY <1>2, <1>3
  <2> QED
    BY <1>1, <1>3, <2>1 DEF CallsTo
<1>4. CASE o # id
  <2>1. since'[o] = since[o]
    BY <1>2, <1>4
  <2> QED
    BY <1>1, <1>4, <2>1 DEF CallsTo
<1> QED
  BY <1>3, <1>4

LEMMA EvaluatedCalls ==
  ASSUME TypeOK, NEW d \in Dests \cup {NoDomain}, NEW p \in Payloads,
         NEW report \in Ids \cup {None, Alone}, NEW out \in BOOLEAN,
         Evaluated(d, p, report, out), UNCHANGED <<since, sources>>
  PROVE  LET last == Len(log) + 1 IN
         /\ Len(log) \in Nat /\ Len(log') = last
         /\ \A i \in 1..Len(log) : log'[i] = log[i]
         /\ log'[last] = Called(d, p, report, out)
         /\ \A e \in Dests, id \in Ids :
              CallsTo(e, id)' = IF e = d /\ id \in ToSet(sources) THEN CallsTo(e, id) \cup {last}
                                ELSE CallsTo(e, id)
<1> DEFINE last == Len(log) + 1
<1>1. Called(d, p, report, out) \in Calls /\ log' = Append(log, Called(d, p, report, out))
  BY CallIs DEF Evaluated
<1>2. /\ Len(log) \in Nat /\ Len(log') = last
      /\ \A i \in 1..Len(log) : log'[i] = log[i]
      /\ log'[last] = Called(d, p, report, out)
  BY <1>1, LogGrows
<1>3. log'[last].dest = d
  BY <1>2 DEF Called
<1>4. ASSUME NEW e \in Dests, NEW id \in Ids
      PROVE  CallsTo(e, id)' = IF e = d /\ id \in ToSet(sources) THEN CallsTo(e, id) \cup {last}
                               ELSE CallsTo(e, id)
  <2>1. since[id] \in 0..Len(log) /\ since' = since /\ sources' = sources
    BY DEF TypeOK
  <2>2. CallsTo(e, id)' = {i \in (since[id] + 1)..last : id \in ToSet(sources) /\ log'[i].dest = e}
    BY <1>2, <2>1 DEF CallsTo
  <2>3. (since[id] + 1)..last = ((since[id] + 1)..Len(log)) \cup {last}
        /\ (since[id] + 1)..Len(log) \subseteq 1..Len(log)
    BY <1>2, <2>1
  <2>4. CallsTo(e, id) = {i \in (since[id] + 1)..Len(log) : id \in ToSet(sources) /\ log'[i].dest = e}
    BY <1>2, <2>3 DEF CallsTo
  <2> HIDE DEF last
  <2> QED
    BY <1>3, <2>2, <2>3, <2>4
<1> QED
  BY <1>2, <1>4

-----------------------------------------------------------------------------
\* ---- steps that make no call, and calls that are over ----

CallsInv == WindowInv /\ BelowInv /\ DeservedInv

LEMMA SameCalls ==
  ASSUME CallsInv, UNCHANGED <<log, windows>>,
         \A d \in Dests, id \in Ids : CallsTo(d, id)' = CallsTo(d, id)
  PROVE  CallsInv'
<1>1. \A d \in Dests, id \in Ids : Quiet(d, id)' <=> Quiet(d, id)
  BY DEF Quiet
<1>2. WindowInv'
  <2> SUFFICES ASSUME NEW d \in Dests, NEW id \in Ids
               PROVE  \E c : Recorded(c, d, id)' /\ (Quiet(d, id)' => Complete(c, d, id)')
    BY DEF WindowInv
  <2>1. PICK c : Recorded(c, d, id) /\ (Quiet(d, id) => Complete(c, d, id))
    BY DEF CallsInv, WindowInv
  <2>2. Recorded(c, d, id)'
    BY <2>1 DEF Recorded
  <2>3. Complete(c, d, id) => Complete(c, d, id)'
    BY DEF Complete, Outdated
  <2> QED
    BY <1>1, <2>1, <2>2, <2>3
<1>3. BelowInv'
  BY <1>1 DEF CallsInv, BelowInv
<1>4. DeservedInv'
  <2> SUFFICES ASSUME NEW d \in Dests, NEW id \in Ids, NEW last \in CallsTo(d, id), log[last].report = id
               PROVE  \E q \in 0..(WindowMax - 1) : \E f : DOMAIN f = 1..q /\ Crossing(f, last, d, id)'
    BY DEF DeservedInv
  <2>1. PICK q \in 0..(WindowMax - 1) : \E f : DOMAIN f = 1..q /\ Crossing(f, last, d, id)
    BY DEF CallsInv, DeservedInv
  <2>2. PICK f : DOMAIN f = 1..q /\ Crossing(f, last, d, id)
    BY <2>1
  <2>3. Crossing(f, last, d, id)'
    BY <2>1, <2>2 DEF Crossing, Says, Earlier
  <2> QED
    BY <2>1, <2>2, <2>3
<1> QED
  BY <1>2, <1>3, <1>4 DEF CallsInv

\* What was said stays said: the log only grows.
LEMMA StillSays ==
  ASSUME NEW f, NEW id, \A i \in DOMAIN f : log'[f[i]] = log[f[i]]
  PROVE  Says(f, id)' = Says(f, id)
BY DEF Says

LEMMA StillCrossing ==
  ASSUME TypeOK, NEW d \in Dests \cup {NoDomain}, NEW p \in Payloads,
         NEW report \in Ids \cup {None, Alone}, NEW out \in BOOLEAN,
         Evaluated(d, p, report, out), UNCHANGED <<since, sources>>,
         NEW e \in Dests, NEW id \in Ids, NEW last \in CallsTo(e, id),
         NEW f, Crossing(f, last, e, id)
  PROVE  Crossing(f, last, e, id)'
<1>1. /\ Len(log) \in Nat
      /\ \A i \in 1..Len(log) : log'[i] = log[i]
      /\ CallsTo(e, id)' \subseteq CallsTo(e, id) \cup {Len(log) + 1}
      /\ CallsTo(e, id) \subseteq CallsTo(e, id)'
  BY EvaluatedCalls
<1>2. CallsTo(e, id) \subseteq 1..Len(log)
  BY CallsToIs
<1>3. \A i \in CallsTo(e, id) : log'[i] = log[i]
  BY <1>1, <1>2
<1>4. Earlier(last, e, id)' = Earlier(last, e, id)
  <2>1. \A i \in CallsTo(e, id)' : i < last => i \in CallsTo(e, id)
    <3>1. ~(Len(log) + 1 < last)
      BY <1>1, <1>2
    <3> QED
      BY <1>1, <3>1
  <2>2. Earlier(last, e, id)' = {i \in CallsTo(e, id)' : i < last /\ log'[last].at - log'[i].at <= WindowSecs}
    BY DEF Earlier
  <2> QED
    BY <1>1, <1>3, <2>1, <2>2 DEF Earlier
<1>5. Says(f, id)' = Says(f, id)
  <2>1. \A i \in DOMAIN f : f[i] \in CallsTo(e, id)
    BY DEF Crossing, Earlier
  <2> QED
    BY <1>3, <2>1, StillSays
<1>6. Crossing(f, last, e, id)' <=>
        /\ f \in [DOMAIN f -> Earlier(last, e, id)'] /\ Increasing(f)
        /\ ~Over(Text[id], Says(f, id)')
        /\ Over(Text[id], Append(Says(f, id)', Evidence(Text[id], log'[last].payload)))
  BY DEF Crossing
<1> QED
  BY <1>3, <1>4, <1>5, <1>6 DEF Crossing

-----------------------------------------------------------------------------
\* ---- a call that leaves evidence in a window ----

LEMMA VisitedWindow ==
  ASSUME TypeOK, TimesInv, NEW d \in Dests, NEW p \in Payloads,
         NEW report \in Ids \cup {None, Alone}, NEW out \in BOOLEAN,
         Evaluated(d, p, report, out), UNCHANGED <<since, sources>>,
         NEW id \in Ids, id \in ToSet(sources), Visits(d, p, id),
         NEW c, Recorded(c, d, id), Quiet(d, id)' => Complete(c, d, id)
  PROVE  \E b : Recorded(b, d, id)' /\ (Quiet(d, id)' => Complete(b, d, id)')
<1> DEFINE w == windows[d][id]
           L == Len(w)
           t == Evidence(Text[id], p)
           e == [text |-> t, at |-> now]
           n == Len(log) + 1
           Ev(x) == Evidence(Text[id], x)
<1>1. /\ Len(log) \in Nat
      /\ \A i \in 1..Len(log) : log'[i] = log[i]
      /\ log'[n] = Called(d, p, report, out)
      /\ CallsTo(d, id)' = CallsTo(d, id) \cup {n}
  BY EvaluatedCalls
<1>2. CallsTo(d, id) \subseteq 1..Len(log)
  BY CallsToIs
<1>3. \A i \in CallsTo(d, id) : log'[i] = log[i] /\ i \in Nat /\ i < n
  BY <1>1, <1>2
<1>4. log'[n].payload = p /\ log'[n].at = now
  BY <1>1 DEF Called
<1>5. /\ now \in 0..MaxNow /\ w \in Seq(Entries) /\ L <= WindowMax
      /\ \A i, j \in DOMAIN w : i < j => w[i].at <= w[j].at
      /\ e \in Entries /\ DOMAIN w = 1..L /\ L \in Nat
  BY EntriesKept
<1>6. /\ c \in [1..L -> CallsTo(d, id)]
      /\ \A i, j \in 1..L : i < j => c[i] < c[j]
      /\ \A k \in 1..L : w[k] = [text |-> Ev(log[c[k]].payload), at |-> log[c[k]].at]
  BY DEF Recorded, Increasing
<1>7. windows'[d][id] = Record(w, t)
  BY DEF Visits
<1> HIDE DEF w, t, Ev
<1>7a. \A k \in 1..L : w[k].at = log[c[k]].at
  <2> TAKE k \in 1..L
  <2>1. w[k] = [text |-> Ev(log[c[k]].payload), at |-> log[c[k]].at]
    BY <1>6
  <2>2. \A a, x : [text |-> a, at |-> x].at = x
    OBVIOUS
  <2> QED
    BY <2>1, <2>2, ZenonT(40)
<1>8. PICK m \in 1..(L + 1) :
        /\ Record(w, t) = Append(SubSeq(w, m, L), e)
        /\ L - m + 1 < WindowMax
        /\ \/ \A i \in 1..(m - 1) : now - w[i].at > WindowSecs
           \/ m = 2 /\ L = WindowMax
  BY <1>5, RecordIs
<1> DEFINE K == L - m + 1
           v == Record(w, t)
<1>9. /\ Len(v) = K + 1 /\ K \in Nat
      /\ \A i \in 1..K : m + i - 1 \in 1..L /\ v[i] = w[m + i - 1]
      /\ v[K + 1] = e
  <2>1. L - m + 2 = K + 1 /\ (K + 1) - 1 = K /\ K \in Nat
    BY <1>5
  <2> DEFINE u == Append(SubSeq(w, m, Len(w)), e)
  <2> HIDE DEF e
  <2>2. /\ Len(u) = Len(w) - m + 2
        /\ \A i \in 1..((Len(w) - m + 2) - 1) : m + i - 1 \in 1..Len(w) /\ u[i] = w[m + i - 1]
        /\ u[Len(w) - m + 2] = e
    BY <1>5, KeptIs
  <2>3. v = u
    BY <1>8
  <2> HIDE DEF u, v
  <2> QED
    BY <2>1, <2>2, <2>3
<1> PICK b : b = [i \in 1..(K + 1) |-> IF i <= K THEN c[m + i - 1] ELSE n]
  OBVIOUS
<1>10. /\ \A i \in 1..K : b[i] = c[m + i - 1] /\ b[i] \in CallsTo(d, id)
       /\ b[K + 1] = n /\ DOMAIN b = 1..(K + 1)
  <2>1. \A i \in 1..K : i \in 1..(K + 1) /\ i <= K
    BY <1>9
  <2>2. K + 1 \in 1..(K + 1) /\ ~(K + 1 <= K)
    BY <1>9
  <2> HIDE DEF K, n
  <2> QED
    BY <1>6, <1>9, <2>1, <2>2
<1>11. \A i \in 1..(K + 1) : i \in 1..K \/ i = K + 1
  <2> HIDE DEF K
  <2> QED
    BY <1>9
<1>12. b \in [1..(K + 1) -> CallsTo(d, id)']
  BY <1>1, <1>6, <1>9
<1> HIDE DEF n, e, v, K
<1>13. Increasing(b)
  <2> SUFFICES ASSUME NEW i \in 1..(K + 1), NEW j \in 1..(K + 1), i < j
               PROVE  b[i] < b[j]
    BY <1>10 DEF Increasing
  <2>1. i \in 1..K
    BY <1>9
  <2>2. CASE j = K + 1
    BY <1>3, <1>10, <2>1, <2>2
  <2>3. CASE j \in 1..K
    <3>1. m + i - 1 < m + j - 1
      BY <2>1, <2>3
    <3> QED
      BY <1>6, <1>9, <1>10, <2>1, <2>3, <3>1, ZenonT(40)
  <2> QED
    BY <1>11, <2>2, <2>3
<1>14. \A i \in 1..(K + 1) : v[i] = [text |-> Ev(log'[b[i]].payload), at |-> log'[b[i]].at]
  <2> TAKE i \in 1..(K + 1)
  <2>1. CASE i = K + 1
    BY <1>4, <1>9, <1>10, <2>1 DEF e, t, Ev
  <2>2. CASE i \in 1..K
    <3>1. v[i] = [text |-> Ev(log[b[i]].payload), at |-> log[b[i]].at]
      <4>1. m + i - 1 \in 1..L /\ v[i] = w[m + i - 1] /\ b[i] = c[m + i - 1]
        BY <1>9, <1>10, <2>2
      <4> QED
        BY <1>6, <4>1
    <3> QED
      BY <1>3, <1>10, <2>2, <3>1
  <2> QED
    BY <1>11, <2>1, <2>2
<1>15. Recorded(b, d, id)'
  <2>1. windows'[d][id] = v /\ Len(windows'[d][id]) = K + 1
    BY <1>7, <1>9 DEF v
  <2>2. Recorded(b, d, id)' <=>
          /\ b \in [1..Len(windows'[d][id]) -> CallsTo(d, id)']
          /\ Increasing(b)
          /\ \A k \in 1..Len(windows'[d][id]) :
               windows'[d][id][k] = [text |-> Ev(log'[b[k]].payload), at |-> log'[b[k]].at]
    BY DEF Recorded, Ev
  <2> QED
    BY <1>12, <1>13, <1>14, <2>1, <2>2
<1>16. ASSUME Quiet(d, id)' PROVE Complete(b, d, id)'
  <2> SUFFICES ASSUME NEW i \in CallsTo(d, id)'
               PROVE  \/ i \in Range(b)
                      \/ \E j \in CallsTo(d, id)' : log'[j].at - log'[i].at > WindowSecs
                      \/ K + 1 = WindowMax /\ i < b[1]
    <3>1. Len(windows'[d][id]) = K + 1
      BY <1>7, <1>9 DEF v
    <3>2. Complete(b, d, id)' <=>
            \A i \in CallsTo(d, id)' :
              \/ i \in Range(b)
              \/ \E j \in CallsTo(d, id)' : log'[j].at - log'[i].at > WindowSecs
              \/ Len(windows'[d][id]) = WindowMax /\ i < b[1]
      BY DEF Complete, Outdated
    <3> QED
      BY <3>1, <3>2
  <2>1. CASE i = n
    <3>1. K + 1 \in DOMAIN b
      BY <1>9, <1>10
    <3> QED
      BY <1>10, <2>1, <3>1 DEF Range
  <2>2. CASE i \in CallsTo(d, id)
    <3>1. \/ i \in Range(c)
          \/ Outdated(i, d, id)
          \/ L = WindowMax /\ i < c[1]
      BY <1>16, <2>2 DEF Complete, w
    <3>2. log'[i] = log[i] /\ n \in CallsTo(d, id)'
      BY <1>1, <1>3, <2>2
    <3>3. ASSUME now - log[i].at > WindowSecs
          PROVE  \E j \in CallsTo(d, id)' : log'[j].at - log'[i].at > WindowSecs
      BY <1>4, <3>2, <3>3
    \* The first of a full window goes: the next is after it.
    <3>4. ASSUME m = 2, L = WindowMax
          PROVE  K + 1 = WindowMax /\ c[1] < b[1] /\ c[1] \in Nat /\ b[1] \in Nat
      <4>1. WindowMax \in Nat \ {0}
        BY CrossCallAssumption
      <4>2. K = L - 1 /\ K + 1 = WindowMax /\ 1 \in 1..L
        BY <1>5, <3>4, <4>1 DEF K
      <4>3. c[1] \in CallsTo(d, id)
        BY <1>6, <4>2
      <4>4. CASE L = 1
        <5>1. b[1] = n
          BY <1>10, <4>2, <4>4
        <5> QED
          BY <1>1, <1>3, <4>2, <4>3, <5>1 DEF n
      <4>5. CASE L # 1
        <5>1. 1 \in 1..K /\ m + 1 - 1 = 2 /\ 2 \in 1..L
          BY <1>5, <3>4, <4>2, <4>5
        <5>2. b[1] = c[2] /\ b[1] \in CallsTo(d, id)
          BY <1>10, <5>1
        <5> QED
          BY <1>3, <1>6, <4>2, <4>3, <5>1, <5>2
      <4> QED
        BY <4>4, <4>5
    <3>5. CASE i \in Range(c)
      <4>1. PICK k \in 1..L : c[k] = i
        BY <1>6, <3>5 DEF Range
      <4>2. w[k].at = log[i].at
        BY <1>7a, <4>1
      <4>3. CASE k >= m
        <5>1. k - m + 1 \in 1..K /\ m + (k - m + 1) - 1 = k
          BY <1>5, <4>3 DEF K
        <5>2. b[k - m + 1] = i /\ k - m + 1 \in DOMAIN b
          <6>1. \A x \in 1..K : x \in 1..(K + 1)
            BY <1>9
          <6> QED
            BY <1>10, <4>1, <5>1, <6>1
        <5> QED
          BY <5>2 DEF Range
      <4>4. CASE k < m /\ \A j \in 1..(m - 1) : now - w[j].at > WindowSecs
        <5>1. k \in 1..(m - 1)
          BY <1>5, <4>4
        <5> QED
          BY <3>3, <4>2, <4>4, <5>1
      <4>5. CASE k < m /\ m = 2 /\ L = WindowMax
        <5>1. k = 1
          BY <4>5
        <5> QED
          BY <3>4, <4>1, <4>5, <5>1
      <4> QED
        BY <1>5, <1>8, <4>3, <4>4, <4>5
    <3>6. CASE Outdated(i, d, id)
      <4>1. PICK j \in CallsTo(d, id) : log[j].at - log[i].at > WindowSecs
        BY <3>6 DEF Outdated
      <4> QED
        BY <1>1, <1>3, <3>2, <4>1
    <3>7. CASE L = WindowMax /\ i < c[1]
      <4>1. 1 \in 1..L /\ c[1] \in CallsTo(d, id) /\ m # 1
        <5>1. L \in Nat \ {0}
          BY <1>5, <3>7, CrossCallAssumption
        <5>2. 1 \in 1..L
          BY <5>1
        <5>3. m # 1
          BY <1>8, <3>7, <5>1
        <5> QED
          BY <1>6, <5>2, <5>3
      <4>2. CASE \A j \in 1..(m - 1) : now - w[j].at > WindowSecs
        <5>1. 1 \in 1..(m - 1) /\ w[1].at = log[c[1]].at
          BY <1>5, <1>7a, <4>1
        <5>2. log[i].at <= log[c[1]].at
          <6>1. i \in DOMAIN log /\ c[1] \in DOMAIN log
            <7>1. log \in Seq(Calls)
              BY DEF TypeOK
            <7>2. DOMAIN log = 1..Len(log)
              BY <7>1, LenProperties
            <7> QED
              BY <1>2, <2>2, <4>1, <7>2
          <6> QED
            BY <3>7, <6>1 DEF TimesInv
        <5>3. log[i].at \in Nat /\ log[c[1]].at \in Nat /\ now \in Nat
          <6>1. \A j \in 1..Len(log) : log[j] \in Calls
            BY ElementOfSeq DEF TypeOK
          <6>2. \A x \in Calls : x.at \in Nat
            BY CrossCallAssumption DEF Calls
          <6> QED
            BY <1>2, <1>5, <2>2, <4>1, <6>1, <6>2, CrossCallAssumption
        <5>4. now - log[i].at > WindowSecs
          BY <4>2, <5>1, <5>2, <5>3, CrossCallAssumption
        <5> QED
          BY <3>3, <5>4
      <4>3. CASE m = 2
        <5>1. i < b[1] /\ K + 1 = WindowMax
          BY <1>3, <2>2, <3>4, <3>7, <4>3
        <5> QED
          BY <5>1
      <4> QED
        BY <1>8, <4>2, <4>3
    <3> QED
      BY <3>1, <3>5, <3>6, <3>7
  <2> QED
    BY <1>1, <2>1, <2>2
<1> QED
  BY <1>15, <1>16

\* A window that is below the threshold stays there, unless the call crosses it.
LEMMA VisitedBelow ==
  ASSUME TypeOK, TimesInv, NEW d \in Dests, NEW p \in Payloads, NEW id \in Ids,
         Visits(d, p, id), ~Crosses(d, id, p), ~Over(Text[id], TextsOf(windows[d][id]))
  PROVE  ~Over(Text[id], TextsOf(windows'[d][id]))
<1> DEFINE w == windows[d][id]
<1>1. /\ now \in 0..MaxNow /\ w \in Seq(Entries) /\ Len(w) <= WindowMax
      /\ \A i, j \in DOMAIN w : i < j => w[i].at <= w[j].at
      /\ Len(w) \in Nat
  BY EntriesKept
<1>2. ~Over(Text[id], TextsOf(Fresh(w))) => ~Over(Text[id], TextsOf(windows'[d][id]))
  BY DEF Visits, Crosses
<1> HIDE DEF w
<1>3. PICK k \in 1..(Len(w) + 1) : Fresh(w) = SubSeq(w, k, Len(w))
  BY <1>1, RecordIs
<1>4. SubSeq(w, 1, Len(w)) = w /\ 1 \in 1..(Len(w) + 1) /\ 1 <= k
  <2>1. SubSeq(w, 1, Len(w)) = w
    BY <1>1, SubSeqFull
  <2> QED
    BY <1>1, <2>1
<1>5. Text[id] \in Seq(Symbols)
  BY CrossCallAssumption
<1>6. Over(Text[id], TextsOf(Fresh(w))) => Over(Text[id], TextsOf(w))
  BY <1>1, <1>3, <1>4, <1>5, OverLonger
<1> QED
  BY <1>2, <1>6 DEF w

\* The calls whose evidence Record keeps make the reported crossing.
LEMMA CrossingIs ==
  ASSUME TypeOK, TimesInv, NEW d \in Dests, NEW p \in Payloads, NEW id \in Ids,
         NEW out \in BOOLEAN, Evaluated(d, p, id, out), UNCHANGED <<since, sources>>,
         id \in ToSet(sources), Crosses(d, id, p), NEW c, Recorded(c, d, id),
         NEW n, n = Len(log) + 1
  PROVE  \E q \in 0..(WindowMax - 1) : \E f :
           DOMAIN f = 1..q /\ Crossing(f, n, d, id)'
<1> DEFINE w == windows[d][id]
           L == Len(w)
           t == Evidence(Text[id], p)
           e == [text |-> t, at |-> now]
           Ev(x) == Evidence(Text[id], x)
<1>1. /\ Len(log) \in Nat
      /\ \A i \in 1..Len(log) : log'[i] = log[i]
      /\ log'[n] = Called(d, p, id, out)
      /\ CallsTo(d, id)' = CallsTo(d, id) \cup {n}
  BY EvaluatedCalls
<1>2. CallsTo(d, id) \subseteq 1..Len(log)
  BY CallsToIs
<1>3. \A i \in CallsTo(d, id) : log'[i] = log[i] /\ i \in Nat /\ i < n
  BY <1>1, <1>2
<1>4. log'[n].payload = p /\ log'[n].at = now
  BY <1>1 DEF Called
<1>5. /\ now \in 0..MaxNow /\ w \in Seq(Entries) /\ L <= WindowMax
      /\ \A i, j \in DOMAIN w : i < j => w[i].at <= w[j].at
      /\ e \in Entries /\ DOMAIN w = 1..L /\ L \in Nat
      /\ Record(w, t) \in Seq(Entries)
  BY EntriesKept
<1>6. /\ c \in [1..L -> CallsTo(d, id)]
      /\ \A i, j \in 1..L : i < j => c[i] < c[j]
      /\ \A k \in 1..L : w[k] = [text |-> Ev(log[c[k]].payload), at |-> log[c[k]].at]
  BY DEF Recorded, Increasing
<1>7. ~Over(Text[id], TextsOf(Fresh(w))) /\ Over(Text[id], TextsOf(Record(w, t)))
  BY DEF Crosses
<1> HIDE DEF w, t, Ev
<1>8. \A k \in 1..L : w[k].at = log[c[k]].at /\ w[k].text = Ev(log[c[k]].payload)
  <2> TAKE k \in 1..L
  <2>1. w[k] = [text |-> Ev(log[c[k]].payload), at |-> log[c[k]].at]
    BY <1>6
  <2>2. \A a, x : [text |-> a, at |-> x].at = x
    OBVIOUS
  <2>3. \A a, x : [text |-> a, at |-> x].text = a
    OBVIOUS
  <2>4. w[k].at = log[c[k]].at
    BY <2>1, <2>2, ZenonT(40)
  <2>5. w[k].text = Ev(log[c[k]].payload)
    BY <2>1, <2>3, ZenonT(40)
  <2> QED
    BY <2>4, <2>5
<1>9. PICK k, m \in 1..(L + 1) :
        /\ k <= m /\ Fresh(w) = SubSeq(w, k, L)
        /\ Record(w, t) = Append(SubSeq(w, m, L), e)
        /\ L - m + 1 < WindowMax
        /\ \A i \in m..L : now - w[i].at <= WindowSecs
  BY <1>5, RecordIs
<1> DEFINE K == L - m + 1
           u == SubSeq(w, m, L)
           v == Append(u, e)
<1>10. /\ u \in Seq(Entries) /\ v \in Seq(Entries) /\ Len(u) = K /\ Len(v) = K + 1 /\ K \in Nat
       /\ \A i \in 1..K : m + i - 1 \in 1..L /\ m + i - 1 \in m..L
                          /\ u[i] = w[m + i - 1] /\ v[i] = w[m + i - 1]
       /\ v[K + 1] = e
  <2>1. L - m + 2 = K + 1 /\ (K + 1) - 1 = K /\ K \in Nat /\ \A i \in 1..K : m + i - 1 \in m..L
    BY <1>5
  <2> DEFINE x == SubSeq(w, m, Len(w))
             y == Append(x, e)
  <2> HIDE DEF e
  <2>2. /\ x \in Seq(Entries) /\ Len(x) = (Len(w) - m + 2) - 1
        /\ \A i \in 1..((Len(w) - m + 2) - 1) : x[i] = w[m + i - 1]
        /\ y \in Seq(Entries) /\ Len(y) = Len(w) - m + 2
        /\ \A i \in 1..((Len(w) - m + 2) - 1) : m + i - 1 \in 1..Len(w) /\ y[i] = w[m + i - 1]
        /\ y[Len(w) - m + 2] = e
    BY <1>5, KeptIs
  <2>3. u = x /\ v = y
    OBVIOUS
  <2> HIDE DEF x, y, u, v
  <2> QED
    BY <2>1, <2>2, <2>3
<1>11. ~Over(Text[id], TextsOf(u)) /\ Over(Text[id], TextsOf(v))
  <2>1. Text[id] \in Seq(Symbols)
    BY CrossCallAssumption
  <2>2. Over(Text[id], TextsOf(u)) => Over(Text[id], TextsOf(SubSeq(w, k, L)))
    BY <1>5, <1>9, <2>1, OverLonger
  <2> QED
    BY <1>7, <1>9, <2>2
<1> HIDE DEF u, v, K
<1> PICK f : f = [i \in 1..K |-> c[m + i - 1]]
  OBVIOUS
<1>12. /\ DOMAIN f = 1..K
       /\ \A i \in 1..K : f[i] = c[m + i - 1] /\ f[i] \in CallsTo(d, id)
  BY <1>6, <1>10
<1>13. Increasing(f)
  <2> SUFFICES ASSUME NEW i \in 1..K, NEW j \in 1..K, i < j
               PROVE  f[i] < f[j]
    BY <1>12 DEF Increasing
  <2>1. m + i - 1 < m + j - 1
    OBVIOUS
  <2> QED
    BY <1>6, <1>10, <1>12, <2>1
<1>14. f \in [DOMAIN f -> Earlier(n, d, id)']
  <2>1. Earlier(n, d, id)' = {i \in CallsTo(d, id)' : i < n /\ log'[n].at - log'[i].at <= WindowSecs}
    BY DEF Earlier
  <2>2. \A i \in 1..K : f[i] \in Earlier(n, d, id)'
    <3> TAKE i \in 1..K
    <3>1. now - w[m + i - 1].at <= WindowSecs /\ w[m + i - 1].at = log[f[i]].at
      BY <1>8, <1>9, <1>10, <1>12
    <3>2. f[i] \in CallsTo(d, id)' /\ f[i] < n /\ log'[f[i]] = log[f[i]]
      BY <1>1, <1>3, <1>12
    <3> QED
      BY <1>4, <2>1, <3>1, <3>2
  <2>3. f = [i \in 1..K |-> f[i]]
    BY <1>12
  <2> QED
    BY <1>12, <2>2, <2>3
<1>15. Says(f, id)' = TextsOf(u)
  <2>1. Says(f, id)' = [i \in 1..K |-> Ev(log'[f[i]].payload)]
    BY <1>12 DEF Says, Ev
  <2>2. TextsOf(u) = [i \in 1..K |-> u[i].text]
    <3>1. DOMAIN u = 1..K
      BY <1>10, LenProperties
    <3> QED
      BY <3>1 DEF TextsOf
  <2>3. \A i \in 1..K : Ev(log'[f[i]].payload) = u[i].text
    <3> TAKE i \in 1..K
    <3>1. u[i].text = Ev(log[f[i]].payload)
      BY <1>8, <1>10, <1>12
    <3>2. log'[f[i]] = log[f[i]]
      BY <1>3, <1>12
    <3> QED
      BY <3>1, <3>2
  <2> QED
    BY <2>1, <2>2, <2>3
<1>16. Append(TextsOf(u), Ev(log'[n].payload)) = TextsOf(v)
  <2>1. /\ TextsOf(u) \in Seq(Seq(Symbols)) /\ Len(TextsOf(u)) = K
        /\ \A i \in 1..K : TextsOf(u)[i] = u[i].text
    BY <1>10, TextsOfIs
  <2>2. /\ TextsOf(v) \in Seq(Seq(Symbols)) /\ Len(TextsOf(v)) = K + 1
        /\ \A i \in 1..(K + 1) : TextsOf(v)[i] = v[i].text
    BY <1>10, TextsOfIs
  <2>3. Ev(p) = v[K + 1].text /\ Ev(p) \in Seq(Symbols)
    <3>1. v[K + 1].text = Ev(p)
      BY <1>10 DEF e, t, Ev
    <3>2. Text[id] \in Seq(Symbols)
      BY CrossCallAssumption
    <3>3. Ev(p) \in Seq(Symbols)
      BY <3>2, EvidenceIsText DEF Ev
    <3> QED
      BY <3>1, <3>3
  <2> PICK g : g = Append(TextsOf(u), Ev(p))
    OBVIOUS
  <2>4. /\ g \in Seq(Seq(Symbols)) /\ Len(g) = K + 1 /\ g[K + 1] = Ev(p)
        /\ \A i \in 1..K : g[i] = u[i].text
    <3>1. g \in Seq(Seq(Symbols)) /\ Len(g) = Len(TextsOf(u)) + 1
      BY <2>1, <2>3
    <3>2. (\A i \in 1..Len(TextsOf(u)) : g[i] = TextsOf(u)[i]) /\ g[Len(TextsOf(u)) + 1] = Ev(p)
      BY <1>10, <2>1, <2>3
    <3> QED
      BY <2>1, <3>1, <3>2
  <2>5. \A i \in 1..(K + 1) : g[i] = TextsOf(v)[i]
    <3> TAKE i \in 1..(K + 1)
    <3>1. CASE i = K + 1
      BY <2>2, <2>3, <2>4, <3>1
    <3>2. CASE i # K + 1
      <4>1. i \in 1..K
        BY <1>10, <3>2
      <4> QED
        BY <1>10, <2>2, <2>4, <4>1, ZenonT(40)
    <3> QED
      BY <3>1, <3>2
  <2>6. g = TextsOf(v)
    BY <2>2, <2>4, <2>5, SeqEqual
  <2> QED
    BY <1>4, <2>6
<1>17. Crossing(f, n, d, id)'
  <2>1. Crossing(f, n, d, id)' <=>
          /\ f \in [DOMAIN f -> Earlier(n, d, id)'] /\ Increasing(f)
          /\ ~Over(Text[id], Says(f, id)')
          /\ Over(Text[id], Append(Says(f, id)', Ev(log'[n].payload)))
    BY DEF Crossing, Ev
  <2> QED
    BY <1>11, <1>13, <1>14, <1>15, <1>16, <2>1
<1>18. K \in 0..(WindowMax - 1)
  BY <1>9, <1>10, CrossCallAssumption DEF K
<1> QED
  BY <1>12, <1>17, <1>18

-----------------------------------------------------------------------------
\* ---- the invariant of the windows ----

LEMMA EvaluateCalls ==
  ASSUME TypeOK, TimesInv, CallsInv,
         NEW d \in Dests \cup {NoDomain}, NEW p \in Payloads, Evaluate(d, p)
  PROVE  CallsInv'
<1>1. UNCHANGED <<since, sources>>
  BY EvaluationIs
<1>2. PICK report \in Ids \cup {None, Alone}, out \in BOOLEAN : Evaluated(d, p, report, out)
  BY EvaluationIs
<1> PICK n : n = Len(log) + 1
  OBVIOUS
<1>3. /\ Len(log) \in Nat
      /\ \A i \in 1..Len(log) : log'[i] = log[i]
      /\ log'[n] = Called(d, p, report, out)
      /\ \A f \in Dests, id \in Ids :
           CallsTo(f, id)' = IF f = d /\ id \in ToSet(sources) THEN CallsTo(f, id) \cup {n}
                             ELSE CallsTo(f, id)
  <2>1. /\ Len(log) \in Nat
        /\ \A i \in 1..Len(log) : log'[i] = log[i]
        /\ log'[Len(log) + 1] = Called(d, p, report, out)
    BY <1>1, <1>2, EvaluatedCalls
  <2>2. \A f \in Dests, id \in Ids :
          CallsTo(f, id)' = IF f = d /\ id \in ToSet(sources) THEN CallsTo(f, id) \cup {Len(log) + 1}
                            ELSE CallsTo(f, id)
    <3> TAKE f \in Dests, id \in Ids
    <3>1. CASE f = d /\ id \in ToSet(sources)
      <4>1. CallsTo(f, id)' = CallsTo(f, id) \cup {Len(log) + 1}
        BY <1>1, <1>2, <3>1, EvaluatedCalls
      <4> QED
        BY <3>1, <4>1
    <3>2. CASE ~(f = d /\ id \in ToSet(sources))
      <4>1. CallsTo(f, id)' = CallsTo(f, id)
        BY <1>1, <1>2, <3>2, EvaluatedCalls
      <4> QED
        BY <3>2, <4>1
    <3> QED
      BY <3>1, <3>2
  <2> QED
    BY <2>1, <2>2
<1>4. log'[n].report = report
  BY <1>3 DEF Called
<1>5. \A f \in Dests, id \in Ids : \A i \in CallsTo(f, id) : log'[i] = log[i]
  BY <1>3, CallsToIs
<1>6. \A f \in Dests, id \in Ids : Quiet(f, id)' => Quiet(f, id)
  <2> SUFFICES ASSUME NEW f \in Dests, NEW id \in Ids, Quiet(f, id)' PROVE Quiet(f, id)
    OBVIOUS
  <2>1. \A i \in CallsTo(f, id)' : log'[i].report = None
    BY DEF Quiet
  <2>2. CallsTo(f, id) \subseteq CallsTo(f, id)'
    BY <1>3
  <2> QED
    BY <1>5, <2>1, <2>2 DEF Quiet
\* A call that does not visit a window of its destination is reported.
<1>7. \A f \in Dests, id \in Ids :
        \/ f = d /\ id \in ToSet(sources) /\ Visits(d, p, id) /\ (Quiet(d, id)' => ~Crosses(d, id, p))
        \/ windows'[f][id] = windows[f][id] /\ CallsTo(f, id)' = CallsTo(f, id)
        \/ windows'[f][id] = windows[f][id] /\ ~Quiet(f, id)'
  <2> TAKE f \in Dests, id \in Ids
  <2>1. \/ windows'[f][id] = windows[f][id]
        \/ f = d /\ id \in ToSet(sources) /\ Visits(d, p, id)
    BY <1>2 DEF Evaluated
  <2>2. f = d /\ report = None => \A o \in ToSet(sources) : Visits(d, p, o) /\ ~Crosses(d, o, p)
    BY <1>2 DEF Evaluated
  <2>3. CASE ~(f = d /\ id \in ToSet(sources))
    BY <1>3, <2>1, <2>3
  <2>4. CASE f = d /\ id \in ToSet(sources)
    <3>1. n \in CallsTo(f, id)'
      BY <1>3, <2>4
    <3>2. Quiet(f, id)' => report = None
      <4>1. Quiet(f, id)' => \A i \in CallsTo(f, id)' : log'[i].report = None
        BY DEF Quiet
      <4> QED
        BY <1>4, <3>1, <4>1
    <3> QED
      BY <2>1, <2>2, <2>4, <3>2
  <2> QED
    BY <2>3, <2>4
<1>8. WindowInv'
  <2> SUFFICES ASSUME NEW f \in Dests, NEW id \in Ids
               PROVE  \E b : Recorded(b, f, id)' /\ (Quiet(f, id)' => Complete(b, f, id)')
    BY DEF WindowInv
  <2>1. PICK c : Recorded(c, f, id) /\ (Quiet(f, id) => Complete(c, f, id))
    BY DEF CallsInv, WindowInv
  <2>2. CASE f = d /\ id \in ToSet(sources) /\ Visits(d, p, id)
    BY <1>1, <1>2, <1>6, <2>1, <2>2, VisitedWindow
  <2>3. ASSUME windows'[f][id] = windows[f][id] PROVE Recorded(c, f, id)'
    <3>1. Recorded(c, f, id)' <=>
            /\ c \in [1..Len(windows'[f][id]) -> CallsTo(f, id)']
            /\ Increasing(c)
            /\ \A k \in 1..Len(windows'[f][id]) :
                 windows'[f][id][k] = [text |-> Evidence(Text[id], log'[c[k]].payload), at |-> log'[c[k]].at]
      BY DEF Recorded
    <3>2. c \in [1..Len(windows[f][id]) -> CallsTo(f, id)]
      BY <2>1 DEF Recorded
    <3>3. c \in [1..Len(windows[f][id]) -> CallsTo(f, id)']
      <4>1. CallsTo(f, id) \subseteq CallsTo(f, id)'
        BY <1>3
      <4> QED
        BY <3>2, <4>1
    <3>4. \A k \in 1..Len(windows[f][id]) : log'[c[k]] = log[c[k]]
      BY <1>5, <3>2
    <3> QED
      BY <2>1, <2>3, <3>1, <3>3, <3>4 DEF Recorded
  <2>4. CASE windows'[f][id] = windows[f][id] /\ CallsTo(f, id)' = CallsTo(f, id)
    <3>1. Complete(c, f, id) => Complete(c, f, id)'
      <4>1. Complete(c, f, id)' <=>
              \A i \in CallsTo(f, id)' :
                \/ i \in Range(c)
                \/ \E j \in CallsTo(f, id)' : log'[j].at - log'[i].at > WindowSecs
                \/ Len(windows'[f][id]) = WindowMax /\ i < c[1]
        BY DEF Complete, Outdated
      <4>2. Complete(c, f, id) <=>
              \A i \in CallsTo(f, id) :
                \/ i \in Range(c)
                \/ \E j \in CallsTo(f, id) : log[j].at - log[i].at > WindowSecs
                \/ Len(windows[f][id]) = WindowMax /\ i < c[1]
        BY DEF Complete, Outdated
      <4> QED
        BY <1>5, <2>4, <4>1, <4>2
    <3> QED
      BY <1>6, <2>1, <2>3, <2>4, <3>1
  <2>5. CASE windows'[f][id] = windows[f][id] /\ ~Quiet(f, id)'
    BY <2>3, <2>5
  <2> QED
    BY <1>7, <2>2, <2>4, <2>5
<1>9. BelowInv'
  <2> SUFFICES ASSUME NEW f \in Dests, NEW id \in Ids, Quiet(f, id)'
               PROVE  ~Over(Text[id], TextsOf(windows'[f][id]))
    BY DEF BelowInv
  <2>1. ~Over(Text[id], TextsOf(windows[f][id]))
    BY <1>6 DEF CallsInv, BelowInv
  <2>2. CASE f = d /\ id \in ToSet(sources) /\ Visits(d, p, id) /\ (Quiet(d, id)' => ~Crosses(d, id, p))
    BY <2>1, <2>2, VisitedBelow
  <2>3. CASE windows'[f][id] = windows[f][id]
    BY <2>1, <2>3
  <2> QED
    BY <1>7, <2>2, <2>3
<1>10. DeservedInv'
  <2> SUFFICES ASSUME NEW f \in Dests, NEW id \in Ids, NEW last \in CallsTo(f, id)', log'[last].report = id
               PROVE  \E q \in 0..(WindowMax - 1) : \E c : DOMAIN c = 1..q /\ Crossing(c, last, f, id)'
    BY DEF DeservedInv
  <2>1. CASE last \in CallsTo(f, id)
    <3>1. log[last].report = id
      BY <1>5, <2>1
    <3>2. PICK q \in 0..(WindowMax - 1) : \E c : DOMAIN c = 1..q /\ Crossing(c, last, f, id)
      BY <2>1, <3>1 DEF CallsInv, DeservedInv
    <3>3. PICK c : DOMAIN c = 1..q /\ Crossing(c, last, f, id)
      BY <3>2
    <3>4. Crossing(c, last, f, id)'
      BY <1>1, <1>2, <2>1, <3>2, <3>3, StillCrossing
    <3> QED
      BY <3>2, <3>3, <3>4
  <2>2. CASE last \notin CallsTo(f, id)
    <3>1. f = d /\ id \in ToSet(sources) /\ last = n /\ report = id
      BY <1>3, <1>4, <2>2
    <3>2. Crosses(d, id, p)
      BY <1>2, <3>1 DEF Evaluated
    <3>3. PICK c : Recorded(c, f, id)
      BY DEF CallsInv, WindowInv
    <3>4. Evaluated(d, p, id, out) /\ d \in Dests
      BY <1>2, <3>1
    <3>5. \E q \in 0..(WindowMax - 1) : \E g : DOMAIN g = 1..q /\ Crossing(g, n, d, id)'
      BY <1>1, <3>1, <3>2, <3>3, <3>4, CrossingIs
    <3> QED
      BY <3>1, <3>5
  <2> QED
    BY <2>1, <2>2
<1> QED
  BY <1>8, <1>9, <1>10 DEF CallsInv

LEMMA InitCalls == Init => CallsInv
<1> SUFFICES ASSUME Init PROVE CallsInv
  OBVIOUS
<1>1. /\ sources = <<>> /\ log = <<>> /\ Len(<<>>) = 0
      /\ \A d \in Dests, id \in Ids : windows[d][id] = <<>>
  BY EmptySeq DEF Init
<1>2. \A d, id : CallsTo(d, id) = {}
  <2>1. \A id : id \notin ToSet(sources)
    <3>1. DOMAIN sources = {}
      BY <1>1
    <3> QED
      BY <3>1 DEF ToSet
  <2> QED
    BY <2>1 DEF CallsTo
<1>3. WindowInv
  <2> SUFFICES ASSUME NEW d \in Dests, NEW id \in Ids
               PROVE  \E c : Recorded(c, d, id) /\ (Quiet(d, id) => Complete(c, d, id))
    BY DEF WindowInv
  <2> PICK c : c = [i \in {} |-> 0]
    OBVIOUS
  <2>1. 1..Len(windows[d][id]) = {} /\ c \in [{} -> CallsTo(d, id)] /\ DOMAIN c = {}
    BY <1>1
  <2>2. Recorded(c, d, id)
    BY <2>1 DEF Recorded, Increasing
  <2>3. Complete(c, d, id)
    BY <1>2 DEF Complete
  <2> QED
    BY <2>2, <2>3
<1>4. BelowInv
  <2> SUFFICES ASSUME NEW d \in Dests, NEW id \in Ids PROVE ~Over(Text[id], TextsOf(windows[d][id]))
    BY DEF BelowInv
  <2>1. <<>> \in Seq(Entries) /\ Text[id] \in Seq(Symbols)
    BY EmptySeq, CrossCallAssumption
  <2>2. TextsOf(<<>>) \in Seq(Seq(Symbols)) /\ Len(TextsOf(<<>>)) = 0
    BY <1>1, <2>1, TextsOfIs
  <2>3. TextsOf(<<>>) = <<>>
    BY <2>2, EmptySeq
  <2> QED
    BY <1>1, <2>1, <2>3, NotOverNothing
<1>5. DeservedInv
  BY <1>2 DEF DeservedInv
<1> QED
  BY <1>3, <1>4, <1>5 DEF CallsInv

LEMMA NextCalls == TypeOK /\ TimesInv /\ CallsInv /\ [Next]_vars => CallsInv'
<1> SUFFICES ASSUME TypeOK, TimesInv, CallsInv, [Next]_vars PROVE CallsInv'
  OBVIOUS
<1>1. ASSUME NEW id \in Ids, Register(id) PROVE CallsInv'
  <2>1. \A d \in Dests, o \in Ids : CallsTo(d, o)' = CallsTo(d, o)
    BY <1>1, RegisterCalls
  <2>2. UNCHANGED <<log, windows>>
    BY <1>1 DEF Register
  <2> QED
    BY <2>1, <2>2, SameCalls
<1>2. CASE Pass \/ UNCHANGED vars
  <2>1. UNCHANGED <<log, windows, since, sources>>
    BY <1>2 DEF Pass, vars
  <2>2. \A d \in Dests, o \in Ids : CallsTo(d, o)' = CallsTo(d, o)
    BY <2>1 DEF CallsTo
  <2> QED
    BY <2>1, <2>2, SameCalls
<1>3. ASSUME NEW d \in Dests \cup {NoDomain}, NEW p \in Payloads, Evaluate(d, p) PROVE CallsInv'
  BY <1>3, EvaluateCalls
<1> QED
  BY <1>1, <1>2, <1>3 DEF Next

-----------------------------------------------------------------------------
\* ---- from the windows to the calls ----

LEMMA CallsAre ==
  ASSUME TypeOK, NEW d \in Dests, NEW id \in Ids
  PROVE  /\ CallsTo(d, id) \subseteq 1..Len(log) /\ Len(log) \in Nat /\ CallsTo(d, id) \subseteq Nat
         /\ DOMAIN log = 1..Len(log)
         /\ IsFiniteSet(CallsTo(d, id))
         /\ \A i \in 1..Len(log) : log[i].at \in Nat /\ log[i].payload \in Payloads
<1>1. CallsTo(d, id) \subseteq 1..Len(log) /\ Len(log) \in Nat
  BY CallsToIs
<1>2. IsFiniteSet(CallsTo(d, id))
  <2>1. IsFiniteSet(1..Len(log))
    BY <1>1, FS_Interval
  <2> QED
    BY <1>1, <2>1, FS_Subset
<1>3. \A i \in 1..Len(log) : log[i].at \in Nat /\ log[i].payload \in Payloads
  <2>1. \A i \in 1..Len(log) : log[i] \in Calls
    BY ElementOfSeq DEF TypeOK
  <2>2. \A x \in Calls : x.at \in Nat /\ x.payload \in Payloads
    BY CrossCallAssumption DEF Calls
  <2> QED
    BY <2>1, <2>2
<1>4. CallsTo(d, id) \subseteq Nat
  BY <1>1
<1>5. DOMAIN log = 1..Len(log)
  BY LenProperties DEF TypeOK
<1> QED
  BY <1>1, <1>2, <1>3, <1>4, <1>5

\* The calls of I in their order, when f lists them.
LEMMA ToldIs ==
  ASSUME NEW I, I \subseteq Nat, NEW n \in Nat, NEW f \in [1..n -> I], Increasing(f), Onto(f, I),
         NEW id
  PROVE  Told(I, id) = Says(f, id) /\ Cardinality(I) = n /\ DOMAIN f = 1..n
<1>1. Cardinality(I) = n /\ InOrder(I) = f
  BY InOrderIs
<1>2. DOMAIN f = 1..n
  OBVIOUS
<1> QED
  BY <1>1, <1>2 DEF Told, Says

LEMMA BelowIsReported == TypeOK /\ TimesInv /\ CallsInv => CrossingIsReported
<1> SUFFICES ASSUME TypeOK, TimesInv, CallsInv, NEW d \in Dests, NEW id \in Ids, Quiet(d, id)
             PROVE  ~Over(Text[id], Told(Held(CallsTo(d, id)), id))
  BY DEF CrossingIsReported, Quiet
<1> DEFINE C == CallsTo(d, id)
           H == Held(C)
           w == windows[d][id]
           L == Len(w)
<1>1. PICK c : Recorded(c, d, id) /\ Complete(c, d, id)
  BY DEF CallsInv, WindowInv
<1>2. ~Over(Text[id], TextsOf(w))
  BY DEF CallsInv, BelowInv
<1>3. /\ C \subseteq 1..Len(log) /\ Len(log) \in Nat /\ C \subseteq Nat /\ IsFiniteSet(C)
      /\ DOMAIN log = 1..Len(log)
      /\ \A i \in 1..Len(log) : log[i].at \in Nat
  BY CallsAre
<1>4. w \in Seq(Entries) /\ L \in Nat
  <2>1. w \in Seq(Entries)
    BY DEF TypeOK
  <2> QED
    BY <2>1, LenProperties
<1>5. /\ c \in [1..L -> C] /\ Increasing(c)
      /\ \A i, j \in 1..L : i < j => c[i] < c[j]
      /\ \A k \in 1..L : w[k] = [text |-> Evidence(Text[id], log[c[k]].payload), at |-> log[c[k]].at]
  BY <1>1 DEF Recorded, Increasing
<1>6. /\ H \subseteq C
      /\ \A i \in C : i \in H <=> /\ log[Len(log)].at - log[i].at <= WindowSecs
                                  /\ Cardinality({j \in C : j > i}) < WindowMax
  BY DEF Held
<1>7. \A i \in C : \A j \in C : i <= j => log[i].at <= log[j].at
  <2> SUFFICES ASSUME NEW i \in C, NEW j \in C, i <= j PROVE log[i].at <= log[j].at
    OBVIOUS
  <2>1. CASE i = j
    BY <1>3, <2>1
  <2>2. CASE i < j
    BY <1>3, <2>2 DEF TimesInv
  <2> QED
    BY <1>3, <2>1, <2>2
<1>8. \A i \in C : Len(log) \in DOMAIN log /\ log[i].at <= log[Len(log)].at
  <2> SUFFICES ASSUME NEW i \in C PROVE Len(log) \in DOMAIN log /\ log[i].at <= log[Len(log)].at
    OBVIOUS
  <2>1. Len(log) \in DOMAIN log /\ i \in DOMAIN log
    BY <1>3
  <2>2. CASE i = Len(log)
    BY <1>3, <2>1, <2>2
  <2>3. CASE i < Len(log)
    BY <2>1, <2>3 DEF TimesInv
  <2> QED
    BY <1>3, <2>1, <2>2, <2>3
<1> HIDE DEF C, H, w
\* What a window should still hold is in it.
<1>9. H \subseteq Range(c)
  <2> SUFFICES ASSUME NEW i \in H, i \notin Range(c) PROVE FALSE
    OBVIOUS
  <2>1. i \in C
    BY <1>6
  <2>2. Outdated(i, d, id) \/ (L = WindowMax /\ i < c[1])
    BY <1>1, <2>1 DEF Complete, C, w
  <2>3. CASE Outdated(i, d, id)
    <3>1. PICK j \in C : log[j].at - log[i].at > WindowSecs
      BY <2>3 DEF Outdated, C
    <3>2. log[j].at <= log[Len(log)].at /\ log[Len(log)].at - log[i].at <= WindowSecs
      BY <1>6, <1>8, <2>1
    <3>3. log[j].at \in Nat /\ log[i].at \in Nat /\ log[Len(log)].at \in Nat
      BY <1>3, <1>8, <2>1
    <3> QED
      BY <3>1, <3>2, <3>3, CrossCallAssumption
  <2>4. CASE L = WindowMax /\ i < c[1]
    <3> DEFINE R == Range(c)
               J == {j \in C : j > i}
    <3>1. R \subseteq C /\ c \in [1..L -> R] /\ Onto(c, R)
      BY <1>5 DEF Range, Onto
    <3>2. R \subseteq Nat
      BY <1>3, <3>1
    <3> HIDE DEF R
    <3>3. Cardinality(R) = L
      BY <1>4, <1>5, <3>1, <3>2, InOrderIs
    <3>4. 1 \in 1..L
      <4>1. L \in Nat \ {0}
        BY <2>4, CrossCallAssumption
      <4> QED
        BY <4>1
    <3>5. \A k \in 1..L : c[k] > i
      <4> TAKE k \in 1..L
      <4>1. k = 1 \/ 1 < k
        OBVIOUS
      <4>2. c[k] \in Nat /\ c[1] \in Nat /\ i \in Nat
        BY <1>3, <1>5, <2>1, <3>4
      <4> QED
        BY <1>5, <2>4, <3>4, <4>1, <4>2
    <3>6. R \subseteq J
      BY <3>1, <3>5 DEF R, Range
    <3>7. IsFiniteSet(J)
      BY <1>3, FS_Subset
    <3>8. Cardinality(R) <= Cardinality(J) /\ Cardinality(J) \in Nat
      <4> HIDE DEF J
      <4> QED
        BY <3>6, <3>7, FS_Subset, FS_CardinalityType
    <3>9. Cardinality(J) < WindowMax
      BY <1>6, <2>1
    <3> HIDE DEF J
    <3> QED
      BY <1>4, <2>4, <3>3, <3>8, <3>9
  <2> QED
    BY <2>2, <2>3, <2>4
\* Later calls are held when earlier ones are.
<1>10. \A i \in H, j \in C : i <= j => j \in H
  <2> SUFFICES ASSUME NEW i \in H, NEW j \in C, i <= j PROVE j \in H
    OBVIOUS
  <2>1. i \in C /\ log[Len(log)].at - log[i].at <= WindowSecs
        /\ Cardinality({k \in C : k > i}) < WindowMax
    BY <1>6
  <2>2. log[Len(log)].at - log[j].at <= WindowSecs
    <3>1. log[i].at <= log[j].at /\ log[i].at \in Nat /\ log[j].at \in Nat /\ log[Len(log)].at \in Nat
      BY <1>3, <1>7, <1>8, <2>1
    <3> QED
      BY <2>1, <3>1, CrossCallAssumption
  <2>3. Cardinality({k \in C : k > j}) < WindowMax
    <3> DEFINE A == {k \in C : k > i}
               B == {k \in C : k > j}
    <3>1. B \subseteq A
      <4>1. i \in Nat /\ j \in Nat /\ \A k \in C : k \in Nat
        BY <1>3, <2>1
      <4>2. \A k \in C : k > j => k > i
        BY <4>1
      <4> QED
        BY <4>2
    <3>2. IsFiniteSet(A)
      BY <1>3, FS_Subset
    <3>3. Cardinality(A) < WindowMax
      BY <2>1
    <3> HIDE DEF A, B
    <3>4. Cardinality(B) <= Cardinality(A) /\ Cardinality(A) \in Nat /\ Cardinality(B) \in Nat
      BY <3>1, <3>2, FS_Subset, FS_CardinalityType
    <3>5. Cardinality(B) < WindowMax
      BY <3>3, <3>4, CrossCallAssumption
    <3> QED
      BY <3>5 DEF B
  <2> QED
    BY <1>6, <2>2, <2>3
<1> DEFINE T == {k \in 1..(L + 1) : k = L + 1 \/ c[k] \in H}
<1>11. PICK m \in T : \A y \in T : m <= y
  <2>1. T \subseteq Nat /\ L + 1 \in T
    BY <1>4
  <2> HIDE DEF T
  <2> QED
    BY <2>1, HasMin
<1>12. m \in 1..(L + 1) /\ (m # L + 1 => c[m] \in H)
       /\ \A k \in 1..L : c[k] \in H => m <= k
  BY <1>4, <1>11
<1> HIDE DEF T
<1> DEFINE K == L - m + 1
<1>13. K \in Nat /\ \A i \in 1..K : m + i - 1 \in 1..L /\ m # L + 1 /\ m <= m + i - 1
  BY <1>4, <1>12
<1> PICK f : f = [i \in 1..K |-> c[m + i - 1]]
  OBVIOUS
<1>14. f \in [1..K -> H]
  <2>1. \A i \in 1..K : c[m + i - 1] \in H
    <3> TAKE i \in 1..K
    <3>1. m \in 1..L /\ m + i - 1 \in 1..L /\ c[m] \in H /\ m <= m + i - 1
      BY <1>4, <1>12, <1>13
    <3>2. c[m] \in Nat /\ c[m + i - 1] \in Nat /\ c[m + i - 1] \in C
      BY <1>3, <1>5, <3>1
    <3>3. c[m] <= c[m + i - 1]
      <4>1. m = m + i - 1 \/ m < m + i - 1
        BY <3>1
      <4> QED
        BY <1>5, <3>1, <3>2, <4>1
    <3> QED
      BY <1>10, <3>1, <3>2, <3>3
  <2> QED
    BY <2>1
<1>15. DOMAIN f = 1..K /\ \A i \in 1..K : f[i] = c[m + i - 1]
  OBVIOUS
<1> HIDE DEF K
<1>16. Increasing(f)
  <2> SUFFICES ASSUME NEW i \in 1..K, NEW j \in 1..K, i < j PROVE f[i] < f[j]
    BY <1>15 DEF Increasing
  <2>1. m + i - 1 < m + j - 1
    BY <1>12
  <2> QED
    BY <1>5, <1>13, <1>15, <2>1
<1>17. Onto(f, H)
  <2> SUFFICES ASSUME NEW i \in H PROVE \E k \in 1..K : f[k] = i
    BY <1>15 DEF Onto
  <2>1. PICK k \in 1..L : c[k] = i
    BY <1>5, <1>9 DEF Range
  <2>2. k - m + 1 \in 1..K /\ m + (k - m + 1) - 1 = k
    BY <1>4, <1>12, <2>1 DEF K
  <2> QED
    BY <1>15, <2>1, <2>2
<1>18. Told(H, id) = Says(f, id)
  <2>1. H \subseteq Nat
    BY <1>3, <1>6
  <2> QED
    BY <1>13, <1>14, <1>16, <1>17, <2>1, ToldIs
<1>19. Says(f, id) = TextsOf(SubSeq(w, m, L))
  <2> DEFINE u == SubSeq(w, m, L)
  <2>1. u \in Seq(Entries) /\ Len(u) = K /\ \A i \in 1..K : u[i] = w[m + i - 1]
    <3>1. \A i \in m..L : w[i] \in Entries
      BY <1>4, <1>12, ElementOfSeq
    <3>2. m \in Int /\ L \in Int /\ L - m + 1 = K /\ (m <= L \/ K = 0)
      BY <1>4, <1>12 DEF K
    <3> QED
      BY <3>1, <3>2, SubSeqProperties
  <2> HIDE DEF u
  <2>2. DOMAIN u = 1..K
    BY <2>1, LenProperties
  <2>3. \A i \in 1..K : u[i].text = Evidence(Text[id], log[f[i]].payload)
    <3> TAKE i \in 1..K
    <3>1. w[m + i - 1] = [text |-> Evidence(Text[id], log[f[i]].payload), at |-> log[f[i]].at]
      BY <1>5, <1>13, <1>15
    <3>2. \A a, x : [text |-> a, at |-> x].text = a
      OBVIOUS
    <3>3. u[i] = w[m + i - 1]
      BY <2>1
    <3> PICK a, x : a = Evidence(Text[id], log[f[i]].payload) /\ x = log[f[i]].at
      OBVIOUS
    <3>4. u[i] = [text |-> a, at |-> x]
      BY <3>1, <3>3
    <3> QED
      BY <3>2, <3>4
  <2>4. TextsOf(u) = [i \in 1..K |-> u[i].text]
    BY <2>2 DEF TextsOf
  <2>5. Says(f, id) = [i \in 1..K |-> Evidence(Text[id], log[f[i]].payload)]
    BY <1>15 DEF Says
  <2> QED
    BY <2>3, <2>4, <2>5 DEF u
<1>20. ~Over(Text[id], TextsOf(SubSeq(w, m, L)))
  <2>1. Text[id] \in Seq(Symbols)
    BY CrossCallAssumption
  <2>2. SubSeq(w, 1, L) = w /\ 1 \in 1..(L + 1) /\ 1 <= m
    <3>1. SubSeq(w, 1, L) = w
      BY <1>4, SubSeqFull
    <3> QED
      BY <1>4, <1>12, <3>1
  <2>3. Over(Text[id], TextsOf(SubSeq(w, m, L))) => Over(Text[id], TextsOf(SubSeq(w, 1, L)))
    BY <1>4, <1>12, <2>1, <2>2, OverLonger
  <2> QED
    BY <1>2, <2>2, <2>3
<1> QED
  BY <1>18, <1>19, <1>20 DEF H, C

LEMMA ReportedIsDeserved == TypeOK /\ TimesInv /\ CallsInv => ReportIsDeserved
<1> SUFFICES ASSUME TypeOK, TimesInv, CallsInv, NEW d \in Dests, NEW id \in Ids,
                    NEW last \in CallsTo(d, id), log[last].report = id
             PROVE  \E I \in SUBSET Earlier(last, d, id) :
                      /\ Cardinality(I) < WindowMax
                      /\ Over(Text[id], Told(I \cup {last}, id))
                      /\ ~Over(Text[id], Told(I, id))
  BY DEF ReportIsDeserved, Earlier
<1>1. PICK q \in 0..(WindowMax - 1) : \E f : DOMAIN f = 1..q /\ Crossing(f, last, d, id)
  BY DEF CallsInv, DeservedInv
<1>2. PICK f : DOMAIN f = 1..q /\ Crossing(f, last, d, id)
  BY <1>1
<1>3. /\ CallsTo(d, id) \subseteq 1..Len(log) /\ CallsTo(d, id) \subseteq Nat
      /\ \A i \in 1..Len(log) : log[i].payload \in Payloads
  BY CallsAre
<1>4. /\ f \in [1..q -> Earlier(last, d, id)] /\ Increasing(f)
      /\ ~Over(Text[id], Says(f, id))
      /\ Over(Text[id], Append(Says(f, id), Evidence(Text[id], log[last].payload)))
  BY <1>1, <1>2 DEF Crossing
<1> DEFINE I == Range(f)
<1>5. /\ I \subseteq Earlier(last, d, id) /\ f \in [1..q -> I] /\ Onto(f, I)
      /\ \A i \in 1..q : f[i] \in I
  BY <1>4 DEF Range, Onto
<1> HIDE DEF I
<1>6. /\ I \subseteq CallsTo(d, id) /\ I \subseteq Nat /\ last \in Nat
      /\ \A i \in I : i < last
  BY <1>3, <1>5 DEF Earlier
<1>7. q \in Nat /\ q < WindowMax
  BY CrossCallAssumption
<1>8. Told(I, id) = Says(f, id) /\ Cardinality(I) = q
  BY <1>4, <1>5, <1>6, <1>7, ToldIs
<1> PICK g : g = [i \in 1..(q + 1) |-> IF i <= q THEN f[i] ELSE last]
  OBVIOUS
<1>9. \A i \in 1..(q + 1) : i \in 1..q \/ i = q + 1
  BY <1>7
<1>10. /\ DOMAIN g = 1..(q + 1) /\ g[q + 1] = last
      /\ \A i \in 1..q : g[i] = f[i] /\ i \in 1..(q + 1)
  BY <1>7
<1>11. g \in [1..(q + 1) -> I \cup {last}]
  BY <1>5, <1>7
<1>12. Increasing(g)
  <2> SUFFICES ASSUME NEW i \in 1..(q + 1), NEW j \in 1..(q + 1), i < j PROVE g[i] < g[j]
    BY <1>10 DEF Increasing
  <2>1. i \in 1..q
    BY <1>7
  <2>2. CASE j = q + 1
    BY <1>5, <1>6, <1>10, <2>1, <2>2
  <2>3. CASE j \in 1..q
    <3>1. f[i] < f[j]
      BY <1>4, <2>1, <2>3 DEF Increasing
    <3> QED
      BY <1>10, <2>1, <2>3, <3>1
  <2> QED
    BY <1>9, <2>2, <2>3
<1>13. Onto(g, I \cup {last})
  <2> SUFFICES ASSUME NEW i \in I \cup {last} PROVE \E k \in 1..(q + 1) : g[k] = i
    BY <1>10 DEF Onto
  <2>1. CASE i = last
    BY <1>7, <1>10, <2>1
  <2>2. CASE i \in I
    <3>1. PICK k \in 1..q : f[k] = i
      BY <1>4, <1>5, <2>2 DEF Onto
    <3> QED
      BY <1>10, <3>1
  <2> QED
    BY <2>1, <2>2
<1>14. Told(I \cup {last}, id) = Says(g, id)
  <2> PICK J, n : J = I \cup {last} /\ n = q + 1
    OBVIOUS
  <2>1. J \subseteq Nat /\ n \in Nat /\ g \in [1..n -> J] /\ Onto(g, J)
    BY <1>6, <1>7, <1>11, <1>13
  <2>2. Told(J, id) = Says(g, id)
    BY <1>12, <2>1, ToldIs
  <2> QED
    BY <2>2
<1>15. Says(g, id) = Append(Says(f, id), Evidence(Text[id], log[last].payload))
  <2>1. \A i \in 1..Len(log) : Evidence(Text[id], log[i].payload) \in Seq(Symbols)
    <3>1. Text[id] \in Seq(Symbols)
      BY CrossCallAssumption
    <3> QED
      BY <1>3, <3>1, EvidenceIsText
  <2>2. (\A i \in 1..q : f[i] \in 1..Len(log)) /\ last \in 1..Len(log)
    BY <1>3, <1>5, <1>6
  <2> PICK e : e = Evidence(Text[id], log[last].payload)
    OBVIOUS
  <2> PICK a, b : a = Says(f, id) /\ b = Says(g, id)
    OBVIOUS
  <2>3. /\ a \in [1..q -> Seq(Symbols)] /\ e \in Seq(Symbols)
        /\ b = [i \in 1..(q + 1) |-> IF i <= q THEN a[i] ELSE e]
    <3>1. a = [i \in 1..q |-> Evidence(Text[id], log[f[i]].payload)]
      BY <1>1, <1>2 DEF Says
    <3>2. b = [i \in 1..(q + 1) |-> Evidence(Text[id], log[g[i]].payload)]
      BY <1>10 DEF Says
    <3>3. \A i \in 1..(q + 1) : Evidence(Text[id], log[g[i]].payload) = IF i <= q THEN a[i] ELSE e
      <4> TAKE i \in 1..(q + 1)
      <4>1. CASE i = q + 1
        BY <1>7, <1>10, <4>1
      <4>2. CASE i \in 1..q
        BY <1>10, <3>1, <4>2
      <4> QED
        BY <1>9, <4>1, <4>2
    <3>4. a \in [1..q -> Seq(Symbols)]
      BY <2>1, <2>2, <3>1
    <3> QED
      BY <2>1, <2>2, <3>2, <3>3, <3>4
  <2>4. a \in Seq(Seq(Symbols)) /\ Len(a) = q
    BY <1>7, <2>3
  <2>5. /\ Append(a, e) \in Seq(Seq(Symbols)) /\ Len(Append(a, e)) = q + 1
        /\ \A i \in 1..q : Append(a, e)[i] = a[i]
        /\ Append(a, e)[q + 1] = e
    BY <1>7, <2>3, <2>4
  <2>6. b \in Seq(Seq(Symbols)) /\ Len(b) = q + 1
    <3>1. \A i \in 1..(q + 1) : (IF i <= q THEN a[i] ELSE e) \in Seq(Symbols)
      BY <1>7, <2>3
    <3>2. b \in [1..(q + 1) -> Seq(Symbols)]
      BY <2>3, <3>1
    <3> QED
      BY <1>7, <3>2
  <2>7. \A i \in 1..(q + 1) : b[i] = Append(a, e)[i]
    <3> TAKE i \in 1..(q + 1)
    <3>1. CASE i = q + 1
      BY <1>7, <2>3, <2>5, <3>1
    <3>2. CASE i \in 1..q
      <4>1. i <= q
        BY <1>7, <3>2
      <4>2. b[i] = a[i]
        BY <2>3, <4>1
      <4> QED
        BY <2>5, <3>2, <4>2
    <3> QED
      BY <1>9, <3>1, <3>2
  <2>8. b = Append(a, e)
    BY <2>5, <2>6, <2>7, SeqEqual
  <2> QED
    BY <2>8
<1>16. /\ Cardinality(I) < WindowMax
       /\ Over(Text[id], Told(I \cup {last}, id))
       /\ ~Over(Text[id], Told(I, id))
  BY <1>4, <1>7, <1>8, <1>14, <1>15
<1> QED
  BY <1>5, <1>16

-----------------------------------------------------------------------------

IInv == TypeOK /\ TimesInv /\ CallsInv

LEMMA Invariance == Spec => []IInv
<1>1. Init => IInv
  BY InitTypes, InitCalls DEF IInv
<1>2. IInv /\ [Next]_vars => IInv'
  BY NextTypes, NextCalls DEF IInv
<1> QED
  BY <1>1, <1>2, PTL DEF Spec

(* Slices of a source that reach the threshold are reported: as long as no *)
(* call to a destination is, what the window's worth of them told of the   *)
(* source is below it, whatever texts, payloads, thresholds and window     *)
(* sizes there are (record and accumulated_coverage, tier V4).             *)
THEOREM CrossingsAreReported == Spec => []CrossingIsReported
<1>1. IInv => CrossingIsReported
  BY BelowIsReported DEF IInv
<1> QED
  BY <1>1, Invariance, PTL

(* No call is reported for what later or others' calls told: a cross-call  *)
(* report always has calls to the same destination, no more and no older   *)
(* than a window holds, that cross the threshold with the reported call.   *)
THEOREM ReportsAreDeserved == Spec => []ReportIsDeserved
<1>1. IInv => ReportIsDeserved
  BY ReportedIsDeserved DEF IInv
<1> QED
  BY <1>1, Invariance, PTL
=============================================================================
