----------------------------- MODULE CrossCall -----------------------------
(***************************************************************************)
(* The matching of one session at tier V4: the registered sources, the     *)
(* exact matcher with its TTL (session.py, matcher.py), and the windows in *)
(* which slices of a source, sent in several calls to one destination, add *)
(* up (crosscall.py, and evaluate in pipeline.py).                         *)
(*                                                                         *)
(* A text is a sequence of symbols.  A payload is what the matchers see of *)
(* one call: its raw text, what the decoders make of that, the values that *)
(* extract_reconstructable_value takes out of it (all of it when there is  *)
(* no structure), and what the decoders make of the values.  An evaluation *)
(* takes no time: it has no await.                                         *)
(***************************************************************************)
EXTENDS Integers, FiniteSets, SequencesExt

CONSTANTS
  Symbols,     \* what texts are made of
  Ids,         \* fragment ids
  Text,        \* the text each id stands for
  Payloads,    \* what calls carry
  Dests,       \* domains
  NoDomain,    \* a call whose arguments name no domain
  None, Alone, \* reports: none, and one for what the call carries by itself
  N,           \* approx_matching.ngram_size
  Num, Den,    \* approx_matching.coverage_threshold = Num / Den
  ReverseMin,  \* _MIN_REVERSE_MATCH_LEN
  WindowMax,   \* cross_call_window.window_max_calls
  WindowSecs,  \* cross_call_window.window_seconds
  Ttl,         \* ttl_seconds of the session
  MaxCalls,    \* bound: calls
  MaxNow       \* bound: the clock

ASSUME CrossCallAssumption ==
  /\ Text \in [Ids -> Seq(Symbols)]
  /\ \A p \in Payloads : p.values \in Seq(Symbols) /\ p.inner \in Seq(Seq(Symbols))
  /\ NoDomain \notin Dests /\ None \notin Ids /\ Alone \notin Ids /\ None # Alone
  /\ N \in Nat \ {0} /\ Num \in Nat \ {0} /\ Den \in Nat /\ Num <= Den
  /\ ReverseMin \in Nat /\ WindowMax \in Nat \ {0} /\ WindowSecs \in Nat /\ Ttl \in Nat
  /\ MaxCalls \in Nat /\ MaxNow \in Nat

VARIABLES
  now,         \* time.monotonic()
  sources,     \* ApproxMatcher._sources, in the order of registration
  exact,       \* the fragments of the exact matcher
  activity,    \* SessionMatcher._last_activity
  windows,     \* [Dests -> [Ids -> the window's entries, oldest first]]
  since,       \* history: how many calls preceded the registration of each id
  log          \* history: the calls, with what was reported and what went out

vars == <<now, sources, exact, activity, windows, since, log>>

-----------------------------------------------------------------------------
\* ---- texts ----

NGrams(t) == {SubSeq(t, i, i + N - 1) : i \in 1..(Len(t) - N + 1)}
Hits(s, t) == Cardinality(NGrams(s) \cap NGrams(t))

\* Where piece occurs in s.
Occurrences(piece, s) ==
  {i \in 1..(Len(s) - Len(piece) + 1) : SubSeq(s, i, i + Len(piece) - 1) = piece}
Occurs(piece, s) == Occurrences(piece, s) # {}

\* part / whole >= coverage_threshold
Reaches(part, whole) == Den * part >= Num * whole

\* approx.py: coverage of one text alone, of a source that has n-grams.
Covers(t, s) == NGrams(s) # {} /\ Reaches(Hits(s, t), Cardinality(NGrams(s)))

\* max(..., key=...) of Python, for positions with keys: the first of the largest.
FirstMax(keys) ==
  CHOOSE i \in DOMAIN keys :
    \A j \in DOMAIN keys : keys[i] > keys[j] \/ (keys[i] = keys[j] /\ i <= j)

-----------------------------------------------------------------------------
\* ---- a call by itself: tiers V1 to V3 ----

\* MatcherSnapshot.scan: a fragment in the text, or a long text in a fragment.
ScanHits(t, ids) ==
  \E id \in ids : \/ Occurs(Text[id], t)
                  \/ Len(t) >= ReverseMin /\ Occurs(t, Text[id])

\* A match at V1, at V2 (what is decoded of the payload) or at V3.
Matches(p, ids) ==
  \/ ScanHits(p.raw, ids)
  \/ \E i \in DOMAIN p.decoded : ScanHits(p.decoded[i], ids)
  \/ \E i \in DOMAIN sources : Covers(p.raw, Text[sources[i]]) \/ Covers(p.values, Text[sources[i]])

-----------------------------------------------------------------------------
\* ---- windows ----

\* What is left of a window when entries are taken from its head while they
\* are stale.
DropWhile(w, stale) ==
  LET first == CHOOSE k \in 1..(Len(w) + 1) :
                 /\ \A i \in 1..(k - 1) : i \in stale
                 /\ k \notin stale
  IN SubSeq(w, first, Len(w))

\* Wrong variant of Fresh: an entry of exactly window_seconds is dropped.
FreshEarly(w) == DropWhile(w, {i \in DOMAIN w : now - w[i].at >= WindowSecs})

\* _evict_expired
Fresh(w) == DropWhile(w, {i \in DOMAIN w : now - w[i].at > WindowSecs})

\* Wrong variant of Record: one entry too many stays.
RecordLate(w, t) ==
  LET all == Append(Fresh(w), [text |-> t, at |-> now])
  IN IF Len(all) > WindowMax + 1 THEN Tail(all) ELSE all

\* record: the oldest goes when there are more than window_max_calls.
Record(w, t) ==
  LET all == Append(Fresh(w), [text |-> t, at |-> now])
  IN IF Len(all) > WindowMax THEN Tail(all) ELSE all

\* accumulated_coverage >= coverage_threshold: by the texts one after another,
\* by the n-grams of each, or by the positions they are found at.
Over(s, texts) ==
  /\ NGrams(s) # {}
  /\ LET each == UNION {NGrams(texts[i]) : i \in DOMAIN texts}
         found == UNION {UNION {j..(j + Len(texts[i]) - 1) : j \in Occurrences(texts[i], s)} :
                           i \in DOMAIN texts}
     IN \/ Reaches(Hits(s, FlattenSeq(texts)), Cardinality(NGrams(s)))
        \/ Reaches(Cardinality(NGrams(s) \cap each), Cardinality(NGrams(s)))
        \/ Reaches(Cardinality(found), Len(s))

TextsOf(w) == [i \in DOMAIN w |-> w[i].text]

\* _select_crosscall_evidence: the longest part of the source among the
\* candidates, else the candidate that covers most of it.
Evidence(s, p) ==
  LET candidates == <<p.values>> \o p.inner
      parts == {i \in DOMAIN candidates : candidates[i] # <<>> /\ Occurs(candidates[i], s)}
  IN IF parts # {} THEN candidates[FirstMax([i \in parts |-> Len(candidates[i])])]
     ELSE candidates[FirstMax([i \in DOMAIN candidates |-> Hits(s, candidates[i])])]

-----------------------------------------------------------------------------
\* ---- the session ----

Init ==
  /\ now = 0 /\ sources = <<>> /\ exact = {} /\ activity = 0
  /\ windows = [d \in Dests |-> [id \in Ids |-> <<>>]]
  /\ since = [id \in Ids |-> 0] /\ log = <<>>

\* register_sensitive_fragment; the relay's ids are all different.
Register(id) ==
  /\ id \notin ToSet(sources)
  /\ sources' = Append(sources, id)
  /\ exact' = exact \cup {id}
  /\ activity' = now
  /\ since' = [since EXCEPT ![id] = Len(log)]
  /\ UNCHANGED <<now, windows, log>>

\* expire_if_stale, before every evaluation.
Live == IF now - activity > Ttl THEN {} ELSE exact

\* Wrong variant of Crosses: whatever comes after the crossing is reported.
CrossesAgain(d, id, p) ==
  LET w == windows[d][id] IN Over(Text[id], TextsOf(Record(w, Evidence(Text[id], p))))

\* The call takes the window of this source from below the threshold to it.
Crosses(d, id, p) ==
  LET w == windows[d][id] IN
  /\ ~Over(Text[id], TextsOf(Fresh(w)))
  /\ Over(Text[id], TextsOf(Record(w, Evidence(Text[id], p))))

\* The sources in their order, up to the first whose window is crossed: the
\* report returns, and leaves the windows of the later sources alone.
Crossed(d, p) == {i \in DOMAIN sources : Crosses(d, sources[i], p)}
Visited(crossed) == {i \in DOMAIN sources : \A j \in crossed : i <= j}

\* Evidence goes into the windows of the visited sources and this destination.
Accumulate(d, p, visited) ==
  windows' = [windows EXCEPT ![d] = [id \in Ids |->
    IF \E i \in visited : sources[i] = id
    THEN Record(@[id], Evidence(Text[id], p)) ELSE @[id]]]

\* A call is evaluated.  A report holds it back unless its destination is
\* allowed or a human approves; one without a report goes out.
Log(d, p, report) ==
  \E out \in BOOLEAN :
    /\ report = None => out
    /\ log' = Append(log, [dest |-> d, payload |-> p, at |-> now, report |-> report, out |-> out])

Evaluate(d, p) ==
  /\ Len(log) < MaxCalls
  /\ exact' = Live
  /\ IF Matches(p, Live) THEN Log(d, p, Alone) /\ UNCHANGED windows
     ELSE IF d = NoDomain THEN Log(d, p, None) /\ UNCHANGED windows
     ELSE LET crossed == Crossed(d, p) IN
          /\ Accumulate(d, p, Visited(crossed))
          /\ IF crossed = {} THEN Log(d, p, None)
             ELSE \E i \in crossed \cap Visited(crossed) : Log(d, p, sources[i])
  /\ UNCHANGED <<now, sources, activity, since>>

Pass == now < MaxNow /\ now' = now + 1 /\ UNCHANGED <<sources, exact, activity, windows, since, log>>

Next ==
  \/ \E id \in Ids : Register(id)
  \/ \E d \in Dests \cup {NoDomain}, p \in Payloads : Evaluate(d, p)
  \/ Pass

Spec == Init /\ [][Next]_vars

-----------------------------------------------------------------------------
Entries == [text : {Evidence(Text[id], p) : id \in Ids, p \in Payloads}, at : 0..MaxNow]
Calls == [dest : Dests \cup {NoDomain}, payload : Payloads, at : 0..MaxNow,
          report : Ids \cup {None, Alone}, out : BOOLEAN]

(* The variables keep their types; a window holds at most window_max_calls *)
(* entries, oldest first.                                                  *)
TypeOK ==
  /\ now \in 0..MaxNow /\ activity \in 0..now
  /\ sources \in Seq(Ids) /\ IsInjective(sources) /\ exact \subseteq ToSet(sources)
  /\ windows \in [Dests -> [Ids -> Seq(Entries)]]
  /\ \A d \in Dests, id \in Ids :
       LET w == windows[d][id] IN
       /\ Len(w) <= WindowMax
       /\ \A i, j \in DOMAIN w : i < j => w[i].at <= w[j].at
  /\ since \in [Ids -> 0..Len(log)] /\ log \in Seq(Calls)

\* The calls to d since id was registered, by their positions in the log.
CallsTo(d, id) == {i \in (since[id] + 1)..Len(log) : id \in ToSet(sources) /\ log[i].dest = d}

\* Positions from the first to the last.
Increasing(f) == \A m, n \in DOMAIN f : m < n => f[m] < f[n]
InOrder(I) == CHOOSE f \in [1..Cardinality(I) -> I] : Increasing(f)

\* What the calls in I told of id, in their order.
Told(I, id) ==
  LET order == InOrder(I)
  IN [n \in 1..Cardinality(I) |-> Evidence(Text[id], log[order[n]].payload)]

\* The calls of I that a window of id and d should still hold at the last call.
Held(I) ==
  {i \in I : /\ log[Len(log)].at - log[i].at <= WindowSecs
             /\ Cardinality({j \in I : j > i}) < WindowMax}

(* crosscall.py, "a secret split across several small outbound calls still *)
(* gets caught once the cumulative overlap crosses the threshold": while   *)
(* no call to a destination is reported, what the window's worth of them   *)
(* told of a source, in any representation and order, is below it.         *)
CrossingIsReported ==
  \A d \in Dests, id \in Ids :
    (\A i \in CallsTo(d, id) : log[i].report = None) =>
      ~Over(Text[id], Told(Held(CallsTo(d, id)), id))

(* A cross-call report is deserved: some calls to that destination since   *)
(* the source was registered, no more and no older than a window may hold, *)
(* reach the threshold together with the reported call and not without it. *)
(* (pipeline.py: no later benign call inherits a report.)                  *)
ReportIsDeserved ==
  \A d \in Dests, id \in Ids : \A last \in CallsTo(d, id) :
    log[last].report = id =>
      \E I \in SUBSET {i \in CallsTo(d, id) : i < last /\ log[last].at - log[i].at <= WindowSecs} :
        /\ Cardinality(I) < WindowMax
        /\ Over(Text[id], Told(I \cup {last}, id))
        /\ ~Over(Text[id], Told(I, id))

(* crosscall.py, "two distinct tracked secrets heading to the same         *)
(* destination don't contaminate each other's accumulated evidence": while *)
(* no call is reported for this source or for what it carries alone, what  *)
(* went out stays below the threshold, whatever is reported for others.    *)
SourcesIndependent ==
  \A d \in Dests, id \in Ids :
    (\A i \in CallsTo(d, id) : log[i].report \notin {id, Alone}) =>
      ~Over(Text[id], Told(Held({i \in CallsTo(d, id) : log[i].out}), id))
=============================================================================
