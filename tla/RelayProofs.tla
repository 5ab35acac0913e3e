---------------------------- MODULE RelayProofs ----------------------------
(***************************************************************************)
(* Theorems about Relay, for any tiers, actions, frames, answers and       *)
(* number of frames.                                                       *)
(***************************************************************************)
EXTENDS Relay, FiniteSetTheorems, SequenceTheorems, TLAPS

-----------------------------------------------------------------------------
\* ---- sequences ----

LEMMA ToSetAppend ==
  ASSUME NEW S, NEW q \in Seq(S), NEW e \in S
  PROVE  ToSet(Append(q, e)) = ToSet(q) \cup {e}
<1>1. DOMAIN Append(q, e) = 1..(Len(q) + 1) /\ DOMAIN q = 1..Len(q) /\ Len(q) \in Nat
  BY AppendProperties, LenProperties
<1>2. \A i \in 1..Len(q) : Append(q, e)[i] = q[i]
  BY AppendProperties
<1>3. Append(q, e)[Len(q) + 1] = e
  BY AppendProperties
<1> QED
  BY <1>1, <1>2, <1>3 DEF ToSet

LEMMA ToSetHeadTail ==
  ASSUME NEW S, NEW q \in Seq(S), q # <<>>
  PROVE  ToSet(q) = {Head(q)} \cup ToSet(Tail(q))
<1>1. DOMAIN q = 1..Len(q) /\ Len(q) \in Nat \ {0}
  BY LenProperties, EmptySeq
<1>2. DOMAIN Tail(q) = 1..(Len(q) - 1) /\ \A i \in 1..(Len(q) - 1) : Tail(q)[i] = q[i + 1]
  BY HeadTailProperties, LenProperties
<1>3. Head(q) = q[1]
  BY <1>1
<1>4. ASSUME NEW i \in 1..Len(q)
      PROVE  q[i] \in {Head(q)} \cup ToSet(Tail(q))
  <2>1. CASE i = 1
    BY <2>1, <1>3
  <2>2. CASE i # 1
    <3>1. i - 1 \in 1..(Len(q) - 1) /\ Tail(q)[i - 1] = q[i]
      BY <1>1, <1>2, <2>2
    <3> QED
      BY <1>2, <3>1 DEF ToSet
  <2> QED
    BY <2>1, <2>2
<1>5. ToSet(Tail(q)) \subseteq ToSet(q)
  BY <1>1, <1>2 DEF ToSet
<1> QED
  BY <1>1, <1>3, <1>4, <1>5 DEF ToSet

LEMMA ToSetConcat ==
  ASSUME NEW S, NEW q \in Seq(S), NEW r \in Seq(S)
  PROVE  ToSet(q \o r) = ToSet(q) \cup ToSet(r)
<1>1. /\ DOMAIN (q \o r) = 1..(Len(q) + Len(r))
      /\ DOMAIN q = 1..Len(q) /\ DOMAIN r = 1..Len(r)
      /\ Len(q) \in Nat /\ Len(r) \in Nat
  BY ConcatProperties, LenProperties
<1>2. \A i \in 1..(Len(q) + Len(r)) : (q \o r)[i] = IF i <= Len(q) THEN q[i] ELSE r[i - Len(q)]
  BY ConcatProperties
<1>3. ToSet(q \o r) \subseteq ToSet(q) \cup ToSet(r)
  BY <1>1, <1>2 DEF ToSet
<1>4. ToSet(q) \subseteq ToSet(q \o r)
  BY <1>1, <1>2 DEF ToSet
<1>5. ASSUME NEW i \in DOMAIN r
      PROVE  r[i] \in ToSet(q \o r)
  <2>1. Len(q) + i \in 1..(Len(q) + Len(r)) /\ (q \o r)[Len(q) + i] = r[i]
    BY <1>1, <1>2
  <2> QED
    BY <1>1, <2>1 DEF ToSet
<1> QED
  BY <1>3, <1>4, <1>5 DEF ToSet

LEMMA ConcatAppend ==
  ASSUME NEW S, NEW q \in Seq(S), NEW r \in Seq(S), NEW e \in S
  PROVE  q \o Append(r, e) = Append(q \o r, e)
<1>1. Append(r, e) = r \o <<e>> /\ Append(q \o r, e) = (q \o r) \o <<e>>
  BY AppendIsConcat, ConcatProperties
<1> QED
  BY <1>1, ConcatAssociative

LEMMA AppendHeadTail ==
  ASSUME NEW S, NEW q \in Seq(S), NEW r \in Seq(S), r # <<>>
  PROVE  Append(q, Head(r)) \o Tail(r) = q \o r
<1>1. Head(r) \in S /\ Tail(r) \in Seq(S) /\ Head(r) = r[1] /\ Len(r) \in Nat \ {0}
  BY HeadTailProperties, EmptySeq
<1>2. r = <<Head(r)>> \o Tail(r)
  <2>1. SubSeq(r, 1, Len(r)) = r /\ Tail(r) = SubSeq(r, 2, Len(r))
    BY SubSeqFull, TailIsSubSeq
  <2>2. SubSeq(r, 1, Len(r)) = <<r[1]>> \o SubSeq(r, 1 + 1, Len(r))
    BY <1>1, SubSeqRecursiveFirst
  <2> QED
    BY <1>1, <2>1, <2>2
<1>3. Append(q, Head(r)) = q \o <<Head(r)>>
  BY <1>1, AppendIsConcat
<1>4. (q \o <<Head(r)>>) \o Tail(r) = q \o (<<Head(r)>> \o Tail(r))
  BY <1>1, ConcatAssociative
<1> QED
  BY <1>2, <1>3, <1>4

-----------------------------------------------------------------------------
\* ---- the inductive invariant ----

Answers == {"result", "error"}
Ended == {"closing", "stopping", "stopped"}
LinesOut == ToSet(toHost) \cup ToSet(outQ)

\* What the child answers are calls that have reached it; its other lines have
\* ids of its own, or none.
SaidInv ==
  \A l \in ToSet(said) :
    /\ l.kind \in ChildSays
    /\ l.kind \in Answers => l.id \in ToSet(childGot)
    /\ l.kind = "request" => l.id \in ChildIds
    /\ l.kind \in {"array", "long"} => l.id = 0

\* Of a frame that is passed on, the host may get an answer; of one that is not,
\* an error response of ours.
OutInv ==
  \A l \in LinesOut :
    /\ l.kind \in Answers => l.id \in ToSet(childGot)
    /\ l.kind \in Refusals =>
         /\ l.id \in 1..taken /\ l.id \notin ToSet(childGot)
         /\ host[l.id].kind # "other"
         /\ main = "asking" => l.id # taken
    /\ l.kind = "eof" => l = Sentinel /\ main \in Ended

\* What main is asking about is not decided; what cannot be parsed is not passed.
MainInv ==
  /\ main = "asking" =>
       taken \in 1..Len(host) /\ taken \notin ToSet(childGot) /\ host[taken].kind \in ToolCalls
  /\ \A i \in ToSet(childGot) : host[i].kind \notin {"bad", "odd"}

\* The reader and main end before the writer; the sentinel is the last line.
EndInv ==
  /\ main \in Ended => reader # "up"
  /\ main = "closing" /\ writer = "up" => outQ # <<>> /\ outQ[Len(outQ)] = Sentinel
  /\ main \in {"stopping", "stopped"} => writer # "up"
  /\ writer = "done" => outQ = <<>> /\ main \in Ended
  /\ \A n \in DOMAIN outQ : outQ[n] = Sentinel => n = Len(outQ)
  /\ \A n \in DOMAIN toHost : toHost[n].kind # "eof"
  /\ reader = "dead" => heard > 0

IInv ==
  /\ TypeOK /\ Len(host) <= MaxFrames
  /\ SaidInv /\ OutInv /\ MainInv /\ EndInv

-----------------------------------------------------------------------------
\* ---- what main does, in five kinds of steps ----

\* Main decides on frame i: it is the next one, or the one it has asked about.
Decides(i) ==
  /\ taken' = i /\ i \in 1..Len(host)
  /\ \/ main = "loop" /\ i = taken + 1
     \/ main = "asking" /\ i = taken

Asks ==
  /\ main = "loop" /\ main' = "asking"
  /\ taken' = taken + 1 /\ taken' \in 1..Len(host) /\ host[taken'].kind \in ToolCalls
  /\ UNCHANGED <<childGot, outQ, reader, reads, approved>>

Passes(i) ==
  /\ Decides(i)
  /\ host[i].kind \in ToolCalls \cup {"other"}
  /\ child = "up" /\ childGot' = Append(childGot, i)
  /\ main' \in {"loop", "drain"}
  /\ host[i].kind = "read" => i \in reads'
  /\ UNCHANGED <<outQ, reader>>

Refuses(i) ==
  /\ Decides(i)
  /\ host[i].kind # "other"
  /\ \E why \in Refusals : outQ' = Append(outQ, Line(why, i))
  /\ main' = "loop"
  /\ UNCHANGED <<childGot, reader>>

Ends == EndLoop
Continues == main' = "loop" /\ UNCHANGED <<outQ, reader>>

Loses(i) ==
  /\ Decides(i)
  /\ Ends \/ (child = "gone" /\ Continues)
  /\ UNCHANGED childGot

Waits ==
  /\ main \in {"loop", "drain"}
  /\ Ends \/ Continues
  /\ UNCHANGED <<taken, childGot, reads, approved>>

\* A secret leaves the exact matcher only by the TTL.
Expires ==
  /\ exact' \subseteq exact /\ forgotten \subseteq forgotten'
  /\ exact \cup forgotten = exact' \cup forgotten'

MainKeeps ==
  /\ main \in {"loop", "drain", "asking"}
  /\ UNCHANGED <<tier, onMatch, host, eof, cut, child, said, heard, writer, toHost, approx>>
  /\ reads \subseteq reads' /\ reads' \subseteq reads \cup {taken'}
  /\ approved \subseteq approved' /\ approved' \subseteq approved \cup {taken'}
  /\ Expires

LEMMA ForwardKinds ==
  ASSUME NEW i, Forward(i)
  PROVE  \/ /\ child = "up" /\ childGot' = Append(childGot, i)
            /\ main' \in {"loop", "drain"} /\ UNCHANGED <<outQ, reader>>
         \/ UNCHANGED childGot /\ (Ends \/ (child = "gone" /\ Continues))
BY DEF Forward, Write, Ends, Continues

LEMMA TrackKinds ==
  ASSUME NEW i, Track(i)
  PROVE  /\ reads \subseteq reads' /\ reads' \subseteq reads \cup {i}
         /\ host[i].kind = "read" => i \in reads'
BY DEF Track

LEMMA MainKinds ==
  ASSUME TypeOK, MainInv, MainStep
  PROVE  /\ MainKeeps
         /\ \/ Asks \/ Waits
            \/ \E i \in 1..Len(host) : Passes(i) \/ Refuses(i) \/ Loses(i)
<1>t. /\ taken \in 0..Len(host) /\ Len(host) \in Nat
      /\ main = "asking" => taken > 0 /\ host[taken].kind \in ToolCalls
  BY DEF TypeOK, MainInv
<1>1. CASE PassThrough
  <2>1. Decides(taken + 1) /\ host[taken + 1].kind = "other"
    BY <1>1, <1>t DEF PassThrough, Taking, Decides
  <2>2. MainKeeps
    BY <1>1 DEF PassThrough, Taking, MainKeeps, Expires, policyVars, hostVars, childVars,
                writerVars, matcherVars
  <2>3. Forward(taken + 1)
    BY <1>1 DEF PassThrough
  <2>4. Passes(taken + 1) \/ Loses(taken + 1)
    BY <2>1, <2>3, ForwardKinds DEF Passes, Loses
  <2> QED
    BY <2>1, <2>2, <2>4 DEF Decides
<1>2. CASE InvalidParams
  <2>1. Decides(taken + 1) /\ host[taken + 1].kind = "bad"
    BY <1>2, <1>t DEF InvalidParams, Taking, Decides
  <2>2. MainKeeps
    BY <1>2 DEF InvalidParams, Taking, Refuse, MainKeeps, Expires, policyVars, hostVars,
                childVars, writerVars, matcherVars
  <2>3. Refuses(taken + 1)
    BY <1>2, <2>1 DEF InvalidParams, Refuse, Refuses, Refusals
  <2> QED
    BY <2>1, <2>2, <2>3 DEF Decides
<1>3. CASE OddParams
  <2>1. Decides(taken + 1)
    BY <1>3, <1>t DEF OddParams, Taking, Decides
  <2>2. MainKeeps
    BY <1>3 DEF OddParams, Taking, MainKeeps, Expires, policyVars, hostVars,
                childVars, writerVars, matcherVars
  <2>3. Loses(taken + 1)
    BY <1>3, <2>1 DEF OddParams, Loses, Ends
  <2> QED
    BY <2>1, <2>2, <2>3 DEF Decides
<1>4. CASE ToolCall
  <2> DEFINE i == taken + 1
  <2>1. Decides(i) /\ host[i].kind \in ToolCalls /\ main = "loop"
    BY <1>4, <1>t DEF ToolCall, Taking, Decides
  <2>2. PICK kept \in {exact, {}} :
          /\ exact' = kept
          /\ forgotten' = forgotten \cup (exact \ kept)
          /\ \/ Track(i) /\ Forward(i)
             \/ main' = "asking" /\ UNCHANGED <<reads, childGot, outQ, reader>>
             \/ Refuse(i, "blocked")
    BY <1>4 DEF ToolCall
  <2>3. Expires
    BY <2>2 DEF Expires
  <2>4. UNCHANGED <<tier, onMatch, host, eof, cut, child, said, heard, writer, toHost, approx, approved>>
    BY <1>4 DEF ToolCall, policyVars, hostVars, childVars, writerVars
  <2>5. reads \subseteq reads' /\ reads' \subseteq reads \cup {taken'}
    BY <2>1, <2>2, TrackKinds DEF Decides, Refuse
  <2>6. MainKeeps
    BY <2>1, <2>3, <2>4, <2>5 DEF MainKeeps
  <2>7. CASE Track(i) /\ Forward(i)
    <3>1. Passes(i) \/ Loses(i)
      BY <2>1, <2>7, ForwardKinds, TrackKinds DEF Passes, Loses
    <3> QED
      BY <2>1, <2>6, <3>1 DEF Decides
  <2>8. CASE main' = "asking" /\ UNCHANGED <<reads, childGot, outQ, reader>>
    BY <2>1, <2>4, <2>6, <2>8 DEF Asks, Decides
  <2>9. CASE Refuse(i, "blocked")
    <3>1. Refuses(i)
      BY <2>1, <2>9 DEF Refuse, Refuses, Refusals, ToolCalls
    <3> QED
      BY <2>1, <2>6, <3>1 DEF Decides
  <2> QED
    BY <2>2, <2>7, <2>8, <2>9
<1>5. CASE AskReturns
  <2>1. Decides(taken) /\ main = "asking" /\ host[taken].kind \in ToolCalls
    BY <1>5, <1>t DEF AskReturns, Decides
  <2>2. UNCHANGED <<tier, onMatch, host, eof, cut, child, said, heard, writer, toHost, approx, exact, forgotten>>
    BY <1>5 DEF AskReturns, policyVars, hostVars, childVars, writerVars, matcherVars
  <2>3. \/ approved' = approved \cup {taken} /\ Track(taken) /\ Forward(taken)
        \/ UNCHANGED approved /\ Refuse(taken, "blocked")
        \/ EndLoop /\ UNCHANGED <<approved, reads, childGot>>
    BY <1>5 DEF AskReturns
  <2>4. MainKeeps
    <3>1. reads \subseteq reads' /\ reads' \subseteq reads \cup {taken'}
      BY <2>1, <2>3, TrackKinds DEF Decides, Refuse
    <3> QED
      BY <2>1, <2>2, <2>3, <3>1 DEF MainKeeps, Expires, Decides
  <2>5. Passes(taken) \/ Refuses(taken) \/ Loses(taken)
    <3>1. CASE Track(taken) /\ Forward(taken)
      BY <2>1, <3>1, ForwardKinds, TrackKinds DEF Passes, Loses
    <3>2. CASE Refuse(taken, "blocked")
      BY <2>1, <3>2 DEF Refuse, Refuses, Refusals, ToolCalls
    <3>3. CASE EndLoop /\ UNCHANGED <<approved, reads, childGot>>
      BY <2>1, <3>3 DEF Loses, Ends
    <3> QED
      BY <2>3, <3>1, <3>2, <3>3
  <2> QED
    BY <2>1, <2>4, <2>5 DEF Decides
<1>6. CASE Drained
  BY <1>6, <1>t DEF Drained, MainKeeps, Expires, Waits, Ends, Continues, policyVars, hostVars,
                    childVars, writerVars, matcherVars
<1>7. CASE TakeEof
  BY <1>7, <1>t DEF TakeEof, MainKeeps, Expires, Waits, Ends, Continues, policyVars, hostVars,
                    childVars, writerVars, matcherVars
<1> QED
  BY <1>1, <1>2, <1>3, <1>4, <1>5, <1>6, <1>7 DEF MainStep

-----------------------------------------------------------------------------
\* ---- the inductive invariant holds ----

LEMMA InitIInv == Init => IInv
<1> SUFFICES ASSUME Init PROVE IInv
  OBVIOUS
<1>1. TypeOK /\ Len(host) <= MaxFrames
  <2>1. /\ host \in Seq(Frame) /\ childGot \in Seq(1..taken) /\ said \in Seq(OutLine)
        /\ outQ \in Seq(OutLine) /\ toHost \in Seq(OutLine)
    BY EmptySeq DEF Init
  <2>2. Len(host) = 0 /\ Len(said) = 0
    BY EmptySeq DEF Init
  <2>3. /\ taken \in 0..Len(host) /\ heard \in 0..Len(said) /\ Len(host) <= MaxFrames
        /\ cut \in 0..Len(host)
    BY <2>2, RelayAssumption DEF Init
  <2>4. /\ approved = {} /\ reads = {} /\ exact = {} /\ approx = {} /\ forgotten = {}
        /\ tier \in Tiers /\ onMatch \in Actions /\ eof = FALSE /\ main = "loop"
        /\ child = "up" /\ reader = "up" /\ writer = "up"
    BY DEF Init
  <2> QED
    BY <2>1, <2>3, <2>4 DEF TypeOK
<1>2. ToSet(said) = {} /\ LinesOut = {} /\ ToSet(childGot) = {}
  BY EmptySeq DEF Init, ToSet, LinesOut
<1>3. SaidInv /\ OutInv /\ MainInv
  BY <1>2 DEF Init, SaidInv, OutInv, MainInv
<1>4. EndInv
  BY DEF Init, EndInv, Ended
<1> QED
  BY <1>1, <1>3, <1>4 DEF IInv

LEMMA SeqTypes ==
  ASSUME TypeOK
  PROVE  /\ taken \in Nat /\ Len(host) \in Nat /\ taken <= Len(host)
         /\ \A i \in 1..Len(host) : host[i].kind \in Kinds /\ host[i].carries \in 0..MaxFrames
         /\ \A n \in 1..Len(said) : said[n] \in OutLine /\ said[n] \in ToSet(said)
         /\ ToSet(childGot) \subseteq 1..taken /\ ToSet(said) \subseteq OutLine
         /\ LinesOut \subseteq OutLine
         /\ heard \in Nat /\ Len(said) \in Nat /\ heard <= Len(said)
<1>1. /\ Len(host) \in Nat /\ Len(said) \in Nat
      /\ DOMAIN said = 1..Len(said) /\ DOMAIN childGot = 1..Len(childGot)
      /\ DOMAIN outQ = 1..Len(outQ) /\ DOMAIN toHost = 1..Len(toHost)
  BY LenProperties DEF TypeOK
<1>2. /\ \A i \in 1..Len(host) : host[i] \in Frame
      /\ \A n \in 1..Len(said) : said[n] \in OutLine
      /\ \A n \in 1..Len(outQ) : outQ[n] \in OutLine
      /\ \A n \in 1..Len(toHost) : toHost[n] \in OutLine
      /\ \A n \in 1..Len(childGot) : childGot[n] \in 1..taken
  BY ElementOfSeq DEF TypeOK
<1>3. LinesOut \subseteq OutLine /\ ToSet(childGot) \subseteq 1..taken /\ ToSet(said) \subseteq OutLine
  BY <1>1, <1>2 DEF LinesOut, ToSet
<1>4. \A n \in 1..Len(said) : said[n] \in ToSet(said)
  BY <1>1 DEF ToSet
<1>5. \A i \in 1..Len(host) : host[i].kind \in Kinds /\ host[i].carries \in 0..MaxFrames
  BY <1>2 DEF Frame
<1> QED
  BY <1>1, <1>2, <1>3, <1>4, <1>5 DEF TypeOK

LEMMA LineTyped ==
  /\ \A why \in Refusals, i \in Nat : Line(why, i) \in OutLine
  /\ \A k \in ChildSays, i \in Nat : Line(k, i) \in OutLine
  /\ Sentinel \in OutLine /\ Sentinel.kind = "eof"
BY DEF Line, OutLine, Sentinel, Refusals, ChildSays

\* The secrets that the host knows come from frames of its own.
LEMMA LearnedTyped ==
  ASSUME IInv
  PROVE  /\ Learned \subseteq ResultIds(toHost)
         /\ ResultIds(toHost) \subseteq ToSet(childGot) /\ ResultIds(outQ) \subseteq ToSet(childGot)
         /\ Learned \subseteq 1..MaxFrames
<1>1. \A n \in DOMAIN toHost : toHost[n] \in LinesOut
  BY DEF LinesOut, ToSet
<1>2. \A n \in DOMAIN outQ : outQ[n] \in LinesOut
  BY DEF LinesOut, ToSet
<1>3. ResultIds(toHost) \subseteq ToSet(childGot) /\ ResultIds(outQ) \subseteq ToSet(childGot)
  BY <1>1, <1>2 DEF ResultIds, IInv, OutInv, Answers
<1>4. Learned \subseteq ResultIds(toHost)
  BY DEF Learned
<1> QED
  BY <1>3, <1>4, SeqTypes, RelayAssumption DEF IInv

LEMMA MainTypes ==
  ASSUME TypeOK, MainInv, MainStep
  PROVE  TypeOK'
<1>1. MainKeeps
  BY MainKinds
<1>2. taken' \in 0..Len(host') /\ taken <= taken' /\ taken' \in Nat
  BY MainKinds, SeqTypes, <1>1 DEF Asks, Waits, Passes, Refuses, Loses, Decides, MainKeeps
<1>3. childGot' \in Seq(1..taken')
  <2>1. childGot \in Seq(1..taken')
    BY <1>2, SeqTypes, SeqMonotonic DEF TypeOK
  <2>2. ASSUME NEW i, Passes(i)
        PROVE  childGot' \in Seq(1..taken')
    BY <2>1, <2>2, AppendProperties DEF Passes, Decides
  <2> QED
    BY <2>1, <2>2, MainKinds DEF Asks, Waits, Refuses, Loses
<1>4. /\ outQ' \in Seq(OutLine)
      /\ main' \in {"loop", "drain", "asking", "closing"}
      /\ reader' \in {"up", "dead", "done"}
  <2>1. CASE Ends
    BY <2>1, LineTyped, AppendProperties DEF Ends, EndLoop, TypeOK
  <2>2. ASSUME NEW i \in 1..Len(host), Refuses(i)
        PROVE  outQ' \in Seq(OutLine)
    BY <2>2, LineTyped, AppendProperties, SeqTypes DEF Refuses, TypeOK
  <2> QED
    BY <2>1, <2>2, MainKinds DEF Asks, Waits, Refuses, Loses, Passes, Continues, TypeOK
<1>5. approved' \subseteq 1..taken' /\ reads' \subseteq 1..taken'
  <2>1. taken' = taken \/ taken' = taken + 1
    BY MainKinds, <1>1 DEF Asks, Waits, Passes, Refuses, Loses, Decides
  <2>2. CASE taken' = taken /\ taken' = 0
    <3>1. Waits
      BY <2>2, MainKinds, SeqTypes DEF Asks, Passes, Refuses, Loses, Decides
    <3> QED
      BY <3>1 DEF Waits, TypeOK
  <2>3. CASE taken' > 0
    BY <1>1, <1>2, <2>1, <2>3, SeqTypes DEF MainKeeps, TypeOK
  <2> QED
    BY <1>2, <2>1, <2>2, <2>3, SeqTypes
<1>6. exact' \subseteq 1..taken' /\ approx' \subseteq 1..taken' /\ forgotten' \subseteq 1..taken'
  <2>1. exact \cup forgotten \subseteq 1..taken /\ approx \subseteq 1..taken
    BY DEF TypeOK
  <2>2. 1..taken \subseteq 1..taken'
    BY <1>2, SeqTypes
  <2>3. /\ exact' \subseteq exact \cup forgotten /\ forgotten' \subseteq exact \cup forgotten
        /\ approx' = approx
    BY <1>1 DEF MainKeeps, Expires
  <2> QED
    BY <2>1, <2>2, <2>3
<1> QED
  BY <1>1, <1>2, <1>3, <1>4, <1>5, <1>6 DEF TypeOK, MainKeeps

LEMMA TypeStep ==
  ASSUME IInv, [Next]_vars
  PROVE  TypeOK' /\ Len(host') <= MaxFrames
<1>t. TypeOK /\ MainInv /\ Len(host) <= MaxFrames
  BY DEF IInv
<1> USE <1>t
<1>1. CASE MainStep
  BY <1>1, MainTypes, MainKinds DEF MainKeeps
<1>2. CASE ReadLine
  <2>1. said[heard + 1] \in OutLine /\ heard + 1 \in 0..Len(said)
    BY <1>2, SeqTypes DEF ReadLine
  <2>2. outQ' = outQ \/ outQ' = Append(outQ, said[heard + 1])
    BY <1>2 DEF ReadLine
  <2>3. outQ' \in Seq(OutLine)
    <3>1. outQ \in Seq(OutLine)
      BY DEF TypeOK
    <3>2. Append(outQ, said[heard + 1]) \in Seq(OutLine)
      BY <2>1, <3>1, AppendProperties
    <3> QED
      BY <2>2, <3>1, <3>2
  <2>4. /\ reads' \subseteq 1..taken /\ exact' \subseteq 1..taken /\ approx' \subseteq 1..taken
        /\ reader' \in {"up", "dead", "done"}
    BY <1>2 DEF ReadLine, Register, TypeOK
  <2> QED
    BY <1>2, <2>1, <2>3, <2>4 DEF ReadLine, TypeOK, policyVars, hostVars, childVars, writerVars
<1>3. CASE ReadEof
  BY <1>3 DEF ReadEof, TypeOK, policyVars, hostVars, childVars, writerVars, matcherVars
<1>4. CASE WriteLine
  <2>1. Head(outQ) \in OutLine /\ Tail(outQ) \in Seq(OutLine)
    BY <1>4, HeadTailProperties DEF WriteLine, TypeOK
  <2>2. toHost' \in Seq(OutLine) /\ writer' \in {"up", "dead", "done"}
    <3>1. toHost \in Seq(OutLine) /\ writer \in {"up", "dead", "done"}
      BY DEF TypeOK
    <3>2. Append(toHost, Head(outQ)) \in Seq(OutLine)
      BY <2>1, <3>1, AppendProperties
    <3> QED
      BY <1>4, <3>1, <3>2 DEF WriteLine
  <2> QED
    BY <1>4, <2>1, <2>2
       DEF WriteLine, TypeOK, policyVars, hostVars, childVars, readerVars, matcherVars
<1>5. CASE WriteFails
  BY <1>5 DEF WriteFails, TypeOK, policyVars, hostVars, childVars, readerVars, matcherVars
<1>6. CASE Terminate \/ StopBroker \/ CompanionsLeave
  BY <1>6 DEF Terminate, StopBroker, CompanionsLeave, TypeOK, policyVars, hostVars, childVars,
         readerVars,
              writerVars, matcherVars
<1>7. CASE HostSends
  <2>1. PICK k \in HostKinds, s \in {0} \cup Learned :
          host' = Append(host, [kind |-> k, carries |-> s])
    BY <1>7 DEF HostSends
  <2>2. [kind |-> k, carries |-> s] \in Frame
    BY LearnedTyped, RelayAssumption DEF Frame, Kinds, ToolCalls
  <2>3. host' \in Seq(Frame) /\ Len(host') = Len(host) + 1
    BY <2>1, <2>2, AppendProperties DEF TypeOK
  <2>4. taken \in 0..Len(host') /\ Len(host') <= MaxFrames
    BY <1>7, <2>3, SeqTypes, RelayAssumption DEF HostSends
  <2> QED
    BY <1>7, <2>3, <2>4
       DEF HostSends, TypeOK, policyVars, childVars, readerVars, writerVars, matcherVars
<1>12. CASE StdinDies
  BY <1>12, SeqTypes DEF StdinDies, TypeOK, policyVars, childVars, readerVars, writerVars, matcherVars
<1>8. CASE HostCloses
  BY <1>8 DEF HostCloses, TypeOK, policyVars, childVars, readerVars, writerVars, matcherVars
<1>9. CASE ChildAnswers \/ ChildTalks
  <2>1. PICK l \in OutLine : said' = Append(said, l)
    <3>1. CASE ChildAnswers
      BY <3>1, LineTyped, SeqTypes DEF ChildAnswers, ChildSays
    <3>2. CASE ChildTalks
      BY <3>2, LineTyped, RelayAssumption DEF ChildTalks, ChildSays
    <3> QED
      BY <1>9, <3>1, <3>2
  <2>2. said' \in Seq(OutLine) /\ heard \in 0..Len(said')
    BY <2>1, AppendProperties, SeqTypes DEF TypeOK
  <2> QED
    BY <1>9, <2>2 DEF ChildAnswers, ChildTalks, TypeOK, policyVars, hostVars, readerVars,
                      writerVars, matcherVars
<1>10. CASE ChildExits
  BY <1>10 DEF ChildExits, TypeOK, policyVars, hostVars, readerVars, writerVars, matcherVars
<1>11. CASE UNCHANGED vars
  BY <1>11 DEF vars, TypeOK
<1> QED
  BY <1>1, <1>2, <1>3, <1>4, <1>5, <1>6, <1>7, <1>8, <1>9, <1>10, <1>11, <1>12
     DEF Next, ReaderStep, Environment

-----------------------------------------------------------------------------
\* ---- what any step does to one of the sequences ----

\* The last steps of run.
Finish == StopBroker \/ CompanionsLeave

\* Steps of the others leave main, and what only main writes, alone.
OthersKeep == UNCHANGED <<taken, approved, childGot>> /\ (main' = main \/ Finish)

LEMMA OthersStep ==
  ASSUME [Next]_vars, ~MainStep
  PROVE  OthersKeep
BY DEF OthersKeep, Finish, Next, ReaderStep, Environment, vars, ReadLine, ReadEof, WriteLine, WriteFails,
       Terminate, StopBroker, CompanionsLeave, StdinDies, HostSends, HostCloses, ChildAnswers,
       ChildTalks, ChildExits

LEMMA HostStep ==
  ASSUME TypeOK, MainInv, [Next]_vars
  PROVE  /\ \A i \in 1..Len(host) : host'[i] = host[i]
         /\ Len(host') >= Len(host) /\ Len(host') \in Nat
         /\ ~HostSends => host' = host
<1>1. CASE HostSends
  <2>1. PICK f : host' = Append(host, f)
    BY <1>1 DEF HostSends
  <2>2. host \in Seq(Frame \cup {f}) /\ Len(host) \in Nat
    BY SeqMonotonic, SeqTypes DEF TypeOK
  <2>3. /\ \A i \in 1..Len(host) : Append(host, f)[i] = host[i]
        /\ Len(Append(host, f)) = Len(host) + 1
    BY <2>2, AppendProperties
  <2> QED
    BY <1>1, <2>1, <2>2, <2>3
<1>2. CASE ~HostSends
  <2>1. MainStep => host' = host
    BY MainKinds DEF MainKeeps
  <2>2. host' = host
    BY <1>2, <2>1 DEF Next, ReaderStep, Environment, vars, ReadLine, ReadEof, WriteLine, WriteFails,
       Terminate, StopBroker, CompanionsLeave, StdinDies, HostCloses, ChildAnswers, ChildTalks,
       ChildExits, hostVars
  <2> QED
    BY <2>2, SeqTypes
<1> QED
  BY <1>1, <1>2

LEMMA ChildGotStep ==
  ASSUME TypeOK, MainInv, [Next]_vars
  PROVE  /\ \/ UNCHANGED childGot
            \/ \E i \in 1..Len(host) :
                 MainStep /\ Passes(i) /\ ToSet(childGot') = ToSet(childGot) \cup {i}
         /\ ToSet(childGot) \subseteq ToSet(childGot')
<1>1. CASE ~MainStep
  BY <1>1, OthersStep DEF OthersKeep
<1>2. CASE MainStep
  <2>1. ASSUME NEW i \in 1..Len(host), Passes(i)
        PROVE  ToSet(childGot') = ToSet(childGot) \cup {i}
    <3>1. childGot \in Seq(Nat) /\ i \in Nat
      BY SeqTypes, SeqMonotonic DEF TypeOK
    <3> QED
      BY <2>1, <3>1, ToSetAppend DEF Passes
  <2> QED
    BY <1>2, <2>1, MainKinds DEF Asks, Waits, Refuses, Loses
<1> QED
  BY <1>1, <1>2

\* The child says one more line.
Says(l) ==
  /\ said' = Append(said, l) /\ l \in OutLine
  /\ \/ /\ l.kind \in Answers
        /\ l.id \in ToSet(childGot) \ Answered
        /\ host[l.id].kind \in ToolCalls
     \/ l.kind = "request" /\ l.id \in ChildIds
     \/ l.kind \in {"array", "long"} /\ l.id = 0

LEMMA SaidStep ==
  ASSUME TypeOK, MainInv, [Next]_vars
  PROVE  \/ UNCHANGED said
         \/ (\E l \in OutLine : Says(l)) /\ (ChildAnswers \/ ChildTalks)
<1>1. CASE ChildAnswers
  <2>1. PICK i \in ToSet(childGot) \ Answered, k \in Answers :
          host[i].kind \in ToolCalls /\ said' = Append(said, Line(k, i))
    BY <1>1 DEF ChildAnswers, Answers
  <2>2. Line(k, i) \in OutLine /\ Line(k, i).kind = k /\ Line(k, i).id = i
    BY LineTyped, SeqTypes DEF Answers, ChildSays, Line
  <2> QED
    BY <1>1, <2>1, <2>2 DEF Says
<1>2. CASE ChildTalks
  <2>1. PICK k \in ChildKinds : \E i \in (IF k = "request" THEN ChildIds ELSE {0}) :
          said' = Append(said, Line(k, i))
    BY <1>2 DEF ChildTalks
  <2>2. PICK i \in (IF k = "request" THEN ChildIds ELSE {0}) : said' = Append(said, Line(k, i))
    BY <2>1
  <2>3. /\ Line(k, i) \in OutLine /\ Line(k, i).kind = k /\ Line(k, i).id = i
        /\ k \in {"request", "array", "long"} /\ i \in Nat
    BY LineTyped, RelayAssumption DEF ChildSays, Line
  <2> QED
    BY <1>2, <2>2, <2>3 DEF Says
<1>3. CASE ~ChildAnswers /\ ~ChildTalks
  <2>1. MainStep => said' = said
    BY MainKinds DEF MainKeeps
  <2> QED
    BY <1>3, <2>1 DEF Next, ReaderStep, Environment, vars, ReadLine, ReadEof, WriteLine, WriteFails,
       Terminate, StopBroker, CompanionsLeave, StdinDies, HostSends, HostCloses, ChildExits, childVars
<1> QED
  BY <1>1, <1>2, <1>3

\* A line from the child is queued for the host.
Hears(l) ==
  /\ reader = "up" /\ reader' = "up" /\ heard < Len(said) /\ heard' = heard + 1
  /\ l = said[heard + 1] /\ outQ' = Append(outQ, l)

LEMMA QueueStep ==
  ASSUME TypeOK, MainInv, [Next]_vars
  PROVE  \/ UNCHANGED <<outQ, toHost>>
         \/ toHost' = toHost /\ MainStep /\ Ends
         \/ toHost' = toHost /\ MainStep /\ \E i \in 1..Len(host) : Refuses(i)
         \/ toHost' = toHost /\ ReadLine /\ \E l \in OutLine : Hears(l)
         \/ WriteLine
<1>1. CASE MainStep
  BY <1>1, MainKinds DEF MainKeeps, Asks, Waits, Passes, Refuses, Loses, Continues
<1>2. CASE ReadLine
  <2>1. said[heard + 1] \in OutLine
    BY <1>2, SeqTypes DEF ReadLine
  <2>2. UNCHANGED outQ \/ Hears(said[heard + 1])
    BY <1>2 DEF ReadLine, Hears
  <2>3. toHost' = toHost
    BY <1>2 DEF ReadLine, writerVars
  <2> QED
    BY <1>2, <2>1, <2>2, <2>3
<1>3. CASE WriteLine
  BY <1>3
<1>4. CASE ~MainStep /\ ~ReadLine /\ ~WriteLine
  BY <1>4 DEF Next, ReaderStep, Environment, vars, ReadEof, WriteFails, Terminate, StopBroker,
         CompanionsLeave, StdinDies,
              HostSends, HostCloses, ChildAnswers, ChildTalks, ChildExits, writerVars
<1> QED
  BY <1>1, <1>2, <1>3, <1>4

LEMMA LinesOutStep ==
  ASSUME TypeOK, MainInv, [Next]_vars, NEW l \in LinesOut'
  PROVE  \/ l \in LinesOut
         \/ MainStep /\ Ends /\ l = Sentinel
         \/ MainStep /\ \E i \in 1..Len(host) :
              Refuses(i) /\ \E why \in Refusals : l = Line(why, i)
         \/ ReadLine /\ l \in OutLine /\ Hears(l)
<1>t. outQ \in Seq(OutLine) /\ toHost \in Seq(OutLine)
  BY DEF TypeOK
<1>1. CASE UNCHANGED <<outQ, toHost>>
  BY <1>1 DEF LinesOut
<1>2. CASE toHost' = toHost /\ MainStep /\ Ends
  <2>1. ToSet(outQ') = ToSet(outQ) \cup {Sentinel}
    BY <1>2, <1>t, LineTyped, ToSetAppend DEF Ends, EndLoop
  <2> QED
    BY <1>2, <2>1 DEF LinesOut
<1>3. ASSUME toHost' = toHost, MainStep, NEW i \in 1..Len(host), Refuses(i)
      PROVE  l \in LinesOut \/ \E why \in Refusals : l = Line(why, i)
  <2>1. PICK why \in Refusals : outQ' = Append(outQ, Line(why, i))
    BY <1>3 DEF Refuses
  <2>2. ToSet(outQ') = ToSet(outQ) \cup {Line(why, i)}
    BY <1>t, <2>1, LineTyped, SeqTypes, ToSetAppend
  <2> QED
    BY <1>3, <2>2 DEF LinesOut
<1>4. ASSUME toHost' = toHost, ReadLine, NEW m \in OutLine, Hears(m)
      PROVE  l \in LinesOut \/ l = m
  <2>1. ToSet(outQ') = ToSet(outQ) \cup {m}
    BY <1>4, <1>t, ToSetAppend DEF Hears
  <2> QED
    BY <1>4, <2>1 DEF LinesOut
<1>5. CASE WriteLine
  <2>1. outQ # <<>> /\ outQ' = Tail(outQ)
    BY <1>5 DEF WriteLine
  <2>2. Head(outQ) \in OutLine /\ ToSet(outQ) = {Head(outQ)} \cup ToSet(outQ')
    BY <1>t, <2>1, HeadTailProperties, ToSetHeadTail
  <2>3. toHost' = toHost \/ toHost' = Append(toHost, Head(outQ))
    BY <1>5 DEF WriteLine
  <2>4. ToSet(toHost') \subseteq ToSet(toHost) \cup {Head(outQ)}
    <3>1. ToSet(Append(toHost, Head(outQ))) = ToSet(toHost) \cup {Head(outQ)}
      BY <1>t, <2>2, ToSetAppend
    <3> QED
      BY <2>3, <3>1
  <2> QED
    BY <2>2, <2>4 DEF LinesOut
<1> QED
  BY <1>1, <1>2, <1>3, <1>4, <1>5, QueueStep

-----------------------------------------------------------------------------
\* ---- the parts of the inductive invariant ----

LEMMA SaidInvStep ==
  ASSUME IInv, [Next]_vars
  PROVE  SaidInv'
<1>t. TypeOK /\ MainInv /\ SaidInv
  BY DEF IInv
<1> SUFFICES ASSUME NEW l \in ToSet(said')
             PROVE  /\ l.kind \in ChildSays
                    /\ l.kind \in Answers => l.id \in ToSet(childGot')
                    /\ l.kind = "request" => l.id \in ChildIds
                    /\ l.kind \in {"array", "long"} => l.id = 0
  BY DEF SaidInv
<1>1. CASE l \in ToSet(said)
  BY <1>t, <1>1, ChildGotStep DEF SaidInv
<1>2. CASE l \notin ToSet(said)
  <2>1. PICK m \in OutLine : Says(m)
    BY <1>t, <1>2, SaidStep
  <2>2. ToSet(said') = ToSet(said) \cup {m}
    BY <1>t, <2>1, ToSetAppend DEF Says, TypeOK
  <2>3. l = m
    BY <1>2, <2>2
  <2> QED
    BY <1>t, <2>1, <2>3, ChildGotStep DEF Says, Answers, ChildSays
<1> QED
  BY <1>1, <1>2

LEMMA MainInvStep ==
  ASSUME IInv, [Next]_vars
  PROVE  MainInv'
<1>t. TypeOK /\ MainInv
  BY DEF IInv
<1>h. /\ \A i \in 1..Len(host) : host'[i] = host[i]
      /\ Len(host') >= Len(host) /\ Len(host') \in Nat
      /\ taken \in Nat /\ Len(host) \in Nat /\ taken <= Len(host)
      /\ ToSet(childGot) \subseteq 1..taken
  BY <1>t, HostStep, SeqTypes
<1>1. \A i \in ToSet(childGot') : host'[i].kind \notin {"bad", "odd"}
  <2>1. \A i \in ToSet(childGot) : host'[i].kind \notin {"bad", "odd"}
    BY <1>t, <1>h DEF MainInv
  <2>2. \A i \in 1..Len(host) : Passes(i) => host'[i].kind \notin {"bad", "odd"}
    BY <1>h DEF Passes, ToolCalls
  <2> QED
    BY <1>t, <2>1, <2>2, ChildGotStep
<1>2. main' = "asking" =>
        taken' \in 1..Len(host') /\ taken' \notin ToSet(childGot') /\ host'[taken'].kind \in ToolCalls
  <2>1. CASE ~MainStep
    BY <1>t, <1>h, <2>1, OthersStep DEF OthersKeep, MainInv, Finish, StopBroker, CompanionsLeave
  <2>2. CASE MainStep /\ Asks
    BY <1>h, <2>2 DEF Asks
  <2>3. CASE MainStep /\ ~Asks
    BY <1>t, <2>3, MainKinds DEF Waits, Passes, Refuses, Loses, Ends, EndLoop, Continues
  <2> QED
    BY <2>1, <2>2, <2>3
<1> QED
  BY <1>1, <1>2 DEF MainInv

LEMMA OutInvStep ==
  ASSUME IInv, [Next]_vars
  PROVE  OutInv'
<1>t. TypeOK /\ MainInv /\ SaidInv /\ OutInv
  BY DEF IInv
<1>h. /\ \A i \in 1..Len(host) : host'[i] = host[i]
      /\ taken \in Nat /\ Len(host) \in Nat /\ taken <= Len(host)
      /\ ToSet(childGot) \subseteq 1..taken
      /\ ToSet(childGot) \subseteq ToSet(childGot')
  BY <1>t, HostStep, SeqTypes, ChildGotStep
<1> SUFFICES ASSUME NEW l \in LinesOut'
             PROVE  /\ l.kind \in Answers => l.id \in ToSet(childGot')
                    /\ l.kind \in Refusals =>
                         /\ l.id \in 1..taken' /\ l.id \notin ToSet(childGot')
                         /\ host'[l.id].kind # "other"
                         /\ main' = "asking" => l.id # taken'
                    /\ l.kind = "eof" => l = Sentinel /\ main' \in Ended
  BY DEF OutInv
<1>1. CASE l \in LinesOut
  <2>1. l.kind \in Answers => l.id \in ToSet(childGot')
    BY <1>t, <1>h, <1>1 DEF OutInv
  <2>2. ASSUME l.kind \in Refusals
        PROVE  /\ l.id \in 1..taken' /\ l.id \notin ToSet(childGot')
               /\ host'[l.id].kind # "other"
               /\ main' = "asking" => l.id # taken'
    <3>1. /\ l.id \in 1..taken /\ l.id \notin ToSet(childGot) /\ host[l.id].kind # "other"
          /\ main = "asking" => l.id # taken
      BY <1>t, <1>1, <2>2 DEF OutInv
    <3>2. host'[l.id].kind # "other"
      BY <1>h, <3>1
    <3>3. CASE ~MainStep
      BY <3>1, <3>2, <3>3, OthersStep DEF OthersKeep, Finish, StopBroker, CompanionsLeave
    <3>4. CASE MainStep /\ Asks
      BY <1>h, <3>1, <3>2, <3>4 DEF Asks
    <3>5. CASE MainStep /\ ~Asks
      <4>1. main' # "asking" /\ (taken' = taken \/ taken' = taken + 1)
        BY <1>t, <3>5, MainKinds DEF Waits, Passes, Refuses, Loses, Ends, EndLoop, Continues, Decides
      <4>2. \A i \in 1..Len(host) : Passes(i) => l.id # i
        BY <1>h, <3>1 DEF Passes, Decides
      <4>3. l.id \notin ToSet(childGot')
        BY <1>t, <3>1, <4>2, ChildGotStep
      <4> QED
        BY <1>h, <3>1, <3>2, <4>1, <4>3
    <3> QED
      BY <3>3, <3>4, <3>5
  <2>3. l.kind = "eof" => l = Sentinel /\ main' \in Ended
    <3>1. l.kind = "eof" => l = Sentinel /\ main \in Ended
      BY <1>t, <1>1 DEF OutInv
    <3>2. main \in Ended => ~MainStep
      BY <1>t, MainKinds DEF MainKeeps, Ended
    <3> QED
      BY <3>1, <3>2, OthersStep DEF OthersKeep, Finish, StopBroker, CompanionsLeave, Ended
  <2> QED
    BY <2>1, <2>2, <2>3
<1>2. CASE Ends /\ l = Sentinel
  BY <1>2 DEF Ends, EndLoop, Sentinel, Line, Ended, Answers, Refusals
<1>3. ASSUME NEW i \in 1..Len(host), Refuses(i), NEW why \in Refusals, l = Line(why, i)
      PROVE  l.kind \in Refusals /\ l.id = i /\ l.kind \notin Answers /\ l.kind # "eof"
             /\ i \in 1..taken' /\ i \notin ToSet(childGot') /\ host'[i].kind # "other"
             /\ main' # "asking"
  <2>1. l.kind \in Refusals /\ l.id = i /\ l.kind \notin Answers /\ l.kind # "eof"
    BY <1>3 DEF Line, Refusals, Answers
  <2>2. childGot' = childGot /\ main' = "loop" /\ host[i].kind # "other" /\ taken' = i
    BY <1>3 DEF Refuses, Decides
  <2>3. i \notin ToSet(childGot)
    BY <1>t, <1>h, <1>3 DEF Refuses, Decides, MainInv
  <2> QED
    BY <1>h, <2>1, <2>2, <2>3
<1>4. CASE Hears(l)
  <2>1. l \in ToSet(said)
    BY <1>t, <1>4, SeqTypes DEF Hears
  <2> QED
    BY <1>t, <1>h, <2>1 DEF SaidInv, ChildSays, Refusals, Answers
<1> QED
  BY <1>t, <1>1, <1>2, <1>3, <1>4, LinesOutStep

\* Until main is over no sentinel is queued, and only main's end queues one.
LEMMA NoSentinelYet ==
  ASSUME IInv, main \notin Ended
  PROVE  \A n \in DOMAIN outQ : outQ[n] # Sentinel
<1>1. \A n \in DOMAIN outQ : outQ[n] \in LinesOut
  BY DEF LinesOut, ToSet
<1> QED
  BY <1>1, LineTyped DEF IInv, OutInv

LEMMA EndInvStep ==
  ASSUME IInv, [Next]_vars
  PROVE  EndInv'
<1>t. TypeOK /\ MainInv /\ EndInv
  BY DEF IInv
<1>q. outQ \in Seq(OutLine) /\ toHost \in Seq(OutLine) /\ DOMAIN outQ = 1..Len(outQ) /\ Len(outQ) \in Nat
  BY LenProperties DEF TypeOK, IInv
<1>m. main \in Ended => ~MainStep
  BY <1>t, MainKinds DEF MainKeeps, Ended
<1>r. reader' = "dead" => heard' > 0
  <2>1. heard \in Nat
    BY <1>t, SeqTypes
  <2>2. MainStep => heard' = heard /\ reader' \in {reader, "done"}
    BY <1>t, MainKinds DEF MainKeeps, Asks, Waits, Passes, Refuses, Loses, Ends, EndLoop, Continues
  <2>3. ReadLine => heard' = heard + 1
    BY DEF ReadLine
  <2>4. ~MainStep /\ ~ReadLine => heard' = heard /\ reader' \in {reader, "done"}
    BY DEF Next, ReaderStep, Environment, vars, ReadEof, WriteLine, WriteFails, Terminate, StopBroker,
           CompanionsLeave, StdinDies,
           HostSends, HostCloses, ChildAnswers, ChildTalks, ChildExits, readerVars
  <2> QED
    BY <1>t, <2>1, <2>2, <2>3, <2>4 DEF EndInv
\* What holds of a step that appends a line other than the sentinel while main goes on.
<1>a. ASSUME main \notin Ended, main' \notin Ended, NEW l \in OutLine, l # Sentinel,
             outQ' = Append(outQ, l), UNCHANGED <<writer, toHost>>
      PROVE  EndInv'
  <2>1. \A n \in DOMAIN outQ : outQ[n] # Sentinel
    BY <1>a, NoSentinelYet
  <2>2. /\ DOMAIN outQ' = 1..(Len(outQ) + 1)
        /\ \A n \in 1..Len(outQ) : outQ'[n] = outQ[n]
        /\ outQ'[Len(outQ) + 1] = l
    BY <1>a, <1>q, AppendProperties, LenProperties
  <2>3. \A n \in DOMAIN outQ' : outQ'[n] # Sentinel
    BY <1>a, <1>q, <2>1, <2>2
  <2> QED
    BY <1>t, <1>a, <1>r, <2>3 DEF EndInv, Ended
<1>1. CASE MainStep
  <2>1. main \notin Ended /\ UNCHANGED <<writer, toHost>>
    BY <1>t, <1>1, MainKinds DEF MainKeeps, Ended
  <2>2. writer # "done" /\ \A n \in DOMAIN toHost : toHost[n].kind # "eof"
    BY <1>t, <2>1 DEF EndInv
  <2>3. CASE Ends
    <3>1. outQ' = Append(outQ, Sentinel) /\ main' = "closing" /\ reader' # "up"
      BY <1>t, <2>3 DEF Ends, EndLoop, TypeOK
    <3>2. /\ DOMAIN outQ' = 1..(Len(outQ) + 1) /\ Len(outQ') = Len(outQ) + 1
          /\ \A n \in 1..Len(outQ) : outQ'[n] = outQ[n]
          /\ outQ'[Len(outQ) + 1] = Sentinel
      BY <1>q, <3>1, AppendProperties, LenProperties, LineTyped
    <3>3. \A n \in DOMAIN outQ' : outQ'[n] = Sentinel => n = Len(outQ')
      BY <1>q, <2>1, <3>2, NoSentinelYet
    <3>4. outQ' # <<>> /\ outQ'[Len(outQ')] = Sentinel
      BY <1>q, <3>2, <3>1
    <3> QED
      BY <1>r, <2>1, <2>2, <3>1, <3>3, <3>4 DEF EndInv
  <2>4. ASSUME NEW i \in 1..Len(host), Refuses(i)
        PROVE  EndInv'
    <3>1. PICK why \in Refusals : outQ' = Append(outQ, Line(why, i))
      BY <2>4 DEF Refuses
    <3>2. Line(why, i) \in OutLine /\ Line(why, i) # Sentinel
      BY LineTyped, <1>t, SeqTypes DEF Sentinel, Line, Refusals
    <3>3. main' \notin Ended
      BY <2>4 DEF Refuses, Ended
    <3> QED
      BY <1>a, <2>1, <3>1, <3>2, <3>3
  <2>5. CASE outQ' = outQ /\ main' \notin Ended
    BY <1>t, <1>r, <2>1, <2>2, <2>5 DEF EndInv, Ended
  <2> QED
    BY <1>t, <1>1, <2>3, <2>4, <2>5, MainKinds DEF Asks, Waits, Passes, Loses, Continues, Ended
<1>2. CASE ReadLine
  <2>1. main \notin Ended /\ main' = main
    BY <1>t, <1>2 DEF ReadLine, EndInv, Ended
  <2>2. UNCHANGED <<writer, toHost>>
    BY <1>2 DEF ReadLine, writerVars
  <2>3. said[heard + 1] \in OutLine /\ said[heard + 1] # Sentinel
    <3>1. heard + 1 \in 1..Len(said)
      BY <1>t, <1>2, SeqTypes DEF ReadLine
    <3>2. said[heard + 1] \in ToSet(said) /\ said[heard + 1] \in OutLine
      BY <1>t, <3>1, SeqTypes
    <3>3. said[heard + 1].kind \in ChildSays
      BY <3>2 DEF IInv, SaidInv
    <3> QED
      BY <3>2, <3>3, LineTyped DEF ChildSays
  <2>4. CASE outQ' = Append(outQ, said[heard + 1])
    BY <1>a, <2>1, <2>2, <2>3, <2>4
  <2>5. CASE outQ' = outQ
    BY <1>t, <1>r, <2>1, <2>2, <2>5 DEF EndInv, Ended
  <2> QED
    BY <1>2, <2>4, <2>5 DEF ReadLine
<1>3. CASE WriteLine
  <2>1. /\ outQ # <<>> /\ outQ' = Tail(outQ) /\ writer = "up"
        /\ main' = main /\ reader' = reader
    BY <1>3 DEF WriteLine, readerVars
  <2>2. /\ Len(outQ) \in Nat \ {0} /\ Head(outQ) = outQ[1]
        /\ DOMAIN outQ' = 1..(Len(outQ) - 1) /\ Len(outQ') = Len(outQ) - 1
        /\ \A n \in 1..(Len(outQ) - 1) : outQ'[n] = outQ[n + 1]
    BY <1>q, <2>1, HeadTailProperties, EmptySeq, LenProperties
  <2>3. outQ' \in Seq(OutLine)
    BY <1>q, <2>1, HeadTailProperties
  <2>4. \A n \in DOMAIN outQ' : outQ'[n] = Sentinel => n = Len(outQ')
    BY <1>t, <1>q, <2>2 DEF EndInv
  <2>5. CASE Head(outQ) = Sentinel
    <3>1. Len(outQ) = 1 /\ writer' = "done" /\ toHost' = toHost
      BY <1>t, <1>q, <1>3, <2>2, <2>5 DEF EndInv, WriteLine
    <3>2. outQ' = <<>>
      BY <2>2, <2>3, <3>1, EmptySeq
    <3>3. main \in Ended
      <4>1. 1 \in DOMAIN outQ /\ outQ[1] = Sentinel
        BY <1>q, <2>2, <2>5
      <4> QED
        BY <4>1, NoSentinelYet
    <3> QED
      BY <1>t, <1>r, <2>1, <2>4, <3>1, <3>2, <3>3 DEF EndInv, Ended
  <2>6. CASE Head(outQ) # Sentinel
    <3>1. toHost' = Append(toHost, Head(outQ)) /\ writer' = "up"
      BY <1>3, <2>1, <2>6 DEF WriteLine
    <3>2. Head(outQ) \in LinesOut /\ Head(outQ) \in OutLine
      <4>1. 1 \in DOMAIN outQ
        BY <1>q, <2>2
      <4>2. outQ[1] \in LinesOut
        BY <4>1 DEF LinesOut, ToSet
      <4> QED
        BY <1>t, <2>2, <4>2, SeqTypes
    <3>3. Head(outQ).kind # "eof"
      BY <2>6, <3>2 DEF IInv, OutInv
    <3>4. \A n \in DOMAIN toHost' : toHost'[n].kind # "eof"
      BY <1>t, <1>q, <3>1, <3>2, <3>3, AppendProperties, LenProperties DEF EndInv
    <3>5. main = "closing" => outQ' # <<>> /\ outQ'[Len(outQ')] = Sentinel
      <4>1. SUFFICES ASSUME main = "closing" PROVE Len(outQ) > 1 /\ outQ[Len(outQ)] = Sentinel
        BY <2>2, EmptySeq
      <4>2. outQ[Len(outQ)] = Sentinel
        BY <1>t, <2>1, <4>1 DEF EndInv
      <4> QED
        BY <2>2, <2>6, <4>2
    <3> QED
      BY <1>t, <1>r, <2>1, <2>4, <3>1, <3>4, <3>5 DEF EndInv, Ended
  <2> QED
    BY <2>5, <2>6
<1>4. CASE Finish
  BY <1>t, <1>r, <1>4 DEF Finish, StopBroker, CompanionsLeave, EndInv, Ended, readerVars, writerVars
<1>5. CASE WriteFails
  BY <1>t, <1>r, <1>5 DEF WriteFails, EndInv, Ended, readerVars
<1>6. CASE ReadEof
  BY <1>t, <1>r, <1>6 DEF ReadEof, EndInv, Ended, writerVars
<1>7. CASE ~MainStep /\ ~ReadLine /\ ~ReadEof /\ ~WriteLine /\ ~WriteFails /\ ~Finish
  <2>1. UNCHANGED <<main, reader, outQ, writer, toHost>>
    BY <1>7 DEF Next, ReaderStep, Environment, vars, Terminate, StdinDies, HostSends, HostCloses,
                ChildAnswers, ChildTalks, ChildExits, Finish, readerVars, writerVars
  <2> QED
    BY <1>t, <1>r, <2>1 DEF EndInv, Ended
<1> QED
  BY <1>1, <1>2, <1>3, <1>4, <1>5, <1>6, <1>7

LEMMA Invariant == Spec => []IInv
<1>1. Init => IInv
  BY InitIInv
<1>2. IInv /\ [Next]_vars => IInv'
  BY TypeStep, SaidInvStep, OutInvStep, MainInvStep, EndInvStep DEF IInv
<1> QED
  BY <1>1, <1>2, PTL DEF Spec

(* The variables keep their types: no secret, question, tracked read or    *)
(* frame for the child comes from anything but a frame that main has       *)
(* taken, however the answers, ends and failures interleave.               *)
THEOREM TypeCorrect == Spec => []TypeOK
<1>1. IInv => TypeOK
  BY DEF IInv
<1> QED
  BY <1>1, Invariant, PTL

(* The shutdown of run cuts off no line that was queued: the sentinel is   *)
(* the last line, and the relay is gone only after it, unless the host has *)
(* gone before.                                                            *)
THEOREM ShutdownFlushes == Spec => []FlushedAtExit
<1>1. IInv => FlushedAtExit
  BY DEF IInv, TypeOK, EndInv, Ended, Over, FlushedAtExit
<1> QED
  BY <1>1, Invariant, PTL

-----------------------------------------------------------------------------
\* ---- the order of the child's lines ----

\* The lines in q that are the child's are the first h lines of s.
InOrder(q, s, h) ==
  /\ Cardinality(ChildLines(q, Len(q))) = h
  /\ \A n \in ChildLines(q, Len(q)) : q[n] = s[Cardinality(ChildLines(q, n))]

LEMMA ChildLinesCount ==
  ASSUME NEW q, NEW n \in Nat
  PROVE  /\ IsFiniteSet(ChildLines(q, n)) /\ Cardinality(ChildLines(q, n)) \in Nat
         /\ ChildLines(q, n) # {} => Cardinality(ChildLines(q, n)) > 0
<1>1. IsFiniteSet(1..n) /\ ChildLines(q, n) \in SUBSET (1..n)
  BY FS_Interval DEF ChildLines
<1>2. IsFiniteSet(ChildLines(q, n))
  BY <1>1, FS_Subset
<1> QED
  BY <1>2, FS_CardinalityType, FS_EmptySet

LEMMA ChildLinesAppend ==
  ASSUME NEW q \in Seq(OutLine), NEW l \in OutLine
  PROVE  /\ \A n \in 0..Len(q) : ChildLines(Append(q, l), n) = ChildLines(q, n)
         /\ ChildLines(Append(q, l), Len(q) + 1) =
              ChildLines(q, Len(q)) \cup (IF FromChild(l) THEN {Len(q) + 1} ELSE {})
<1>1. /\ Len(q) \in Nat
      /\ \A m \in 1..Len(q) : Append(q, l)[m] = q[m]
      /\ Append(q, l)[Len(q) + 1] = l
  BY AppendProperties, LenProperties
<1>2. 1..(Len(q) + 1) = 1..Len(q) \cup {Len(q) + 1}
  BY <1>1
<1>3. \A n \in 0..Len(q) : ChildLines(Append(q, l), n) = ChildLines(q, n)
  <2> SUFFICES ASSUME NEW n \in 0..Len(q)
               PROVE  ChildLines(Append(q, l), n) = ChildLines(q, n)
    OBVIOUS
  <2>1. \A m \in 1..n : Append(q, l)[m] = q[m]
    BY <1>1
  <2> QED
    BY <2>1 DEF ChildLines
<1>4. ChildLines(Append(q, l), Len(q) + 1) =
        ChildLines(q, Len(q)) \cup (IF FromChild(l) THEN {Len(q) + 1} ELSE {})
  BY <1>1, <1>2 DEF ChildLines
<1> QED
  BY <1>3, <1>4

\* A line that is not the child's changes nothing, and need not stay.
LEMMA InOrderOther ==
  ASSUME NEW q \in Seq(OutLine), NEW l \in OutLine, ~FromChild(l), NEW s, NEW h
  PROVE  InOrder(Append(q, l), s, h) <=> InOrder(q, s, h)
<1>1. Len(Append(q, l)) = Len(q) + 1 /\ Len(q) \in Nat
  BY AppendProperties, LenProperties
<1>2. ChildLines(Append(q, l), Len(q) + 1) = ChildLines(q, Len(q))
  BY ChildLinesAppend
<1>3. ASSUME NEW n \in ChildLines(q, Len(q))
      PROVE  Append(q, l)[n] = q[n] /\ ChildLines(Append(q, l), n) = ChildLines(q, n)
  <2>1. n \in 1..Len(q)
    BY DEF ChildLines
  <2> QED
    BY <1>1, <2>1, ChildLinesAppend, AppendProperties
<1> QED
  BY <1>1, <1>2, <1>3 DEF InOrder

\* The child's next line.
LEMMA InOrderNext ==
  ASSUME NEW q \in Seq(OutLine), NEW s \in Seq(OutLine), NEW h \in Nat, h < Len(s),
         FromChild(s[h + 1]), InOrder(q, s, h)
  PROVE  InOrder(Append(q, s[h + 1]), s, h + 1)
<1> DEFINE l == s[h + 1]
           r == Append(q, l)
<1>0. l \in OutLine
  BY LenProperties
<1>1. Len(r) = Len(q) + 1 /\ Len(q) \in Nat /\ r[Len(q) + 1] = l
  BY <1>0, AppendProperties, LenProperties
<1>2. ChildLines(r, Len(q) + 1) = ChildLines(q, Len(q)) \cup {Len(q) + 1}
  BY <1>0, ChildLinesAppend
<1>3. Len(q) + 1 \notin ChildLines(q, Len(q))
  BY <1>1 DEF ChildLines
<1>4. Cardinality(ChildLines(r, Len(r))) = h + 1
  BY <1>1, <1>2, <1>3, ChildLinesCount, FS_AddElement DEF InOrder
<1>5. ASSUME NEW n \in ChildLines(r, Len(r))
      PROVE  r[n] = s[Cardinality(ChildLines(r, n))]
  <2>1. CASE n = Len(q) + 1
    BY <1>1, <1>4, <2>1
  <2>2. CASE n \in ChildLines(q, Len(q))
    <3>1. n \in 1..Len(q)
      BY <2>2 DEF ChildLines
    <3>2. r[n] = q[n] /\ ChildLines(r, n) = ChildLines(q, n)
      BY <1>0, <1>1, <3>1, ChildLinesAppend, AppendProperties
    <3> QED
      BY <2>2, <3>2 DEF InOrder
  <2>3. n = Len(q) + 1 \/ n \in ChildLines(q, Len(q))
    <3> HIDE DEF r
    <3> QED
      BY <1>1, <1>2
  <2> QED
    BY <2>1, <2>2, <2>3
<1> QED
  BY <1>4, <1>5 DEF InOrder

\* What the child says later does not matter.
LEMMA InOrderLonger ==
  ASSUME NEW q \in Seq(OutLine), NEW s, NEW t, NEW h \in Nat, InOrder(q, s, h),
         \A k \in 1..h : t[k] = s[k]
  PROVE  InOrder(q, t, h)
<1> SUFFICES ASSUME NEW n \in ChildLines(q, Len(q))
             PROVE  Cardinality(ChildLines(q, n)) \in 1..h
  BY DEF InOrder
<1>1. Len(q) \in Nat /\ n \in 1..Len(q)
  BY LenProperties DEF ChildLines
<1>2. ChildLines(q, n) \subseteq ChildLines(q, Len(q)) /\ n \in ChildLines(q, n)
  BY <1>1 DEF ChildLines
<1>3. Cardinality(ChildLines(q, n)) <= Cardinality(ChildLines(q, Len(q)))
  BY <1>1, <1>2, ChildLinesCount, FS_Subset
<1> QED
  BY <1>1, <1>2, <1>3, ChildLinesCount DEF InOrder

LEMMA OrderStep ==
  ASSUME IInv, LinesInOrder, [Next]_vars
  PROVE  LinesInOrder'
<1>t. TypeOK /\ MainInv /\ EndInv
  BY DEF IInv
<1>q. outQ \in Seq(OutLine) /\ toHost \in Seq(OutLine) /\ said \in Seq(OutLine) /\ Outgoing \in Seq(OutLine)
  BY <1>t, ConcatProperties DEF TypeOK, Outgoing
<1>h. HandedOn \in Nat /\ HandedOn <= Len(said) /\ heard \in Nat /\ Len(said) \in Nat
  BY <1>t, SeqTypes DEF HandedOn, EndInv
<1>i. InOrder(Outgoing, said, HandedOn)
  BY DEF InOrder, LinesInOrder
<1> SUFFICES InOrder(Outgoing', said', HandedOn')
  BY DEF InOrder, LinesInOrder
<1>a. ASSUME NEW l \in OutLine, ~FromChild(l), outQ' = Append(outQ, l), toHost' = toHost
      PROVE  InOrder(Outgoing', said, HandedOn)
  <2>1. Outgoing' = Append(Outgoing, l)
    BY <1>q, <1>a, ConcatAppend DEF Outgoing
  <2> QED
    BY <1>a, <1>i, <1>q, <2>1, InOrderOther
<1>1. CASE MainStep
  <2>1. said' = said /\ heard' = heard /\ toHost' = toHost
    BY <1>t, <1>1, MainKinds DEF MainKeeps
  <2>2. reader' = reader \/ (reader = "up" /\ reader' = "done")
    BY <1>t, <1>1, MainKinds DEF Asks, Waits, Passes, Refuses, Loses, Ends, EndLoop, Continues
  <2>3. HandedOn' = HandedOn
    BY <2>1, <2>2 DEF HandedOn
  <2>4. CASE Ends
    BY <1>a, <2>1, <2>3, <2>4, LineTyped DEF Ends, EndLoop, FromChild, ChildSays
  <2>5. ASSUME NEW i \in 1..Len(host), Refuses(i)
        PROVE  InOrder(Outgoing', said', HandedOn')
    <3>1. PICK why \in Refusals : outQ' = Append(outQ, Line(why, i))
      BY <2>5 DEF Refuses
    <3>2. Line(why, i) \in OutLine /\ ~FromChild(Line(why, i))
      BY <1>t, LineTyped, SeqTypes DEF FromChild, ChildSays, Line, Refusals
    <3> QED
      BY <1>a, <2>1, <2>3, <3>1, <3>2
  <2>6. CASE outQ' = outQ
    BY <1>i, <2>1, <2>3, <2>6 DEF Outgoing
  <2> QED
    BY <1>t, <1>1, <2>4, <2>5, <2>6, MainKinds DEF Asks, Waits, Passes, Loses, Continues
<1>2. CASE ReadLine
  <2>1. /\ reader = "up" /\ heard < Len(said) /\ heard' = heard + 1
        /\ said' = said /\ toHost' = toHost
    BY <1>2 DEF ReadLine, childVars, writerVars
  <2>2. HandedOn = heard
    BY <2>1 DEF HandedOn
  <2>3. CASE reader' = "dead" /\ outQ' = outQ
    <3>1. HandedOn' = HandedOn
      BY <1>h, <2>1, <2>2, <2>3 DEF HandedOn
    <3> QED
      BY <1>i, <2>1, <2>3, <3>1 DEF Outgoing
  <2>4. CASE reader' = reader /\ outQ' = Append(outQ, said[heard + 1])
    <3>1. said[heard + 1] \in OutLine /\ FromChild(said[heard + 1])
      <4>1. said[heard + 1] \in ToSet(said) /\ said[heard + 1] \in OutLine
        BY <1>h, <1>t, <2>1, SeqTypes
      <4> QED
        BY <4>1 DEF IInv, SaidInv, FromChild
    <3>2. Outgoing' = Append(Outgoing, said[heard + 1])
      BY <1>q, <2>1, <2>4, <3>1, ConcatAppend DEF Outgoing
    <3>3. HandedOn' = heard + 1
      BY <2>1, <2>4 DEF HandedOn
    <3> QED
      BY <1>h, <1>i, <1>q, <2>1, <2>2, <3>1, <3>2, <3>3, InOrderNext
  <2> QED
    BY <1>2, <2>3, <2>4 DEF ReadLine
<1>3. CASE WriteLine
  <2>1. /\ outQ # <<>> /\ outQ' = Tail(outQ) /\ said' = said /\ HandedOn' = HandedOn
    BY <1>3 DEF WriteLine, childVars, readerVars, HandedOn
  <2>2. CASE Head(outQ) # Sentinel
    <3>1. Outgoing' = Outgoing
      BY <1>3, <1>q, <2>1, <2>2, AppendHeadTail DEF WriteLine, Outgoing
    <3> QED
      BY <1>i, <2>1, <3>1
  <2>3. CASE Head(outQ) = Sentinel
    <3>1. Len(outQ) = 1 /\ outQ[1] = Sentinel
      <4>1. Len(outQ) \in Nat \ {0} /\ DOMAIN outQ = 1..Len(outQ) /\ Head(outQ) = outQ[1]
        BY <1>q, <2>1, EmptySeq, LenProperties
      <4>2. \A n \in DOMAIN outQ : outQ[n] = Sentinel => n = Len(outQ)
        BY <1>t DEF EndInv
      <4> QED
        BY <2>3, <4>1, <4>2
    <3>2. Tail(outQ) = <<>> /\ outQ = Append(<<>>, Sentinel)
      <4>1. Tail(outQ) \in Seq(OutLine) /\ Len(Tail(outQ)) = 0
        BY <1>q, <2>1, <3>1, HeadTailProperties
      <4>2. Tail(outQ) = <<>>
        BY <4>1, EmptySeq
      <4>3. /\ Append(<<>>, Sentinel) \in Seq(OutLine) /\ Len(Append(<<>>, Sentinel)) = 1
            /\ Append(<<>>, Sentinel)[1] = Sentinel
        BY EmptySeq, LineTyped, AppendProperties
      <4>4. outQ = Append(<<>>, Sentinel)
        BY <1>q, <3>1, <4>3, SeqEqual
      <4> QED
        BY <4>2, <4>4
    <3>3. Outgoing' = toHost /\ Outgoing = Append(toHost, Sentinel)
      <4>1. toHost' = toHost
        BY <1>3, <2>3 DEF WriteLine
      <4>2. toHost \o <<>> = toHost
        BY <1>q, ConcatEmptySeq
      <4>3. toHost \o Append(<<>>, Sentinel) = Append(toHost \o <<>>, Sentinel)
        BY <1>q, EmptySeq, LineTyped, ConcatAppend
      <4> QED
        BY <2>1, <3>2, <4>1, <4>2, <4>3 DEF Outgoing
    <3>4. ~FromChild(Sentinel)
      BY LineTyped DEF FromChild, ChildSays
    <3> QED
      BY <1>i, <1>q, <2>1, <3>3, <3>4, LineTyped, InOrderOther
  <2> QED
    BY <2>2, <2>3
<1>4. CASE ChildAnswers \/ ChildTalks
  <2>1. Outgoing' = Outgoing /\ HandedOn' = HandedOn
    BY <1>4 DEF ChildAnswers, ChildTalks, Outgoing, HandedOn, readerVars, writerVars
  <2>2. \A k \in 1..HandedOn : said'[k] = said[k]
    <3>1. CASE said' = said
      BY <3>1
    <3>2. ASSUME NEW l \in OutLine, said' = Append(said, l)
          PROVE  \A k \in 1..HandedOn : said'[k] = said[k]
      BY <1>h, <1>q, <3>2, AppendProperties
    <3> QED
      BY <1>t, <3>1, <3>2, SaidStep DEF Says
  <2> QED
    BY <1>h, <1>i, <1>q, <2>1, <2>2, InOrderLonger
<1>5. CASE ReadEof
  BY <1>5, <1>i DEF ReadEof, Outgoing, HandedOn, childVars, writerVars
<1>6. CASE ~MainStep /\ ~ReadLine /\ ~WriteLine /\ ~ChildAnswers /\ ~ChildTalks /\ ~ReadEof
  <2>1. UNCHANGED <<said, heard, reader, outQ, toHost>>
    BY <1>6 DEF Next, ReaderStep, Environment, vars, WriteFails, Terminate, StopBroker,
           CompanionsLeave, StdinDies, HostSends, HostCloses,
                ChildExits, childVars, readerVars, writerVars
  <2> QED
    BY <1>i, <2>1 DEF Outgoing, HandedOn
<1> QED
  BY <1>1, <1>2, <1>3, <1>4, <1>5, <1>6

(* Between the child and the host no line is lost, doubled or overtaken,   *)
(* whatever of the relay's own is written between them: what the host has, *)
(* and will have, of the child are the lines the reader has taken.         *)
THEOREM OrderIsKept == Spec => []LinesInOrder
<1>1. Init => LinesInOrder
  <2> SUFFICES ASSUME Init PROVE LinesInOrder
    OBVIOUS
  <2>1. Outgoing = <<>> /\ Len(Outgoing) = 0
    BY EmptySeq, ConcatEmptySeq DEF Init, Outgoing
  <2>2. ChildLines(Outgoing, Len(Outgoing)) = {}
    BY <2>1 DEF ChildLines
  <2> QED
    BY <2>2, FS_EmptySet DEF Init, LinesInOrder, HandedOn
<1>2. IInv /\ LinesInOrder /\ [Next]_vars => LinesInOrder'
  BY OrderStep
<1> QED
  BY <1>1, <1>2, Invariant, PTL DEF Spec

-----------------------------------------------------------------------------
\* ---- the registration of what the child answers ----

IsAnswer(l, i) == l.kind \in Answers /\ l.id = i

AnsweredOnce == \A m, n \in 1..Len(said) :
  said[m].kind \in Answers /\ IsAnswer(said[n], said[m].id) => m = n

\* The ids with which the reader took a request of the child before it took their
\* answer: the request may have had the entry of a read (Relay_request).
TakenIds ==
  {said[n].id : n \in {k \in 1..heard :
     said[k].kind = "request" /\ \A m \in 1..(k - 1) : ~ IsAnswer(said[m], said[k].id)}}

\* A read is tracked from when it is passed on until its answer is taken.
ReadsTracked ==
  \A i \in ToSet(childGot) :
    host[i].kind = "read" =>
      i \in reads \/ (\E n \in 1..heard : IsAnswer(said[n], i)) \/ i \in TakenIds

LookedFor(s) == s \in approx /\ s \in exact \cup forgotten

ReadsRegistered ==
  \A l \in LinesOut :
    l.kind = "result" /\ host[l.id].kind = "read" => LookedFor(l.id) \/ l.id \in TakenIds

SecretsLookedFor ==
  \A i \in 1..Len(host) :
    host[i].carries # 0 =>
      /\ host[i].kind \in ToolCalls
      /\ LookedFor(host[i].carries) \/ host[i].carries \in TakenIds

TrackInv == AnsweredOnce /\ ReadsTracked /\ ReadsRegistered /\ SecretsLookedFor

\* Registered once, a secret is looked for, or the TTL has taken it away.
LEMMA SecretsStay ==
  ASSUME TypeOK, MainInv, [Next]_vars, NEW s, LookedFor(s)
  PROVE  LookedFor(s)'
<1>1. CASE MainStep
  BY <1>1, MainKinds DEF MainKeeps, Expires, LookedFor
<1>2. CASE ReadLine
  BY <1>2 DEF ReadLine, Register, LookedFor
<1>3. CASE ~MainStep /\ ~ReadLine
  BY <1>3 DEF Next, ReaderStep, Environment, vars, ReadEof, WriteLine, WriteFails, Terminate,
         StopBroker, CompanionsLeave, StdinDies,
       HostSends, HostCloses, ChildAnswers, ChildTalks, ChildExits, matcherVars, LookedFor
<1> QED
  BY <1>1, <1>2, <1>3

LEMMA SaidStays ==
  ASSUME TypeOK, MainInv, [Next]_vars
  PROVE  /\ \A n \in 1..Len(said) : said'[n] = said[n]
         /\ Len(said') \in Nat /\ Len(said') >= Len(said)
<1>1. CASE said' = said
  BY <1>1, SeqTypes
<1>2. ASSUME NEW l \in OutLine, said' = Append(said, l)
      PROVE  /\ \A n \in 1..Len(said) : said'[n] = said[n]
             /\ Len(said') = Len(said) + 1
  BY <1>2, AppendProperties DEF TypeOK
<1> QED
  BY <1>1, <1>2, SaidStep, SeqTypes DEF Says

LEMMA HeardStays ==
  ASSUME TypeOK, MainInv, [Next]_vars
  PROVE  heard' \in Nat /\ heard' >= heard
<1>1. MainStep => heard' = heard
  BY MainKinds DEF MainKeeps
<1>2. heard' = heard \/ heard' = heard + 1
  BY <1>1 DEF Next, ReaderStep, Environment, vars, ReadLine, ReadEof, WriteLine, WriteFails, Terminate,
         StopBroker, CompanionsLeave, StdinDies, HostSends, HostCloses, ChildAnswers, ChildTalks,
         ChildExits, readerVars
<1> QED
  BY <1>2, SeqTypes

\* What has been heard has been heard.
LEMMA TakenStays ==
  ASSUME TypeOK, MainInv, [Next]_vars, NEW i, i \in TakenIds
  PROVE  i \in TakenIds'
<1>1. /\ heard \in Nat /\ Len(said) \in Nat /\ heard <= Len(said)
      /\ heard' \in Nat /\ heard' >= heard
      /\ \A n \in 1..Len(said) : said'[n] = said[n]
  BY HeardStays, SaidStays, SeqTypes
<1>2. PICK n \in 1..heard :
        /\ said[n].kind = "request" /\ said[n].id = i
        /\ \A m \in 1..(n - 1) : ~ IsAnswer(said[m], i)
  BY DEF TakenIds
<1>3. n \in 1..heard' /\ \A m \in 1..n : said'[m] = said[m]
  BY <1>1
<1>4. \A m \in 1..(n - 1) : ~ IsAnswer(said'[m], i)
  BY <1>2, <1>3
<1>5. said'[n].kind = "request" /\ said'[n].id = i
  BY <1>2, <1>3
<1> QED
  BY <1>3, <1>4, <1>5 DEF TakenIds, IsAnswer

LEMMA AnsweredOnceStep ==
  ASSUME IInv, AnsweredOnce, [Next]_vars
  PROVE  AnsweredOnce'
<1>t. TypeOK /\ MainInv
  BY DEF IInv
<1>1. CASE said' = said
  BY <1>1 DEF AnsweredOnce, IsAnswer
<1>2. ASSUME NEW l \in OutLine, Says(l)
      PROVE  AnsweredOnce'
  <2>1. /\ Len(said) \in Nat /\ Len(said') = Len(said) + 1
        /\ \A n \in 1..Len(said) : said'[n] = said[n]
        /\ said'[Len(said) + 1] = l
    BY <1>t, <1>2, AppendProperties, SeqTypes DEF Says, TypeOK
  <2>2. l.kind \in Answers => \A n \in 1..Len(said) : ~ IsAnswer(said[n], l.id)
    <3>1. l.kind \in Answers => l.id \notin Answered
      BY <1>2 DEF Says, Answers
    <3>2. DOMAIN said = 1..Len(said)
      BY <1>t, LenProperties DEF TypeOK
    <3> QED
      BY <3>1, <3>2 DEF Answered, IsAnswer, Answers
  <2>3. SUFFICES ASSUME NEW m \in 1..(Len(said) + 1), NEW n \in 1..(Len(said) + 1),
                        said'[m].kind \in Answers, IsAnswer(said'[n], said'[m].id)
                 PROVE  m = n
    BY <2>1 DEF AnsweredOnce, IsAnswer
  <2>4. CASE m \in 1..Len(said) /\ n \in 1..Len(said)
    BY <2>1, <2>3, <2>4 DEF AnsweredOnce, IsAnswer
  <2>5. CASE m = Len(said) + 1 /\ n \in 1..Len(said)
    BY <2>1, <2>2, <2>3, <2>5 DEF IsAnswer
  <2>6. CASE m \in 1..Len(said) /\ n = Len(said) + 1
    BY <2>1, <2>2, <2>3, <2>6 DEF IsAnswer
  <2> QED
    BY <2>1, <2>4, <2>5, <2>6
<1> QED
  BY <1>t, <1>1, <1>2, SaidStep

LEMMA ReadsTrackedStep ==
  ASSUME IInv, TrackInv, [Next]_vars
  PROVE  ReadsTracked'
<1>t. TypeOK /\ MainInv /\ SaidInv /\ Len(host) <= MaxFrames
  BY DEF IInv
<1>s. /\ taken \in Nat /\ Len(host) \in Nat /\ taken <= Len(host)
      /\ heard \in Nat /\ heard <= Len(said) /\ Len(said) \in Nat
      /\ ToSet(childGot) \subseteq 1..taken
  BY <1>t, SeqTypes
<1>h. \A i \in 1..Len(host) : host'[i] = host[i]
  BY <1>t, HostStep
<1>d. \A n \in 1..Len(said) : said'[n] = said[n]
  BY <1>t, SaidStays
<1>e. heard' \in Nat /\ heard' >= heard
  BY <1>t, HeardStays
<1> SUFFICES ASSUME NEW i \in ToSet(childGot'), host'[i].kind = "read"
             PROVE  \/ i \in reads' \/ \E n \in 1..heard' : IsAnswer(said'[n], i)
                    \/ i \in TakenIds'
  BY DEF ReadsTracked, IsAnswer
<1>1. CASE i \notin ToSet(childGot)
  <2>1. PICK j \in 1..Len(host) : Passes(j) /\ ToSet(childGot') = ToSet(childGot) \cup {j}
    BY <1>t, <1>1, ChildGotStep
  <2>2. i = j
    BY <1>1, <2>1
  <2> QED
    BY <1>h, <2>1, <2>2 DEF Passes
<1>2. CASE i \in ToSet(childGot)
  <2>1. i \in 1..Len(host) /\ host[i].kind = "read"
    BY <1>h, <1>s, <1>2
  <2>2. CASE \E n \in 1..heard : IsAnswer(said[n], i)
    BY <1>s, <1>d, <1>e, <2>2
  <2>3. CASE i \in reads
    <3>1. CASE ~ReadLine
      <4>1. MainStep => reads \subseteq reads'
        BY <1>t, MainKinds DEF MainKeeps
      <4>2. reads \subseteq reads'
        BY <3>1, <4>1 DEF Next, ReaderStep, Environment, vars, ReadEof, WriteLine, WriteFails, Terminate,
              StopBroker, CompanionsLeave, StdinDies, HostSends, HostCloses, ChildAnswers, ChildTalks,
              ChildExits
      <4> QED
        BY <2>3, <4>2
    <3>2. CASE ReadLine
      <4> DEFINE l == said[heard + 1]
      <4>1. reads' = reads \/ reads' = reads \ {l.id}
        BY <3>2 DEF ReadLine, Register
      <4>2. heard + 1 \in 1..Len(said) /\ heard' = heard + 1 /\ l \in ToSet(said)
        BY <1>t, <1>s, <3>2, SeqTypes DEF ReadLine
      <4>3. CASE l.id # i
        BY <2>3, <4>1, <4>3
      <4>4. CASE l.id = i
        <5>1. i # 0
          BY <2>1
        <5>2. l.kind = "request" \/ IsAnswer(l, i)
          BY <1>t, <4>2, <4>4, <5>1 DEF SaidInv, ChildSays, IsAnswer, Answers
        <5>3. CASE IsAnswer(l, i)
          BY <1>d, <4>2, <5>3
        <5>4. CASE l.kind = "request" /\ \A m \in 1..heard : ~ IsAnswer(said[m], i)
          <6>1. heard + 1 \in 1..heard' /\ said'[heard + 1] = l /\ (heard + 1) - 1 = heard
            BY <1>s, <1>d, <4>2
          <6>2. \A m \in 1..heard : ~ IsAnswer(said'[m], i)
            BY <1>s, <1>d, <5>4
          <6>3. said'[heard + 1].kind = "request" /\ said'[heard + 1].id = i
            BY <4>4, <5>4, <6>1
          <6> HIDE DEF l
          <6>4. \A m \in 1..((heard + 1) - 1) : ~ IsAnswer(said'[m], i)
            BY <6>1, <6>2
          <6> QED
            BY <6>1, <6>3, <6>4 DEF TakenIds, IsAnswer
        <5> QED
          BY <2>2, <5>2, <5>3, <5>4
      <4> QED
        BY <4>3, <4>4
    <3> QED
      BY <3>1, <3>2
  <2>4. CASE i \in TakenIds
    BY <1>t, <2>4, TakenStays
  <2> QED
    BY <1>2, <2>1, <2>2, <2>3, <2>4 DEF TrackInv, ReadsTracked
<1> QED
  BY <1>1, <1>2

LEMMA ReadsRegisteredStep ==
  ASSUME IInv, TrackInv, [Next]_vars
  PROVE  ReadsRegistered'
<1>t. TypeOK /\ MainInv /\ SaidInv /\ OutInv
  BY DEF IInv
<1>s. /\ taken \in Nat /\ Len(host) \in Nat /\ taken <= Len(host)
      /\ ToSet(childGot) \subseteq 1..taken
      /\ heard \in Nat /\ Len(said) \in Nat
      /\ \A n \in 1..Len(said) : said[n] \in ToSet(said)
      /\ \A i \in 1..Len(host) : host'[i] = host[i]
  BY <1>t, SeqTypes, HostStep
<1> SUFFICES ASSUME NEW l \in LinesOut', l.kind = "result", host'[l.id].kind = "read"
             PROVE  LookedFor(l.id)' \/ l.id \in TakenIds'
  BY DEF ReadsRegistered
<1>1. CASE l \in LinesOut
  <2>1. l.id \in 1..Len(host)
    BY <1>t, <1>s, <1>1 DEF OutInv, Answers
  <2>2. LookedFor(l.id) \/ l.id \in TakenIds
    BY <1>s, <1>1, <2>1 DEF TrackInv, ReadsRegistered
  <2> QED
    BY <1>t, <2>2, SecretsStay, TakenStays
<1>2. CASE ReadLine /\ Hears(l)
  <2>1. heard + 1 \in 1..Len(said) /\ l = said[heard + 1] /\ l \in ToSet(said)
    BY <1>s, <1>2 DEF Hears
  <2>2. l.id \in ToSet(childGot) /\ host[l.id].kind = "read"
    BY <1>t, <1>s, <2>1 DEF SaidInv, Answers
  <2>3. \A n \in 1..heard : ~ IsAnswer(said[n], l.id)
    BY <1>s, <2>1 DEF TrackInv, AnsweredOnce, Answers
  <2>4. l.id \in reads \/ l.id \in TakenIds
    BY <2>2, <2>3 DEF TrackInv, ReadsTracked
  <2>5. CASE l.id \in TakenIds
    BY <1>t, <2>5, TakenStays
  <2>6. CASE l.id \in reads
    <3>1. Register(l)
      BY <1>2, <2>1 DEF ReadLine, Hears
    <3> QED
      BY <2>6, <3>1 DEF Register, LookedFor
  <2> QED
    BY <2>4, <2>5, <2>6
<1>3. l \in LinesOut \/ (ReadLine /\ Hears(l))
  BY <1>t, LinesOutStep, LineTyped DEF Refusals, Line
<1> QED
  BY <1>1, <1>2, <1>3

LEMMA SecretsLookedForStep ==
  ASSUME IInv, TrackInv, [Next]_vars
  PROVE  SecretsLookedFor'
<1> DEFINE Kept(s) == (s \in approx' /\ s \in exact' \cup forgotten') \/ s \in TakenIds'
<1>t. TypeOK /\ MainInv
  BY DEF IInv
<1>k. ASSUME NEW s, LookedFor(s) \/ s \in TakenIds
      PROVE  Kept(s)
  BY <1>t, <1>k, SecretsStay, TakenStays DEF LookedFor
<1>g. SUFFICES \A i \in 1..Len(host') :
                 host'[i].carries # 0 => host'[i].kind \in ToolCalls /\ Kept(host'[i].carries)
  BY DEF SecretsLookedFor, LookedFor
<1>1. \A i \in 1..Len(host) :
        host[i].carries # 0 => host[i].kind \in ToolCalls /\ Kept(host[i].carries)
  <2> HIDE DEF Kept
  <2> QED
    BY <1>k DEF TrackInv, SecretsLookedFor
<1>2. CASE ~HostSends
  <2>1. Len(host') = Len(host) /\ \A i \in 1..Len(host) : host'[i] = host[i]
    BY <1>t, <1>2, HostStep
  <2> QED
    BY <1>1, <2>1
<1>3. CASE HostSends
  <2>1. PICK k \in HostKinds, s \in {0} \cup Learned :
          /\ s # 0 => k \in ToolCalls
          /\ host' = Append(host, [kind |-> k, carries |-> s])
    BY <1>3 DEF HostSends
  <2>2. /\ Len(host) \in Nat /\ Len(host') = Len(host) + 1
        /\ \A i \in 1..Len(host) : host'[i] = host[i]
        /\ host'[Len(host) + 1] = [kind |-> k, carries |-> s]
    <3>1. [kind |-> k, carries |-> s] \in Frame
      BY LearnedTyped, RelayAssumption DEF Frame, Kinds, ToolCalls
    <3> QED
      BY <1>t, <2>1, <3>1, AppendProperties, SeqTypes DEF TypeOK
  <2>3. s # 0 => LookedFor(s) \/ s \in TakenIds
    <3>1. SUFFICES ASSUME s \in ResultIds(toHost), host[s].kind = "read"
                   PROVE  LookedFor(s) \/ s \in TakenIds
      BY DEF Learned
    <3>2. PICK l \in LinesOut : l.kind = "result" /\ l.id = s
      BY <3>1 DEF ResultIds, LinesOut, ToSet
    <3> QED
      BY <3>1, <3>2 DEF TrackInv, ReadsRegistered
  <2>4. s # 0 => Kept(s)
    BY <1>k, <2>3
  <2>5. \A i \in 1..Len(host') : i \in 1..Len(host) \/ i = Len(host) + 1
    BY <2>2
  <2> HIDE DEF Kept
  <2> QED
    BY <1>1, <2>1, <2>2, <2>4, <2>5
<1> QED
  BY <1>2, <1>3

LEMMA TrackInvariant == Spec => []TrackInv
<1>1. Init => TrackInv
  <2> SUFFICES ASSUME Init PROVE TrackInv
    OBVIOUS
  <2>1. /\ 1..Len(said) = {} /\ 1..Len(host) = {}
        /\ LinesOut = {} /\ ToSet(childGot) = {}
    BY EmptySeq DEF Init, ToSet, LinesOut
  <2> QED
    BY <2>1 DEF TrackInv, AnsweredOnce, ReadsTracked, ReadsRegistered, SecretsLookedFor
<1>2. IInv /\ TrackInv /\ [Next]_vars => TrackInv'
  BY AnsweredOnceStep, ReadsTrackedStep, ReadsRegisteredStep, SecretsLookedForStep DEF TrackInv
<1> QED
  BY <1>1, <1>2, Invariant, PTL DEF Spec

RegisteredUnlessTaken ==
  \A i \in ResultIds(toHost) \cup ResultIds(outQ) :
    host[i].kind = "read" => LookedFor(i) \/ i \in TakenIds

(* The answer of a sensitive read is registered before the host can have   *)
(* it, whatever else the child says and however main, reader and TTL       *)
(* interleave - unless the reader took a request of the child with the id  *)
(* of the read before the answer.                                          *)
THEOREM OnlyRequestsUntrack == Spec => []RegisteredUnlessTaken
<1>1. TrackInv => RegisteredUnlessTaken
  <2> SUFFICES ASSUME TrackInv, NEW i \in ResultIds(toHost) \cup ResultIds(outQ), host[i].kind = "read"
               PROVE  LookedFor(i) \/ i \in TakenIds
    BY DEF RegisteredUnlessTaken
  <2>1. PICK l \in LinesOut : l.kind = "result" /\ l.id = i
    BY DEF ResultIds, LinesOut, ToSet
  <2> QED
    BY <2>1 DEF TrackInv, ReadsRegistered
<1> QED
  BY <1>1, TrackInvariant, PTL

\* The child's own requests have ids that the host does not use.
OwnIds == ChildIds \cap (1..MaxFrames) = {}

LEMMA OwnIdsTakeNothing ==
  ASSUME OwnIds, IInv, NEW i \in 1..MaxFrames
  PROVE  i \notin TakenIds
<1>1. \A n \in 1..heard : said[n] \in ToSet(said)
  BY SeqTypes DEF IInv
<1> QED
  BY <1>1 DEF IInv, SaidInv, TakenIds, OwnIds

(* When the server's own requests do not use the host's ids, the answer of *)
(* every sensitive read is registered before the host can have it.         *)
THEOREM ReadsAreRegistered ==
  ASSUME OwnIds
  PROVE  Spec => []RegisteredBeforeDelivered
<1>1. IInv /\ RegisteredUnlessTaken => RegisteredBeforeDelivered
  <2> SUFFICES ASSUME IInv, RegisteredUnlessTaken,
                      NEW i \in ResultIds(toHost) \cup ResultIds(outQ), host[i].kind = "read"
               PROVE  LookedFor(i)
    BY DEF RegisteredBeforeDelivered, LookedFor
  <2>1. PICK l \in LinesOut : l.kind = "result" /\ l.id = i
    BY DEF ResultIds, LinesOut, ToSet
  <2>2. i \in 1..MaxFrames
    <3>1. /\ ToSet(childGot) \subseteq 1..taken /\ taken \in Nat /\ Len(host) \in Nat
          /\ taken <= Len(host) /\ Len(host) <= MaxFrames
      BY SeqTypes DEF IInv
    <3>2. i \in ToSet(childGot)
      BY <2>1 DEF IInv, OutInv, Answers
    <3> QED
      BY <3>1, <3>2, RelayAssumption
  <2> QED
    BY <2>2, OwnIdsTakeNothing DEF RegisteredUnlessTaken
<1> QED
  BY <1>1, Invariant, OnlyRequestsUntrack, PTL

-----------------------------------------------------------------------------
\* ---- what is passed on is not blocked, or a human let it through ----

NoLeakUnlessTaken ==
  \A i \in ToSet(childGot) :
    host[i].carries # 0 /\ Guarded(host[i].carries) /\ host[i].kind # "post" =>
      i \in approved \/ host[i].carries \in TakenIds

LEMMA PassingAppends ==
  ASSUME TypeOK, NEW i, Passes(i)
  PROVE  ~ UNCHANGED childGot
<1>1. childGot \in Seq(1..taken \cup {i}) /\ Len(childGot) \in Nat
  BY SeqMonotonic, LenProperties DEF TypeOK
<1>2. Len(Append(childGot, i)) = Len(childGot) + 1
  BY <1>1, AppendProperties
<1> QED
  BY <1>1, <1>2 DEF Passes

\* A secret that is looked for, and not found by Detect, has just been expired.
LEMMA DetectFinds ==
  ASSUME NEW i, NEW kept, LookedFor(host[i].carries), ~Detect(i, kept),
         forgotten' = forgotten \cup (exact \ kept), UNCHANGED tier, tier \in Nat
  PROVE  ~(tier' >= 3 \/ (tier' >= 1 /\ host[i].carries \notin forgotten'))
BY DEF LookedFor, Detect

LEMMA PassedIsDecided ==
  ASSUME IInv, TrackInv, MainStep, NEW i \in 1..Len(host), Passes(i),
         host[i].carries # 0, host[i].kind # "post",
         tier' >= 3 \/ (tier' >= 1 /\ host[i].carries \notin forgotten'),
         host[i].carries \notin TakenIds
  PROVE  i \in approved'
<1>t. TypeOK /\ MainInv /\ tier \in Nat
  BY RelayAssumption DEF IInv, TypeOK
<1>p. /\ ~ UNCHANGED childGot /\ taken' = i /\ main \in {"loop", "asking"}
      /\ main' \in {"loop", "drain"}
  BY <1>t, PassingAppends DEF Passes, Decides
<1>s. host[i].kind \in ToolCalls /\ LookedFor(host[i].carries)
  BY DEF TrackInv, SecretsLookedFor
<1>1. CASE PassThrough \/ InvalidParams \/ OddParams
  BY <1>1, <1>p, <1>s DEF PassThrough, InvalidParams, OddParams, Taking, ToolCalls
<1>2. CASE ToolCall
  <2>1. PICK kept \in {exact, {}} :
          /\ forgotten' = forgotten \cup (exact \ kept)
          /\ \/ ~(Detect(taken + 1, kept) /\ host[taken + 1].kind # "post")
             \/ main' = "asking"
             \/ Refuse(taken + 1, "blocked")
    BY <1>2 DEF ToolCall
  <2>2. taken + 1 = i /\ tier' = tier
    BY <1>2, <1>p DEF ToolCall, Taking, policyVars
  <2>3. ~Refuse(taken + 1, "blocked")
    BY <1>p DEF Refuse
  <2>4. ~Detect(i, kept)
    BY <1>p, <2>1, <2>2, <2>3
  <2> QED
    BY <1>s, <1>t, <2>1, <2>2, <2>4, DetectFinds
<1>3. CASE AskReturns
  BY <1>3, <1>p DEF AskReturns, Refuse
<1>4. CASE Drained \/ TakeEof
  BY <1>4, <1>p DEF Drained, TakeEof, EndLoop
<1> QED
  BY <1>1, <1>2, <1>3, <1>4 DEF MainStep

LEMMA LeakStep ==
  ASSUME IInv, TrackInv, NoLeakUnlessTaken, [Next]_vars
  PROVE  NoLeakUnlessTaken'
<1>t. TypeOK /\ MainInv
  BY DEF IInv
<1>s. ToSet(childGot) \subseteq 1..Len(host) /\ \A i \in 1..Len(host) : host'[i] = host[i]
  BY <1>t, SeqTypes, HostStep
<1>k. tier' = tier /\ forgotten \subseteq forgotten' /\ approved \subseteq approved'
  <2>1. CASE MainStep
    BY <1>t, <2>1, MainKinds DEF MainKeeps, Expires
  <2>2. CASE ~MainStep
    BY <2>2 DEF Next, ReaderStep, Environment, vars, ReadLine, ReadEof, WriteLine, WriteFails, Terminate,
           StopBroker, CompanionsLeave, StdinDies, HostSends, HostCloses, ChildAnswers, ChildTalks,
           ChildExits, policyVars, matcherVars
  <2> QED
    BY <2>1, <2>2
<1> SUFFICES ASSUME NEW i \in ToSet(childGot'), host'[i].carries # 0, host'[i].kind # "post",
                    tier' >= 3 \/ (tier' >= 1 /\ host'[i].carries \notin forgotten'),
                    host'[i].carries \notin TakenIds'
             PROVE  i \in approved'
  BY DEF NoLeakUnlessTaken, Guarded
<1>h. i \in 1..Len(host) => host[i].carries \notin TakenIds
  BY <1>s, <1>t, TakenStays
<1>1. CASE i \in ToSet(childGot)
  <2>1. i \in approved
    BY <1>1, <1>h, <1>k, <1>s DEF NoLeakUnlessTaken, Guarded
  <2> QED
    BY <1>k, <2>1
<1>2. CASE i \notin ToSet(childGot)
  <2>1. i \in 1..Len(host) /\ MainStep /\ Passes(i)
    BY <1>t, <1>2, ChildGotStep
  <2> QED
    BY <1>h, <1>s, <2>1, PassedIsDecided
<1> QED
  BY <1>1, <1>2

(* No call with the content of a sensitive read goes to a destination that *)
(* is not allowed without a human's approval - for any interleaving of the *)
(* reader that registers with main that decides, and whenever the TTL      *)
(* strikes (from tier 3 on also after it) - unless the reader took a       *)
(* request of the child with the id of the read before its answer.         *)
THEOREM OnlyRequestsLeak == Spec => []NoLeakUnlessTaken
<1>1. Init => NoLeakUnlessTaken
  <2> SUFFICES ASSUME Init PROVE NoLeakUnlessTaken
    OBVIOUS
  <2>1. ToSet(childGot) = {}
    BY EmptySeq DEF Init, ToSet
  <2> QED
    BY <2>1 DEF NoLeakUnlessTaken
<1>2. IInv /\ TrackInv /\ NoLeakUnlessTaken /\ [Next]_vars => NoLeakUnlessTaken'
  BY LeakStep
<1> QED
  BY <1>1, <1>2, Invariant, TrackInvariant, PTL DEF Spec

(* When the server's own requests do not use the host's ids, no call with  *)
(* the content of a sensitive read goes to a destination that is not       *)
(* allowed without a human's approval.                                     *)
THEOREM NothingLeaks ==
  ASSUME OwnIds
  PROVE  Spec => []NoUnapprovedLeak
<1>1. IInv /\ NoLeakUnlessTaken => NoUnapprovedLeak
  <2> SUFFICES ASSUME IInv, NoLeakUnlessTaken, NEW i \in ToSet(childGot), host[i].carries # 0
               PROVE  host[i].carries \notin TakenIds
    BY DEF NoUnapprovedLeak, NoLeakUnlessTaken
  <2>1. i \in 1..Len(host)
    BY SeqTypes DEF IInv
  <2>2. host[i].carries \in 1..MaxFrames
    <3>1. host[i] \in Frame
      BY <2>1 DEF IInv, TypeOK
    <3> QED
      BY <3>1, RelayAssumption DEF Frame
  <2> QED
    BY <2>2, OwnIdsTakeNothing
<1> QED
  BY <1>1, Invariant, OnlyRequestsLeak, PTL

-----------------------------------------------------------------------------
\* ---- the relay is a mediator ----

Results == {"passed", "refused", "lost"}

\* How many frames main has done with.
Settled == IF main = "asking" THEN taken - 1 ELSE taken

\* As long as main may pass something on, nothing has been lost.
LostInv ==
  child = "up" /\ main \in {"loop", "drain", "asking"} => \A i \in 1..Settled : Fate(i) # "lost"

LEMMA FunctionIsSeq ==
  ASSUME NEW S, NEW n \in Nat, NEW f \in [1..n -> S]
  PROVE  f \in Seq(S) /\ Len(f) = n
<1>1. f \in Seq(S)
  BY SeqDef
<1>2. Len(f) \in Nat /\ DOMAIN f = 1..Len(f) /\ DOMAIN f = 1..n
  BY <1>1, LenProperties
<1>3. \A m \in Nat : 1..m = 1..n => m = n
  OBVIOUS
<1> QED
  BY <1>1, <1>2, <1>3

LEMMA FunctionAppend ==
  ASSUME NEW S, NEW n \in Nat, NEW f \in [1..n -> S], NEW g \in [1..(n + 1) -> S],
         \A i \in 1..n : g[i] = f[i]
  PROVE  g = Append(f, g[n + 1])
<1>1. f \in Seq(S) /\ Len(f) = n /\ g \in Seq(S) /\ Len(g) = n + 1
  BY FunctionIsSeq
<1>2. g[n + 1] \in S
  OBVIOUS
<1>3. /\ Append(f, g[n + 1]) \in Seq(S) /\ Len(Append(f, g[n + 1])) = n + 1
      /\ \A i \in 1..n : Append(f, g[n + 1])[i] = f[i]
      /\ Append(f, g[n + 1])[n + 1] = g[n + 1]
  BY <1>1, <1>2, AppendProperties
<1>4. \A i \in 1..(n + 1) : i \in 1..n \/ i = n + 1
  OBVIOUS
<1>5. \A i \in 1..(n + 1) : g[i] = Append(f, g[n + 1])[i]
  BY <1>3, <1>4
<1> QED
  BY <1>1, <1>3, <1>5, SeqEqual

\* A queued line stays queued or is written; only the sentinel disappears.
LEMMA LinesOutStay ==
  ASSUME TypeOK, MainInv, [Next]_vars, NEW l \in LinesOut, l # Sentinel
  PROVE  l \in LinesOut'
<1>t. outQ \in Seq(OutLine) /\ toHost \in Seq(OutLine)
  BY DEF TypeOK
<1>1. CASE UNCHANGED <<outQ, toHost>>
  BY <1>1 DEF LinesOut
<1>2. ASSUME toHost' = toHost, NEW m \in OutLine, outQ' = Append(outQ, m)
      PROVE  l \in LinesOut'
  <2>1. ToSet(outQ') = ToSet(outQ) \cup {m}
    BY <1>t, <1>2, ToSetAppend
  <2> QED
    BY <1>2, <2>1 DEF LinesOut
<1>3. ASSUME NEW i \in 1..Len(host), Refuses(i)
      PROVE  \E m \in OutLine : outQ' = Append(outQ, m)
  BY <1>3, LineTyped, SeqTypes DEF Refuses
<1>4. CASE WriteLine
  <2>1. outQ # <<>> /\ outQ' = Tail(outQ)
    BY <1>4 DEF WriteLine
  <2>2. Head(outQ) \in OutLine /\ ToSet(outQ) = {Head(outQ)} \cup ToSet(outQ')
    BY <1>t, <2>1, HeadTailProperties, ToSetHeadTail
  <2>3. ToSet(Append(toHost, Head(outQ))) = ToSet(toHost) \cup {Head(outQ)}
    BY <1>t, <2>2, ToSetAppend
  <2> QED
    BY <1>4, <2>2, <2>3 DEF WriteLine, LinesOut
<1> QED
  BY <1>1, <1>2, <1>3, <1>4, QueueStep, LineTyped DEF Ends, EndLoop, Hears

IsRefusal(l, i) == l.kind \in Refusals /\ l.id = i
Refused(i) == \E l \in LinesOut : IsRefusal(l, i)

LEMMA FateIs ==
  ASSUME TypeOK, NEW i
  PROVE  Fate(i) = IF i \in ToSet(childGot) THEN "passed"
                   ELSE IF Refused(i) THEN "refused" ELSE "lost"
<1>1. ToSet(Outgoing) = LinesOut
  BY ToSetConcat DEF TypeOK, Outgoing, LinesOut
<1> QED
  BY <1>1 DEF Fate, Refused, IsRefusal

LEMMA FateIsNext ==
  ASSUME TypeOK', NEW i
  PROVE  Fate(i)' = IF i \in ToSet(childGot') THEN "passed"
                    ELSE IF Refused(i)' THEN "refused" ELSE "lost"
<1>1. ToSet(Outgoing') = LinesOut'
  BY ToSetConcat DEF TypeOK, Outgoing, LinesOut
<1> QED
  BY <1>1 DEF Fate, Refused, IsRefusal

LEMMA RefusedStep ==
  ASSUME IInv, [Next]_vars, NEW i
  PROVE  /\ Refused(i) => Refused(i)'
         /\ Refused(i)' => Refused(i) \/ (MainStep /\ i \in 1..Len(host) /\ Refuses(i))
<1>t. TypeOK /\ MainInv /\ SaidInv
  BY DEF IInv
<1>1. ASSUME NEW l \in LinesOut, IsRefusal(l, i)
      PROVE  l \in LinesOut'
  BY <1>t, <1>1, LinesOutStay, LineTyped DEF IsRefusal, Refusals
<1>2. ASSUME NEW l \in LinesOut', IsRefusal(l, i)
      PROVE  l \in LinesOut \/ (MainStep /\ i \in 1..Len(host) /\ Refuses(i))
  <2>1. CASE l = Sentinel
    BY <1>2, <2>1, LineTyped DEF IsRefusal, Refusals
  <2>2. ASSUME MainStep, NEW j \in 1..Len(host), Refuses(j), \E why \in Refusals : l = Line(why, j)
        PROVE  MainStep /\ i \in 1..Len(host) /\ Refuses(i)
    BY <1>2, <2>2 DEF IsRefusal, Line
  <2>3. CASE Hears(l)
    <3>1. l \in ToSet(said)
      BY <1>t, <2>3, SeqTypes DEF Hears
    <3> QED
      BY <1>t, <1>2, <3>1 DEF SaidInv, IsRefusal, Refusals, ChildSays
  <2> QED
    BY <1>t, <2>1, <2>2, <2>3, LinesOutStep
<1> QED
  BY <1>1, <1>2 DEF Refused

LEMMA RefusesRefuses ==
  ASSUME TypeOK, NEW i \in 1..Len(host), Refuses(i)
  PROVE  Refused(i)'
<1>1. PICK why \in Refusals : outQ' = Append(outQ, Line(why, i))
  BY DEF Refuses
<1>2. outQ \in Seq(OutLine) /\ Line(why, i) \in OutLine
  BY LineTyped, SeqTypes DEF TypeOK
<1>3. ToSet(outQ') = ToSet(outQ) \cup {Line(why, i)}
  BY <1>1, <1>2, ToSetAppend
<1>4. Line(why, i) \in LinesOut'
  BY <1>3 DEF LinesOut
<1>5. Line(why, i).kind = why /\ Line(why, i).id = i
  BY DEF Line
<1> QED
  BY <1>4, <1>5 DEF Refused, IsRefusal

\* What is settled is settled for good.
LEMMA FateIsFinal ==
  ASSUME IInv, TypeOK', [Next]_vars, NEW i \in 1..Settled
  PROVE  Fate(i)' = Fate(i)
<1>t. TypeOK /\ MainInv /\ taken \in Nat
  BY SeqTypes DEF IInv
<1>1. ~ Passes(i) /\ ~ Refuses(i)
  BY <1>t DEF Settled, Passes, Refuses, Decides
<1>2. i \in ToSet(childGot) <=> i \in ToSet(childGot')
  BY <1>t, <1>1, ChildGotStep
<1>3. Refused(i) <=> Refused(i)'
  BY <1>1, RefusedStep
<1> QED
  BY <1>t, <1>2, <1>3, FateIs, FateIsNext

\* Only main's decisions settle anything, each the next frame.
LEMMA SettledStep ==
  ASSUME IInv, [Next]_vars
  PROVE  \/ Settled' = Settled
         \/ /\ MainStep /\ Settled' = Settled + 1 /\ Settled + 1 \in 1..Len(host)
            /\ Passes(Settled + 1) \/ Refuses(Settled + 1) \/ Loses(Settled + 1)
<1>t. TypeOK /\ MainInv /\ taken \in Nat
  BY SeqTypes DEF IInv
<1>1. CASE ~MainStep
  BY <1>1, <1>t, OthersStep DEF OthersKeep, Finish, StopBroker, CompanionsLeave, Settled
<1>2. CASE Asks \/ Waits
  BY <1>2, <1>t DEF Asks, Waits, Ends, EndLoop, Continues, Settled
<1>3. ASSUME MainStep, NEW i \in 1..Len(host), Passes(i) \/ Refuses(i) \/ Loses(i)
      PROVE  Settled' = i /\ Settled + 1 = i
  <2>1. Decides(i) /\ main' # "asking"
    BY <1>3 DEF Passes, Refuses, Loses, Ends, EndLoop, Continues
  <2> QED
    BY <1>t, <2>1 DEF Decides, Settled
<1> QED
  BY <1>t, <1>1, <1>2, <1>3, MainKinds

LEMMA FatesTyped ==
  ASSUME TypeOK, MainInv
  PROVE  /\ Settled \in 0..Len(host) /\ Settled \in Nat
         /\ Fates \in [1..Settled -> Results] /\ Len(Fates) = Settled
         /\ \A i \in 1..Settled : Fates[i] = Fate(i)
<1>1. Settled \in 0..Len(host) /\ Settled \in Nat
  BY SeqTypes DEF MainInv, Settled
<1>2. \A i \in 1..Settled : Fate(i) \in Results
  BY DEF Fate, Results
<1>3. Fates = [i \in 1..Settled |-> Fate(i)]
  BY DEF Fates, Settled
<1>4. Fates \in [1..Settled -> Results]
  BY <1>2, <1>3
<1>5. Len(Fates) = Settled
  BY <1>1, <1>4, FunctionIsSeq
<1> QED
  BY <1>1, <1>3, <1>4, <1>5

LEMMA FatesTypedNext ==
  ASSUME Settled' \in Nat
  PROVE  /\ Fates' \in [1..Settled' -> Results]
         /\ \A i \in 1..Settled' : Fates'[i] = Fate(i)'
<1>1. \A i \in 1..Settled' : Fate(i)' \in Results
  BY DEF Fate, Results
<1>2. Fates' = [i \in 1..Settled' |-> Fate(i)']
  BY DEF Fates, Settled
<1> QED
  BY <1>1, <1>2

LEMMA FatesStep ==
  ASSUME IInv, IInv', [Next]_vars
  PROVE  \/ Settled' = Settled /\ Fates' = Fates
         \/ Settled' = Settled + 1 /\ Fates' = Append(Fates, Fates'[Settled + 1])
<1>t. TypeOK /\ MainInv /\ TypeOK'
  BY DEF IInv
<1>1. /\ Settled \in Nat /\ Fates \in [1..Settled -> Results]
      /\ \A i \in 1..Settled : Fates[i] = Fate(i)
  BY <1>t, FatesTyped
<1>2. Settled' \in Nat
  BY <1>1, SettledStep
<1>3. /\ Fates' \in [1..Settled' -> Results]
      /\ \A i \in 1..Settled' : Fates'[i] = Fate(i)'
  BY <1>2, FatesTypedNext
<1>4. \A i \in 1..Settled : Fate(i)' = Fates[i]
  BY <1>t, <1>1, FateIsFinal
<1>5. CASE Settled' = Settled
  <2>1. \A i \in 1..Settled : Fates'[i] = Fates[i]
    BY <1>3, <1>4, <1>5
  <2> QED
    BY <1>1, <1>3, <1>5, <2>1
<1>6. CASE Settled' = Settled + 1
  <2>1. \A i \in 1..Settled : Fates'[i] = Fates[i]
    BY <1>1, <1>3, <1>4, <1>6
  <2>2. Fates' \in [1..(Settled + 1) -> Results]
    BY <1>3, <1>6
  <2> QED
    BY <1>1, <1>6, <2>1, <2>2, FunctionAppend
<1> QED
  BY <1>5, <1>6, SettledStep

\* The fate that a decision of main gives the frame.
LEMMA FateDecided ==
  ASSUME IInv, IInv', [Next]_vars, NEW i \in 1..Len(host), i = Settled + 1, MainStep
  PROVE  /\ Passes(i) => Fate(i)' = "passed"
         /\ Refuses(i) => Fate(i)' = "refused"
         /\ Loses(i) => Fate(i)' = "lost"
<1>t. TypeOK /\ MainInv /\ TypeOK' /\ OutInv /\ taken \in Nat /\ Settled \in Nat
  BY SeqTypes, FatesTyped DEF IInv
<1>1. Fate(i)' = IF i \in ToSet(childGot') THEN "passed" ELSE IF Refused(i)' THEN "refused" ELSE "lost"
  BY <1>t, FateIsNext
<1>2. i \notin ToSet(childGot)
  BY <1>t, SeqTypes DEF Settled, MainInv
<1>3. ~Refused(i)
  BY <1>t DEF OutInv, Refused, IsRefusal, Settled
<1>4. ASSUME Passes(i)
      PROVE  Fate(i)' = "passed"
  <2>1. i \in Nat
    BY <1>t
  <2>2. childGot \in Seq(1..taken) /\ 1..taken \subseteq Nat
    BY <1>t DEF TypeOK
  <2>3. childGot \in Seq(Nat)
    BY <2>2, SeqMonotonic
  <2>4. ToSet(Append(childGot, i)) = ToSet(childGot) \cup {i}
    BY <2>1, <2>3, ToSetAppend
  <2> QED
    BY <1>1, <1>4, <2>4 DEF Passes
<1>5. ASSUME Refuses(i)
      PROVE  Fate(i)' = "refused"
  BY <1>1, <1>2, <1>5, <1>t, RefusesRefuses DEF Refuses
<1>6. ASSUME Loses(i)
      PROVE  Fate(i)' = "lost"
  <2>1. ~Refuses(i)
    <3>1. \A why \in Refusals : Append(outQ, Line(why, i)) # outQ
      <4> SUFFICES ASSUME NEW why \in Refusals
                   PROVE  Append(outQ, Line(why, i)) # outQ
        OBVIOUS
      <4>1. outQ \in Seq(OutLine) /\ Line(why, i) \in OutLine /\ Len(outQ) \in Nat
        BY <1>t, LineTyped, LenProperties DEF TypeOK
      <4>2. Len(Append(outQ, Line(why, i))) = Len(outQ) + 1
        BY <4>1, AppendProperties
      <4> QED
        BY <4>1, <4>2
    <3> QED
      BY <1>6, <3>1 DEF Loses, Refuses, Ends, EndLoop, Continues
  <2>2. ~Refused(i)'
    BY <1>3, <2>1, RefusedStep
  <2> QED
    BY <1>1, <1>2, <1>6, <2>2 DEF Loses
<1> QED
  BY <1>4, <1>5, <1>6

LEMMA LostStep ==
  ASSUME IInv, IInv', LostInv, [Next]_vars
  PROVE  LostInv'
<1>t. TypeOK /\ MainInv /\ Settled \in Nat /\ TypeOK'
  BY FatesTyped DEF IInv
<1> SUFFICES ASSUME child' = "up", main' \in {"loop", "drain", "asking"}, NEW i \in 1..Settled'
             PROVE  Fate(i)' # "lost"
  BY DEF LostInv
<1>1. child = "up" /\ main \in {"loop", "drain", "asking"}
  <2>1. CASE MainStep
    BY <1>t, <2>1, MainKinds DEF MainKeeps
  <2>2. CASE ~MainStep
    <3>1. child = "up"
      BY <2>2 DEF Next, ReaderStep, Environment, vars, ReadLine, ReadEof, WriteLine, WriteFails, Terminate,
           StopBroker, CompanionsLeave, StdinDies, HostSends, HostCloses, ChildAnswers, ChildTalks,
           ChildExits, childVars
    <3> QED
      BY <2>2, <3>1, OthersStep DEF OthersKeep, Finish, StopBroker, CompanionsLeave
  <2> QED
    BY <2>1, <2>2
<1>2. CASE i \in 1..Settled
  BY <1>1, <1>2, <1>t, FateIsFinal DEF LostInv
<1>3. CASE i \notin 1..Settled
  <2>1. /\ MainStep /\ i \in 1..Len(host) /\ i = Settled + 1
        /\ Passes(i) \/ Refuses(i) \/ Loses(i)
    BY <1>t, <1>3, SettledStep
  <2>2. ~ Loses(i)
    BY <1>1 DEF Loses, Ends, EndLoop
  <2>3. Fate(i)' \in {"passed", "refused"}
    BY <2>1, <2>2, FateDecided
  <2> QED
    BY <2>3
<1> QED
  BY <1>2, <1>3

\* What the host learns, it learns of a read that was passed on.
LEMMA LearnedStep ==
  ASSUME IInv, [Next]_vars
  PROVE  \/ Learned' = Learned
         \/ /\ WriteLine
            /\ \E i \in 1..Settled : /\ host[i].kind = "read" /\ Fate(i) = "passed"
                                     /\ Learned' = Learned \cup {i}
<1>t. TypeOK /\ MainInv /\ OutInv
  BY DEF IInv
<1>s. /\ taken \in Nat /\ ToSet(childGot) \subseteq 1..taken /\ taken <= Len(host)
      /\ ResultIds(toHost) \subseteq ToSet(childGot) /\ ResultIds(outQ) \subseteq ToSet(childGot)
      /\ Len(host) \in Nat /\ \A i \in 1..Len(host) : host'[i] = host[i]
  BY <1>t, SeqTypes, HostStep, LearnedTyped
<1>1. CASE ~WriteLine
  <2>1. toHost' = toHost
    BY <1>t, <1>1, QueueStep
  <2> QED
    BY <1>s, <2>1 DEF Learned, ResultIds
<1>2. CASE WriteLine
  <2> DEFINE l == Head(outQ)
  <2>1. host' = host /\ outQ # <<>>
    BY <1>2 DEF WriteLine, hostVars
  <2>2. outQ \in Seq(OutLine) /\ toHost \in Seq(OutLine) /\ l \in OutLine
    BY <1>t, <2>1, HeadTailProperties DEF TypeOK
  <2>3. toHost' = toHost \/ toHost' = Append(toHost, l)
    BY <1>2 DEF WriteLine
  <2>4. CASE toHost' = toHost
    BY <2>1, <2>4 DEF Learned, ResultIds
  <2>5. CASE toHost' = Append(toHost, l)
    <3>1. ResultIds(Append(toHost, l)) = ResultIds(toHost) \cup (IF l.kind = "result" THEN {l.id} ELSE {})
      <4>1. /\ DOMAIN toHost = 1..Len(toHost) /\ Len(toHost) \in Nat
            /\ DOMAIN Append(toHost, l) = 1..(Len(toHost) + 1)
            /\ \A n \in 1..Len(toHost) : Append(toHost, l)[n] = toHost[n]
            /\ Append(toHost, l)[Len(toHost) + 1] = l
        BY <2>2, LenProperties, AppendProperties
      <4>2. \A n \in 1..(Len(toHost) + 1) : n \in 1..Len(toHost) \/ n = Len(toHost) + 1
        BY <4>1
      <4> HIDE DEF l
      <4> QED
        BY <4>1, <4>2 DEF ResultIds
    <3>2. CASE l.kind = "result" /\ host[l.id].kind = "read"
      <4>1. 1 \in DOMAIN outQ /\ l = outQ[1]
        <5>1. Len(outQ) \in Nat \ {0} /\ DOMAIN outQ = 1..Len(outQ)
          BY <2>1, <2>2, EmptySeq, LenProperties
        <5> QED
          BY <5>1
      <4>2. l.id \in ToSet(childGot)
        BY <1>s, <3>2, <4>1 DEF ResultIds
      <4>3. l.id \in 1..Settled
        BY <1>s, <1>t, <4>2 DEF MainInv, Settled
      <4>4. Fate(l.id) = "passed"
        BY <4>2 DEF Fate
      <4>5. Learned' = Learned \cup {l.id}
        BY <2>1, <2>5, <3>1, <3>2 DEF Learned
      <4> QED
        BY <1>2, <3>2, <4>3, <4>4, <4>5
    <3>3. CASE ~(l.kind = "result" /\ host[l.id].kind = "read")
      <4>1. Learned' = Learned
        BY <2>1, <2>5, <3>1, <3>3 DEF Learned
      <4> QED
        BY <4>1
    <3> QED
      BY <3>2, <3>3
  <2> QED
    BY <2>3, <2>4, <2>5
<1> QED
  BY <1>1, <1>2

LEMMA MediatorStep ==
  ASSUME IInv, IInv', LostInv, [Next]_vars
  PROVE  [Promise!Next]_(Promise!vars)
<1>t. /\ TypeOK /\ MainInv /\ Settled \in 0..Len(host) /\ Len(Fates) = Settled
      /\ Fates \in [1..Settled -> Results] /\ \A i \in 1..Settled : Fates[i] = Fate(i)
  BY FatesTyped DEF IInv
<1>1. CASE MainStep
  <2>1. UNCHANGED <<host, Learned>>
    <3>1. ~WriteLine
      BY <1>1, <1>t, MainKinds DEF MainKeeps, WriteLine
    <3> QED
      BY <1>1, <1>t, <3>1, MainKinds, LearnedStep DEF MainKeeps
  <2>2. CASE Fates' = Fates
    BY <2>1, <2>2 DEF Promise!vars
  <2>3. CASE Fates' # Fates
    <3> PICK i : i = Settled + 1
      OBVIOUS
    <3>1. Fates' = Append(Fates, Fate(i)')
      <4>1. Settled' = i /\ Fates' = Append(Fates, Fates'[i])
        BY <2>3, FatesStep
      <4>2. Settled' \in Nat /\ i \in 1..Settled'
        BY <1>t, <4>1
      <4> QED
        BY <4>1, <4>2, FatesTypedNext
    <3>2. i \in 1..Len(host) /\ (Passes(i) \/ Refuses(i) \/ Loses(i))
      BY <1>t, <2>3, SettledStep, FatesStep
    <3>3. CASE Passes(i)
      <4>1. Fate(i)' = "passed" /\ host[i].kind # "bad"
        BY <1>1, <3>2, <3>3, FateDecided DEF Passes, ToolCalls
      <4>2. "lost" \notin ToSet(Fates)
        <5>1. \A j \in 1..Settled : Fates[j] # "lost"
          BY <1>t, <3>3 DEF Passes, Decides, LostInv
        <5> QED
          BY <1>t, <5>1 DEF ToSet
      <4> QED
        BY <1>t, <2>1, <3>1, <3>2, <4>1, <4>2 DEF Promise!Next, Promise!Settle, Promise!ToSet, ToSet
    <3>4. CASE Refuses(i)
      <4>1. Fate(i)' = "refused" /\ host[i].kind # "other"
        BY <1>1, <3>2, <3>4, FateDecided DEF Refuses
      <4> QED
        BY <1>t, <2>1, <3>1, <3>2, <4>1 DEF Promise!Next, Promise!Settle
    <3>5. CASE Loses(i)
      <4>1. Fate(i)' = "lost"
        BY <1>1, <3>2, <3>5, FateDecided
      <4> QED
        BY <1>t, <2>1, <3>1, <3>2, <4>1 DEF Promise!Next, Promise!Settle
    <3> QED
      BY <3>2, <3>3, <3>4, <3>5
  <2> QED
    BY <2>2, <2>3
<1>2. CASE ~MainStep
  <2>1. Fates' = Fates
    BY <1>2, <1>t, SettledStep, FatesStep
  <2>2. CASE HostSends
    <3>1. PICK k \in HostKinds, s \in {0} \cup Learned :
            host' = Append(host, [kind |-> k, carries |-> s])
      BY <2>2 DEF HostSends
    <3>2. [kind |-> k, carries |-> s] \in Frame
      BY LearnedTyped, RelayAssumption DEF Frame, Kinds, ToolCalls
    <3>3. Learned' = Learned
      BY <2>2, LearnedStep DEF HostSends, WriteLine, hostVars
    <3> QED
      BY <2>1, <3>1, <3>2, <3>3 DEF Promise!Next, Promise!Send
  <2>3. CASE ~HostSends
    <3>1. host' = host
      BY <1>t, <2>3, HostStep
    <3>2. CASE Learned' = Learned
      BY <2>1, <3>1, <3>2 DEF Promise!vars
    <3>3. ASSUME NEW i \in 1..Settled, host[i].kind = "read", Fate(i) = "passed",
                 Learned' = Learned \cup {i}
          PROVE  Promise!Next
      BY <1>t, <2>1, <3>1, <3>3 DEF Promise!Next, Promise!Learn
    <3> QED
      BY <3>2, <3>3, LearnedStep
  <2> QED
    BY <2>2, <2>3
<1> QED
  BY <1>1, <1>2

(* The relay, with its tasks, pipes and queues, a child that may die and a *)
(* host that may stop reading, implements Mediator: frames meet their      *)
(* fates in order, each fate is final, nothing is passed on after a loss,  *)
(* and what the host learns of a sensitive read comes from a read passed   *)
(* on.                                                                     *)
THEOREM RelayIsMediator == Spec => PromiseKept
<1>1. Init => Promise!Init /\ LostInv
  <2> SUFFICES ASSUME Init PROVE Promise!Init /\ LostInv
    OBVIOUS
  <2>1. host = <<>> /\ Learned = {}
    BY DEF Init, Learned, ResultIds
  <2>2. Settled = 0 /\ 1..Settled = {}
    BY DEF Init, Settled
  <2>3. Fates = [i \in 1..0 |-> Fate(i)]
    BY <2>2 DEF Fates, Settled
  <2>4. Fates = <<>>
    BY <2>3
  <2> QED
    BY <2>1, <2>2, <2>4 DEF Promise!Init, LostInv
<1>2. IInv /\ IInv' /\ LostInv /\ [Next]_vars => LostInv' /\ [Promise!Next]_(Promise!vars)
  BY LostStep, MediatorStep
<1> QED
  BY <1>1, <1>2, Invariant, PTL DEF Spec, PromiseKept, Promise!Spec
=============================================================================
