-------------------------- MODULE InspectionProofs --------------------------
(***************************************************************************)
(* Theorems about Inspection, for any policy files, calls, payloads,       *)
(* patterns and answers.                                                   *)
(***************************************************************************)
EXTENDS Inspection, DecodeProofs

-----------------------------------------------------------------------------
\* ---- the decision about a destination ----

\* Whatever a policy repeats, one binding decides: the first.
LEMMA OneBinding ==
  ASSUME NEW p \in Policies, NEW server,
         NEW b \in BindingFor(p, server), NEW c \in BindingFor(p, server)
  PROVE  b = c
<1> DEFINE bs == p.server_bindings
           First(j) == /\ bs[j].server_id = server
                       /\ \A k \in 1..(j - 1) : bs[k].server_id # server
<1>1. BindingFor(p, server) = {bs[i] : i \in {j \in DOMAIN bs : First(j)}}
  BY DEF BindingFor
<1>2. PICK i \in DOMAIN bs : First(i) /\ b = bs[i]
  BY <1>1
<1>3. PICK j \in DOMAIN bs : First(j) /\ c = bs[j]
  BY <1>1
<1>4. i \in Nat \ {0} /\ j \in Nat \ {0}
  BY InspectionAssumption
<1>5. ~(i < j)
  BY <1>2, <1>3, <1>4
<1>6. ~(j < i)
  BY <1>2, <1>3, <1>4
<1> QED
  BY <1>2, <1>3, <1>4, <1>5, <1>6

LEMMA OneCapability ==
  ASSUME NEW p \in Policies, NEW server, NEW tool,
         NEW a \in CapabilityFor(p, server, tool), NEW b \in CapabilityFor(p, server, tool)
  PROVE  a = b
<1>1. PICK c \in BindingFor(p, server) : a = c.tool_capabilities[tool]
  BY DEF CapabilityFor
<1>2. PICK d \in BindingFor(p, server) : b = d.tool_capabilities[tool]
  BY DEF CapabilityFor
<1> QED
  BY <1>1, <1>2, OneBinding

\* is_sensitive_source and is_destination_allowed never both hold.
LEMMA SensitiveIsNotAllowed ==
  ASSUME NEW p \in Policies, NEW server, NEW call, IsSensitiveSource(p, server, call)
  PROVE  ~IsDestinationAllowed(p, server, call)
<1>1. PICK a \in CapabilityFor(p, server, call.tool) :
        \E q \in Paths(call) : MatchesAny(q, a.blocked_paths)
  BY DEF IsSensitiveSource
<1>2. SUFFICES ASSUME NEW b \in CapabilityFor(p, server, call.tool),
                      \A q \in Paths(call) : Clears(q, b.allowed_paths, b.blocked_paths)
               PROVE  FALSE
  BY DEF IsDestinationAllowed
<1>3. a = b
  BY OneCapability
<1> QED
  BY <1>1, <1>2, <1>3 DEF Clears

-----------------------------------------------------------------------------
\* ---- the steps ----

\* What a handled call leaves behind.
LEMMA Handled ==
  ASSUME NEW call, NEW payload, NEW kept, NEW yes \in BOOLEAN, Handle(call, payload, kept, yes)
  PROVE  /\ registered' = kept
         /\ last' # NoCall
         /\ last'.call = call /\ last'.payload = payload /\ last'.kept = kept
         /\ last'.matched = Detect(payload, kept) /\ last'.approved = yes
         /\ last'.out = (~(Detect(payload, kept) /\ ~Allowed(call)) \/ yes)
         /\ Track(call) \/ UNCHANGED tracked
BY DEF Handle, NoCall

LEMMA DetectIsBoolean ==
  ASSUME NEW payload, NEW kept
  PROVE  Detect(payload, kept) \in BOOLEAN
BY DEF Detect

(* The variables keep their types, and only what a marked place answers is *)
(* ever tracked or registered: Track asks the policy before it does so.    *)
THEOREM TypeCorrect == Spec => []TypeOK
<1>1. Init => TypeOK
  BY DEF Init, TypeOK
<1>2. TypeOK /\ [Next]_vars => TypeOK'
  <2> SUFFICES ASSUME TypeOK, [Next]_vars PROVE TypeOK'
    OBVIOUS
  <2>1. policy' = policy
    BY DEF Next, vars, ToolCall, TrackedAnswer, Return
  <2>2. Marked' = Marked
    BY <2>1 DEF Marked, Sensitive
  <2>3. CASE ToolCall
    <3>1. PICK call \in Calls, kept \in {registered, {}}, yes \in BOOLEAN :
            \E payload \in Payloads[call] : Handle(call, payload, kept, yes)
      BY <2>3 DEF ToolCall
    <3>2. PICK payload \in Payloads[call] : Handle(call, payload, kept, yes)
      BY <3>1
    <3>3. Sensitive(call) => Answer(call) \in Marked
      BY DEF Marked
    <3>4. tracked' \subseteq Marked /\ registered' \subseteq Marked
      BY <3>2, <3>3, Handled DEF TypeOK, Track
    <3>5. /\ last'.call \in Calls /\ last'.payload \in Payloads[last'.call]
          /\ last'.kept \subseteq Marked
      BY <3>2, Handled DEF TypeOK
    <3>6. last'.matched \in BOOLEAN /\ last'.approved \in BOOLEAN /\ last'.out \in BOOLEAN
      BY <3>2, Handled, DetectIsBoolean, ZenonT(40)
    <3> QED
      BY <2>1, <2>2, <3>4, <3>5, <3>6 DEF TypeOK
  <2>4. CASE TrackedAnswer
    BY <2>1, <2>2, <2>4 DEF TrackedAnswer, TypeOK
  <2>5. CASE Return
    BY <2>1, <2>2, <2>5 DEF Return, TypeOK
  <2>6. CASE UNCHANGED vars
    BY <2>1, <2>2, <2>6 DEF vars, TypeOK
  <2> QED
    BY <2>3, <2>4, <2>5, <2>6 DEF Next
<1> QED
  BY <1>1, <1>2, PTL DEF Spec

(* A call on a marked place with a registered content goes out only when   *)
(* the human approves it, however many bindings a policy has for a server  *)
(* and whatever its allow-lists accept.                                    *)
THEOREM NeverExempt == Spec => []SensitiveNeverExempt
<1>1. Init => SensitiveNeverExempt
  BY DEF Init, SensitiveNeverExempt
<1>2. TypeOK /\ SensitiveNeverExempt /\ [Next]_vars => SensitiveNeverExempt'
  <2> SUFFICES ASSUME TypeOK, SensitiveNeverExempt, [Next]_vars PROVE SensitiveNeverExempt'
    OBVIOUS
  <2>1. policy' = policy /\ policy \in Policies
    BY DEF Next, vars, ToolCall, TrackedAnswer, Return, TypeOK
  <2>2. CASE ToolCall
    <3>1. PICK call \in Calls, kept \in {registered, {}}, yes \in BOOLEAN :
            \E payload \in Payloads[call] : Handle(call, payload, kept, yes)
      BY <2>2 DEF ToolCall
    <3>2. PICK payload \in Payloads[call] : Handle(call, payload, kept, yes)
      BY <3>1
    <3>3. Sensitive(call) => ~Allowed(call)
      BY <2>1, SensitiveIsNotAllowed DEF Sensitive, Allowed
    <3>4. last'.matched /\ last'.out /\ Sensitive(call) => last'.approved
      BY <3>2, <3>3, Handled
    <3>5. last'.call = call
      BY <3>2, Handled
    <3> QED
      BY <2>1, <3>4, <3>5 DEF SensitiveNeverExempt, Sensitive
  <2>3. CASE ~ToolCall
    <3>1. last' = last \/ last' = NoCall
      BY <2>3 DEF Next, vars, TrackedAnswer, Return
    <3> QED
      BY <2>1, <3>1 DEF SensitiveNeverExempt, Sensitive
  <2> QED
    BY <2>2, <2>3
<1> QED
  BY <1>1, <1>2, TypeCorrect, PTL DEF Spec

\* An argument more takes no path and no domain away.
LEMMA WithNamesMore ==
  ASSUME NEW call, NEW key, key \notin DOMAIN call.args, NEW v
  PROVE  /\ Paths(call) \subseteq Paths(With(call, key, v))
         /\ Domains(call) \subseteq Domains(With(call, key, v))
<1> DEFINE more == With(call, key, v)
<1>1. /\ more.tool = call.tool
      /\ DOMAIN call.args \subseteq DOMAIN more.args
      /\ \A k \in DOMAIN call.args : more.args[k] = call.args[k]
  BY DEF With
<1> HIDE DEF more
<1>2. Paths(call) \subseteq Paths(more)
  BY <1>1 DEF Paths
<1>3. Domains(call) \subseteq Domains(more)
  BY <1>1 DEF Domains
<1> QED
  BY <1>2, <1>3 DEF more

(* A refused destination stays refused when the call names another one as  *)
(* well: is_destination_allowed looks at all of them.                      *)
THEOREM NoWider == Spec => []MoreArgumentsNoWider
<1>1. ASSUME NEW call, NEW key, key \notin DOMAIN call.args, NEW v,
             Allowed(With(call, key, v))
      PROVE  Allowed(call)
  <2>1. With(call, key, v).tool = call.tool
    BY DEF With
  <2> QED
    BY <1>1, <2>1, WithNamesMore DEF Allowed, IsDestinationAllowed
<1>2. MoreArgumentsNoWider
  BY <1>1 DEF MoreArgumentsNoWider
<1> QED
  BY <1>2, PTL

-----------------------------------------------------------------------------
\* ---- what is found in a payload ----

\* A payload is a sequence of texts, and a policy has limits.
LEMMA PayloadIs ==
  ASSUME NEW call \in Calls, NEW payload \in Payloads[call]
  PROVE  /\ payload \in Seq(Texts(Contents))
         /\ \A i \in DOMAIN payload :
              /\ payload[i] \in Texts(Contents)
              /\ \E part \in 1..Size[payload[i].of] :
                   payload[i].len = EncodedLen(payload[i].layers, part, payload[i].of)
<1>1. /\ payload \in Seq(Texts(Contents))
      /\ \A i \in DOMAIN payload : \E part \in 1..Size[payload[i].of] :
           payload[i].len = EncodedLen(payload[i].layers, part, payload[i].of)
  BY PayloadAssumption DEF Texts
<1>2. \A i \in DOMAIN payload : payload[i] \in Texts(Contents)
  BY <1>1, LenProperties, ElementOfSeq
<1> QED
  BY <1>1, <1>2

LEMMA SizeIs ==
  ASSUME NEW c \in Contents
  PROVE  Size[c] \in Nat /\ Width[c] \in Nat \ {0} /\ Width \in [Contents -> Nat \ {0}]
BY PayloadAssumption DEF Size

LEMMA PolicyLimits ==
  ASSUME NEW p \in Policies
  PROVE  Limits(p.decode_limits) /\ p.decode_limits.max_candidates_per_payload \in Nat
BY InspectionAssumption DEF Limits

LEMMA InsideIs ==
  ASSUME NEW t, NEW part, NEW j
  PROVE  InsideLen(t, part, j) = InnerLen(t, part, j)
BY DEF InsideLen, InnerLen, Inner

\* What makes a part enough.
LEMMA EnoughIs ==
  ASSUME NEW t \in Texts(Contents), NEW part
  PROVE  part \in Enough(t) <=>
           /\ part \in 1..Size[t.of]
           /\ t.len = EncodedLen(t.layers, part, t.of)
           /\ part = Size[t.of] \/ (part >= ReverseMin /\ ~t.more)
<1>1. InnerLen(t, part, 0) = EncodedLen(t.layers, part, t.of)
  BY TextIs, InnerIs DEF InnerLen
<1>2. InsideLen(t, part, 0) = EncodedLen(t.layers, part, t.of)
  BY <1>1, InsideIs
<1> QED
  BY <1>2 DEF Enough

\* What makes the matcher stop at a text is enough of its content.
LEMMA HitIsEnough ==
  ASSUME NEW t \in Texts(Contents), NEW d, NEW contents, ScanHits(d, contents),
         d.of = t.of, d.more = t.more, d.len \in Nat,
         NEW part \in 1..Size[t.of], t.len = EncodedLen(t.layers, part, t.of), d.len <= part
  PROVE  part \in Enough(t)
<1>1. Size[t.of] \in Nat
  BY TextIs, SizeIs
<1>2. part = Size[t.of] \/ (part >= ReverseMin /\ ~t.more)
  BY <1>1 DEF ScanHits, ReverseMin
<1> QED
  BY <1>2, EnoughIs

\* Detection has its reasons.
LEMMA DetectedIsThere ==
  ASSUME NEW call \in Calls, NEW payload \in Payloads[call], NEW kept,
         policy \in Policies, Detect(payload, kept)
  PROVE  \E t \in ToSet(payload) :
           /\ t.of \in kept /\ Enough(t) # {}
           /\ Len(t.layers) <= policy.decode_limits.max_nesting_depth
<1> DEFINE limits == policy.decode_limits
           Good(t) == /\ t.of \in kept /\ Enough(t) # {}
                      /\ Len(t.layers) <= limits.max_nesting_depth
<1>1. Limits(limits)
  BY PolicyLimits
<1>2. Width \in [Contents -> Nat \ {0}]
  BY PayloadAssumption
<1>3. payload \in Seq(Texts(Contents))
  BY PayloadIs
<1>4. ASSUME NEW i \in DOMAIN payload
      PROVE  payload[i] \in ToSet(payload) /\ payload[i] \in Texts(Contents)
  BY PayloadIs DEF ToSet
<1>5. CASE \E t \in ToSet(payload) : ScanHits(t, kept)
  <2>1. PICK i \in DOMAIN payload : ScanHits(payload[i], kept)
    BY <1>5 DEF ToSet
  <2>2. PICK t \in Texts(Contents) : t = payload[i]
    BY <1>4, <2>1
  <2>3. PICK part \in 1..Size[t.of] : t.len = EncodedLen(t.layers, part, t.of)
    BY <2>1, <2>2, PayloadIs
  <2>4. t.layers = <<>> /\ t.of \in kept
    BY <2>1, <2>2 DEF ScanHits
  <2>5. t.len \in Nat /\ t.of \in Contents
    BY <2>2, TextIs
  <2>6. part \in Nat /\ Width[t.of] \in Nat \ {0}
    BY <2>5, SizeIs
  <2>7. t.len = part
    BY <2>3, <2>4, <2>6, EncodedLenNothing
  <2>8. part \in Enough(t)
    <3>1. t.len <= part /\ ScanHits(t, kept)
      BY <2>1, <2>2, <2>6, <2>7
    <3> QED
      BY <2>3, <2>5, <3>1, HitIsEnough
  <2>9. Len(t.layers) <= limits.max_nesting_depth
    BY <1>1, <2>4, EmptySeq DEF Limits
  <2>10. Good(t)
    BY <2>4, <2>8, <2>9
  <2> QED
    BY <1>4, <2>1, <2>2, <2>10
<1>6. CASE \E d \in Expand(limits, payload) : ScanHits(d, kept)
  <2>1. PICK d \in Expand(limits, payload) : ScanHits(d, kept)
    BY <1>6
  <2>2. PICK j \in 1..limits.max_nesting_depth :
          \E i \in DOMAIN payload : From(d, payload[i], j, Contents)
    BY <1>1, <1>2, <1>3, ExpandFrom
  <2>3. PICK i \in DOMAIN payload : From(d, payload[i], j, Contents)
    BY <2>2
  <2>4. PICK t \in Texts(Contents) : t = payload[i]
    BY <1>4, <2>3
  <2>5. PICK part \in 1..Size[t.of] : t.len = EncodedLen(t.layers, part, t.of)
    BY <2>3, <2>4, PayloadIs
  <2>6. /\ d \in Texts(Contents) /\ d.of = t.of /\ d.more = t.more
        /\ Len(d.layers) + j = Len(t.layers)
        /\ \A m \in Nat : t.len <= EncodedLen(t.layers, m, t.of)
                            => d.len <= EncodedLen(d.layers, m, t.of)
    BY <2>3, <2>4 DEF From
  <2>7. d.layers = <<>> /\ t.of \in kept
    BY <2>1, <2>6 DEF ScanHits
  <2>8. d.len \in Nat /\ t.len \in Nat /\ t.of \in Contents
    BY <2>4, <2>6, TextIs
  <2>9. part \in Nat /\ Width[t.of] \in Nat \ {0}
    BY <2>8, SizeIs
  <2>10. EncodedLen(<<>>, part, t.of) = part
    BY <2>9, EncodedLenNothing
  <2>11. d.len <= part
    BY <2>5, <2>6, <2>7, <2>8, <2>9, <2>10
  <2>12. part \in Enough(t)
    BY <2>1, <2>5, <2>6, <2>8, <2>11, HitIsEnough
  <2>13. Len(t.layers) <= limits.max_nesting_depth
    <3>1. Len(d.layers) = 0
      BY <2>7, EmptySeq
    <3>2. limits.max_nesting_depth \in Nat
      BY <1>1 DEF Limits
    <3> QED
      BY <2>2, <2>6, <3>1, <3>2
  <2>14. Good(t)
    BY <2>7, <2>12, <2>13
  <2> QED
    BY <1>4, <2>3, <2>4, <2>14
<1> QED
  BY <1>5, <1>6 DEF Detect

\* What is in reach is detected.
LEMMA InReachIsDetected ==
  ASSUME NEW call \in Calls, NEW payload \in Payloads[call], NEW kept,
         policy \in Policies, NEW i \in DOMAIN payload, payload[i].of \in kept,
         InReach(payload, i)
  PROVE  Detect(payload, kept)
<1> DEFINE limits == policy.decode_limits
<1>1. PICK t \in Texts(Contents) : t = payload[i]
  BY PayloadIs
<1>2. t \in ToSet(payload) /\ t.of \in kept
  BY <1>1 DEF ToSet
<1>3. t.layers \in Seq(Encodings) /\ t.of \in Contents /\ t.len \in Nat
  BY <1>1, TextIs
<1>4. PICK part \in Enough(t) :
        \/ Len(t.layers) = 0 /\ policy.active_tier # "v0"
        \/ /\ policy.active_tier = "v2"
           /\ Len(t.layers) <= limits.max_nesting_depth
           /\ t.len >= MinToken
           /\ Cardinality({j \in 1..(i - 1) : payload[j].len >= MinToken})
                < limits.max_candidates_per_payload
           /\ t.len <= limits.max_candidate_len_bytes
           /\ \A j \in 1..Len(t.layers) :
                InsideLen(t, part, j) * limits.max_expansion_ratio.den
                  <= InsideLen(t, part, j - 1) * limits.max_expansion_ratio.num
  BY <1>1 DEF InReach
<1>5. /\ part \in 1..Size[t.of] /\ t.len = EncodedLen(t.layers, part, t.of)
      /\ part = Size[t.of] \/ (part >= ReverseMin /\ ~t.more)
  BY <1>1, EnoughIs
<1>6. part \in Nat \ {0} /\ Width[t.of] \in Nat \ {0}
  BY <1>3, <1>5, SizeIs
<1>7. policy.active_tier # "v0" => AtLeast(policy.active_tier, "v1")
  <2>1. policy.active_tier \in {"v0", "v1", "v2", "v3", "v4"}
    BY InspectionAssumption DEF ToSet, Tiers
  <2> QED
    BY <2>1 DEF AtLeast, Tiers
<1>8. CASE Len(t.layers) = 0 /\ policy.active_tier # "v0"
  <2>1. t.layers = <<>>
    BY <1>3, <1>8, EmptySeq
  <2>2. t.len = part
    BY <1>5, <1>6, <2>1, EncodedLenNothing
  <2>3. ScanHits(t, kept)
    BY <1>2, <1>5, <2>1, <2>2 DEF ScanHits
  <2> QED
    BY <1>2, <1>7, <1>8, <2>3 DEF Detect
<1>9. CASE Len(t.layers) # 0 /\ policy.active_tier = "v2"
  <2>1. Len(t.layers) \in 1..limits.max_nesting_depth
    <3>1. Len(t.layers) \in Nat /\ limits.max_nesting_depth \in Nat
      BY <1>3, LenProperties, PolicyLimits DEF Limits
    <3> QED
      BY <1>4, <1>9, <3>1
  <2>2. i \in Candidates(limits, payload)
    <3>1. DOMAIN payload = 1..Len(payload) /\ Len(payload) \in Nat
      BY PayloadIs, LenProperties
    <3>2. {j \in {k \in DOMAIN payload : payload[k].len >= MinToken} : j < i}
            = {j \in 1..(i - 1) : payload[j].len >= MinToken}
      BY <3>1
    <3>3. payload[i].len >= MinToken
      BY <1>1, <1>4, <1>9
    <3>4. Cardinality({j \in 1..(i - 1) : payload[j].len >= MinToken})
            < limits.max_candidates_per_payload
      BY <1>4, <1>9
    <3> QED
      BY <3>2, <3>3, <3>4 DEF Candidates
  <2>3. Reached(limits, t, part)
    BY <1>4, <1>5, <1>9, InsideIs DEF Reached
  <2>4. Within(t, <<>>, part) \in Expand(limits, payload)
    <3>1. Width \in [Contents -> Nat \ {0}] /\ Limits(limits) /\ payload \in Seq(Texts(Contents))
      BY PayloadAssumption, PolicyLimits, PayloadIs
    <3> QED
      BY <1>1, <1>6, <2>1, <2>2, <2>3, <3>1, ExpandFinds
  <2>5. ScanHits(Within(t, <<>>, part), kept)
    BY <1>2, <1>5 DEF ScanHits, Within
  <2>6. AtLeast(policy.active_tier, "v2")
    BY <1>9 DEF AtLeast, Tiers
  <2> QED
    BY <2>4, <2>5, <2>6 DEF Detect
<1> QED
  BY <1>4, <1>8, <1>9

(* Only a call that carries a good part of what a marked place may answer, *)
(* not deeper in encodings than the limit, is ever refused: the decoders   *)
(* make nothing up, whatever the payload, the limits and the encodings.    *)
THEOREM RefusalsAreDeserved == Spec => []RefusalIsDeserved
<1>1. Init => RefusalIsDeserved
  BY DEF Init, RefusalIsDeserved
<1>2. TypeOK /\ RefusalIsDeserved /\ [Next]_vars => RefusalIsDeserved'
  <2> SUFFICES ASSUME TypeOK, RefusalIsDeserved, [Next]_vars PROVE RefusalIsDeserved'
    OBVIOUS
  <2>1. policy' = policy /\ policy \in Policies
    BY DEF Next, vars, ToolCall, TrackedAnswer, Return, TypeOK
  <2>2. Marked' = Marked
    BY <2>1 DEF Marked, Sensitive
  <2>3. CASE ToolCall
    <3>1. PICK call \in Calls, kept \in {registered, {}}, yes \in BOOLEAN :
            \E payload \in Payloads[call] : Handle(call, payload, kept, yes)
      BY <2>3 DEF ToolCall
    <3>2. PICK payload \in Payloads[call] : Handle(call, payload, kept, yes)
      BY <3>1
    <3>3. kept \subseteq Marked
      BY <3>1 DEF TypeOK
    <3>4. /\ last'.call = call /\ last'.payload = payload
          /\ ~last'.out => Detect(payload, kept) /\ ~Allowed(call)
      <4>1. /\ last'.call = call /\ last'.payload = payload
            /\ last'.out = (~(Detect(payload, kept) /\ ~Allowed(call)) \/ yes)
        BY <3>2, Handled
      <4> QED
        BY <4>1
    <3>5. Allowed(call)' <=> Allowed(call)
      BY <2>1 DEF Allowed
    <3>6. ASSUME ~last'.out
          PROVE  \E t \in ToSet(payload) :
                   /\ t.of \in Marked /\ Enough(t) # {}
                   /\ Len(t.layers) <= policy.decode_limits.max_nesting_depth
      <4>1. PICK t \in ToSet(payload) :
              /\ t.of \in kept /\ Enough(t) # {}
              /\ Len(t.layers) <= policy.decode_limits.max_nesting_depth
        BY <2>1, <3>4, <3>6, DetectedIsThere
      <4> QED
        BY <3>3, <4>1
    <3> QED
      BY <2>1, <2>2, <3>4, <3>5, <3>6 DEF RefusalIsDeserved, Allowed
  <2>4. CASE ~ToolCall
    <3>1. last' = last \/ last' = NoCall
      BY <2>4 DEF Next, vars, TrackedAnswer, Return
    <3> QED
      BY <2>1, <2>2, <3>1 DEF RefusalIsDeserved, Allowed
  <2> QED
    BY <2>3, <2>4
<1> QED
  BY <1>1, <1>2, TypeCorrect, PTL DEF Spec

(* What the policy promises to look at is found: a registered content,     *)
(* plain or in any encodings that keep to the limits, does not go where it *)
(* is not allowed to unless the human says so.                             *)
THEOREM NothingInReachIsMissed == Spec => []GuardedUnlessAllowed
<1>1. Init => GuardedUnlessAllowed
  BY DEF Init, GuardedUnlessAllowed
<1>2. TypeOK /\ GuardedUnlessAllowed /\ [Next]_vars => GuardedUnlessAllowed'
  <2> SUFFICES ASSUME TypeOK, GuardedUnlessAllowed, [Next]_vars PROVE GuardedUnlessAllowed'
    OBVIOUS
  <2>1. policy' = policy /\ policy \in Policies
    BY DEF Next, vars, ToolCall, TrackedAnswer, Return, TypeOK
  <2>2. CASE ToolCall
    <3>1. PICK call \in Calls, kept \in {registered, {}}, yes \in BOOLEAN :
            \E payload \in Payloads[call] : Handle(call, payload, kept, yes)
      BY <2>2 DEF ToolCall
    <3>2. PICK payload \in Payloads[call] : Handle(call, payload, kept, yes)
      BY <3>1
    <3>3. /\ last'.call = call /\ last'.payload = payload /\ last'.kept = kept
          /\ last'.approved = yes
          /\ last'.out = (~(Detect(payload, kept) /\ ~Allowed(call)) \/ yes)
      BY <3>2, Handled
    <3>4. ASSUME last'.out, NEW i \in DOMAIN payload, payload[i].of \in kept, InReach(payload, i)
          PROVE  Allowed(call) \/ yes
      <4>1. Detect(payload, kept)
        BY <2>1, <3>4, InReachIsDetected
      <4> QED
        BY <3>3, <3>4, <4>1
    <3>5. Allowed(last.call)' <=> Allowed(call)
      BY <2>1, <3>3 DEF Allowed
    <3>6. ASSUME NEW i, InReach(last.payload, i)' PROVE InReach(payload, i)
      BY <2>1, <3>3, <3>6 DEF InReach
    <3> QED
      BY <3>3, <3>4, <3>5, <3>6 DEF GuardedUnlessAllowed
  <2>3. CASE ~ToolCall
    <3>1. last' = last \/ last' = NoCall
      BY <2>3 DEF Next, vars, TrackedAnswer, Return
    <3> QED
      BY <2>1, <3>1 DEF GuardedUnlessAllowed, Allowed, InReach
  <2> QED
    BY <2>2, <2>3
<1> QED
  BY <1>1, <1>2, TypeCorrect, PTL DEF Spec
=============================================================================
