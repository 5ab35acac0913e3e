----------------------------- MODULE Inspection -----------------------------
(***************************************************************************)
(* What decides over a tool call at tiers V0 to V2: the policy file, the   *)
(* destination of the call, what is found in its payload, plain or in      *)
(* encodings, of the contents that are registered, and the registration of *)
(* what marked places answer (relay.py, pipeline.py, matcher.py).  Calls   *)
(* come one at a time; Relay has the tasks that work on them, CrossCall    *)
(* the tiers above.                                                        *)
(*                                                                         *)
(* A call is a tool and its arguments, as Destination has them.  Its       *)
(* payload are the tokens into which all the strings of the arguments      *)
(* fall, each of them a text of Decode.                                    *)
(***************************************************************************)
EXTENDS Destination, Decode, FiniteSets

CONSTANTS
  Files,      \* policy files as they may be written
  ServerId,   \* the server that the relay runs
  Calls,      \* what the host may call
  Payloads,   \* the payloads that each call may have
  Contents,   \* what texts are about
  TextSize,   \* the characters of the text of each content
  Typed,      \* the contents that come as [type |-> "text", text |-> ...]
  Answer(_)   \* the content that a call is answered with

ReverseMin == 8   \* _MIN_REVERSE_MATCH_LEN

\* flatten_json_strings of a result, which is what gets registered: before the
\* text of an MCP content item stand its type, "text", and a space.
Size == [c \in Contents |-> IF c \in Typed THEN 5 + TextSize[c] ELSE TextSize[c]]

Policies == {FromDict(f) : f \in Files}

\* A policy's bindings are a list, its tier is one of AblationTier's, its limits
\* are counts.
ASSUME InspectionAssumption ==
  /\ \A c \in Calls : Answer(c) \in Contents
  /\ \A p \in Policies :
       /\ DOMAIN p.server_bindings \subseteq Nat \ {0}
       /\ p.active_tier \in ToSet(Tiers)
       /\ LET limits == p.decode_limits
          IN /\ {limits.max_nesting_depth, limits.max_candidates_per_payload,
                 limits.max_candidate_len_bytes, limits.max_expansion_ratio.num} \subseteq Nat
             /\ limits.max_expansion_ratio.den \in Nat \ {0}

\* A character has bytes, and a text of a payload has some characters of what it
\* is about, encoded or not.
ASSUME PayloadAssumption ==
  /\ Width \in [Contents -> Nat \ {0}] /\ TextSize \in [Contents -> Nat]
  /\ \A c \in Calls : \A payload \in Payloads[c] :
       /\ payload \in Seq([layers : Seq(Encodings), len : Nat, of : Contents, more : BOOLEAN])
       /\ \A i \in DOMAIN payload :
            LET t == payload[i]
            IN \E part \in 1..Size[t.of] : t.len = EncodedLen(t.layers, part, t.of)

VARIABLES
  policy,      \* the policy as loaded
  tracked,     \* _pending_sensitive_reads, by what will be answered
  registered,  \* the fragments of the exact matcher
  last         \* history: the call in hand and what was decided, NoCall between lines

vars == <<policy, tracked, registered, last>>

NoCall == [call |-> "none"]

Allowed(call) == IsDestinationAllowed(policy, ServerId, call)
Sensitive(call) == IsSensitiveSource(policy, ServerId, call)

Init ==
  /\ policy \in Policies
  /\ tracked = {} /\ registered = {}
  /\ last = NoCall

\* Wrong variant of ScanHits: however little it is.
ScanHitsAny(t, contents) == t.layers = <<>> /\ t.of \in contents /\ ~t.more

\* MatcherSnapshot.scan: all of what is registered in the text, or the text, when
\* it is long enough and has nothing else, in what is registered.
ScanHits(t, contents) ==
  /\ t.layers = <<>> /\ t.of \in contents
  /\ t.len = Size[t.of] \/ (t.len >= ReverseMin /\ ~t.more)

\* _evaluate_detection at tiers V0 to V2, the exact matcher holding `kept`.
\* The payload as a candidate of its own shows no more than V1 has seen.
Detect(payload, kept) ==
  \/ /\ AtLeast(policy.active_tier, "v1")
     /\ \E t \in ToSet(payload) : ScanHits(t, kept)
  \/ /\ AtLeast(policy.active_tier, "v2")
     /\ \E t \in Expand(policy.decode_limits, payload) : ScanHits(t, kept)

\* Wrong variant of Track: whatever is forwarded.
TrackAll(call) == tracked' = tracked \cup {Answer(call)}

\* _forward_to_child: the answer of a call on a marked place will be registered.
Track(call) == tracked' = IF Sensitive(call) THEN tracked \cup {Answer(call)} ELSE tracked

\* _handle_tool_call, with `kept` of the exact matcher and the human's answer:
\* what is found in a call to a destination that is not allowed stops it.
Handle(call, payload, kept, yes) ==
  LET matched == Detect(payload, kept)
      blocked == matched /\ ~Allowed(call)
      out == ~blocked \/ yes
  IN /\ yes => blocked /\ policy.on_match = "ask_user"
     /\ registered' = kept
     /\ last' = [call |-> call, payload |-> payload, kept |-> kept, matched |-> matched,
                  approved |-> yes, out |-> out]
     /\ IF out THEN Track(call) ELSE UNCHANGED tracked

\* The next line is a tool call.  The TTL may have run out.
ToolCall ==
  /\ last = NoCall
  /\ \E call \in Calls, kept \in {registered, {}}, yes \in BOOLEAN :
       \E payload \in Payloads[call] : Handle(call, payload, kept, yes)
  /\ UNCHANGED policy

\* _maybe_register_sensitive_response: a result is registered, an error is not.
TrackedAnswer ==
  /\ \E content \in tracked :
       /\ tracked' = tracked \ {content}
       /\ registered' \in {registered, registered \cup {content}}
  /\ UNCHANGED <<policy, last>>

\* _handle_tool_call returns, and the main loop waits for a line.
Return ==
  /\ last # NoCall /\ last' = NoCall
  /\ UNCHANGED <<policy, tracked, registered>>

Next == ToolCall \/ TrackedAnswer \/ Return

Spec == Init /\ [][Next]_vars

-----------------------------------------------------------------------------
\* The contents that calls on marked places are answered with.
Marked == {Answer(c) : c \in {d \in Calls : Sensitive(d)}}

(* Everything has its type, and only what a marked place answers is ever   *)
(* tracked or registered.                                                  *)
TypeOK ==
  /\ policy \in Policies
  /\ tracked \subseteq Marked /\ registered \subseteq Marked
  /\ last # NoCall =>
       /\ last.call \in Calls /\ last.payload \in Payloads[last.call]
       /\ last.kept \subseteq Marked
       /\ {last.matched, last.approved, last.out} \subseteq BOOLEAN

\* What is in a text after j of its layers, when it has part of its content.
InsideLen(t, part, j) == EncodedLen(SubSeq(t.layers, j + 1, Len(t.layers)), part, t.of)

\* The text has so much of its content that this is no coincidence.
Enough(t) ==
  {part \in 1..Size[t.of] :
     /\ t.len = InsideLen(t, part, 0)
     /\ part = Size[t.of] \/ (part >= ReverseMin /\ ~t.more)}

\* The i-th text of a payload is within what the policy promises to look at: it
\* is plain, or its encodings, its place and all its lengths keep to the limits.
InReach(payload, i) ==
  LET t == payload[i]
      limits == policy.decode_limits
      ratio == limits.max_expansion_ratio
      depth == Len(t.layers)
      before == {j \in 1..(i - 1) : payload[j].len >= MinToken}
  IN \E part \in Enough(t) :
       \/ depth = 0 /\ policy.active_tier # "v0"
       \/ /\ policy.active_tier = "v2"
          /\ depth <= limits.max_nesting_depth
          /\ t.len >= MinToken /\ Cardinality(before) < limits.max_candidates_per_payload
          /\ t.len <= limits.max_candidate_len_bytes
          /\ \A j \in 1..depth :
               InsideLen(t, part, j) * ratio.den <= InsideLen(t, part, j - 1) * ratio.num

(* README, V2, "encodings" and "limits": a call with a registered content, *)
(* plain or in encodings that keep to the limits, up to their edges, does  *)
(* not go to a destination that is not allowed, unless the human says so.  *)
GuardedUnlessAllowed ==
  last # NoCall /\ last.out =>
    \A i \in DOMAIN last.payload :
      last.payload[i].of \in last.kept /\ InReach(last.payload, i)
        => Allowed(last.call) \/ last.approved

(* A refused call was going where it is not allowed to, with a good part   *)
(* of what a marked place may answer, not deeper in encodings than the     *)
(* limit: no other content is ever a reason, whatever was asked before.    *)
RefusalIsDeserved ==
  last # NoCall /\ ~last.out =>
    /\ ~Allowed(last.call)
    /\ \E t \in ToSet(last.payload) :
         /\ t.of \in Marked /\ Enough(t) # {}
         /\ Len(t.layers) <= policy.decode_limits.max_nesting_depth

(* A call on a marked place that carries what another one answered is not  *)
(* let through by an allow-list, however wide: only the human may do so.   *)
SensitiveNeverExempt ==
  last # NoCall /\ last.matched /\ last.out /\ Sensitive(last.call) => last.approved

(* matcher.py, "a registered secret appears verbatim somewhere inside the  *)
(* payload": a call with the whole text of a registered answer, whatever   *)
(* is attached to it, does not go to a destination that is not allowed.    *)
WholeCopyIsFound ==
  last # NoCall /\ last.out /\ policy.active_tier # "v0" =>
    \A t \in ToSet(last.payload) :
      t.layers = <<>> /\ t.of \in last.kept /\ t.len >= TextSize[t.of]
        => Allowed(last.call) \/ last.approved

\* The call with one more string among its arguments.
With(call, key, value) ==
  [tool |-> call.tool,
   args |-> [k \in DOMAIN call.args \cup {key} |-> IF k = key THEN value ELSE call.args[k]]]

(* A destination that is refused is not reached by naming a further one:   *)
(* every path and domain of a call has to clear (move_file names two).     *)
Values == UNION {Accepts[p] : p \in DOMAIN Accepts}
MoreArgumentsNoWider ==
  last # NoCall /\ ~Allowed(last.call) =>
    \A key \in (PathKeys \cup {"url"}) \ DOMAIN last.call.args, v \in Values :
      ~Allowed(With(last.call, key, v))
=============================================================================
