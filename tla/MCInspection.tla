---------------------------- MODULE MCInspection ----------------------------
(***************************************************************************)
(* A small instance of Inspection: a marked file with a key and one with a *)
(* text of wide characters, a file that is not marked, and the "ok" that   *)
(* every other tool answers with.  The first and the third come with a     *)
(* type, the others as plain strings.                                      *)
(***************************************************************************)
EXTENDS Inspection

MCContents == {"key", "wide", "notes", "ok"}
MCTextSize == [key |-> 9, wide |-> 8, notes |-> 9, ok |-> 2]
MCWidth == [key |-> 1, wide |-> 3, notes |-> 1, ok |-> 1]

MCAnswer(call) ==
  IF call.tool = "read_file" /\ "path" \in DOMAIN call.args
  THEN CASE call.args.path = ".ssh/id" -> "key"
         [] call.args.path = ".ssh/wide" -> "wide"
         [] OTHER -> "notes"
  ELSE "ok"

MCAccepts ==
  (".ssh/*" :> {".ssh/id", ".ssh/wide"}) @@ ("*" :> {".ssh/id", ".ssh/wide", "notes"})
    @@ ("notes" :> {"notes"}) @@ ("api" :> {"api"}) @@ ("evil" :> {"evil"}) @@ ("any" :> {"api", "evil"})

\* ---- payloads ----

\* All ways to encode twice, some to encode three times, one to encode four times.
Layers ==
  UNION {[1..n -> Encodings] : n \in 0..2}
    \cup {<<a, b, a>> : a \in {"base64", "hex"}, b \in {"url", "json"}}
    \cup {<<"hex", "hex", "hex", "hex">>}
Noise(n) == Text(<<>>, n, "notes")
Key64 == Text(<<"base64">>, 9, "key")

Bodies ==
  {<<Text(l, MCTextSize[of], of)>> : l \in Layers, of \in {"key", "wide"}}
    \cup {<<Text(l, n, "key")>> : l \in {<<>>, <<"hex">>}, n \in {7, 8}}
    \cup {<<Text(l, MCTextSize[of], of)>> : l \in {<<>>, <<"url">>}, of \in {"notes", "ok"}}
    \cup {<<Attached(Text(<<>>, n, of))>> : <<n, of>> \in {<<9, "key">>, <<14, "key">>, <<8, "wide">>, <<2, "ok">>}}
    \cup {<<Noise(8), Key64>>, <<Noise(8), Noise(8), Key64>>, <<Noise(7), Noise(7), Key64>>}
Few == {<<>>, <<Text(<<>>, 9, "key")>>}

\* ---- calls ----

MCCalls ==
  [tool : {"read_file"}, args : [{"path"} -> {".ssh/id", ".ssh/wide", "notes"}]]
    \cup [tool : {"write_file"}, args : [{"path"} -> {".ssh/id"}]]
    \cup [tool : {"move_file"}, args : {[source |-> "notes", destination |-> ".ssh/id"]}]
    \cup [tool : {"http_request"}, args : [{"url"} -> {"api", "evil", ""}]]
    \cup [tool : {"run"}, args : {<<>>}]
MCPayloads == [c \in MCCalls |-> IF c.tool = "http_request" THEN Bodies ELSE Few]

\* ---- policy files ----

Caps ==
  [read_file |-> [blocked_paths |-> <<".ssh/*">>],
   write_file |-> [allowed_paths |-> <<"*">>, blocked_paths |-> <<".ssh/*">>],
   move_file |-> [allowed_paths |-> <<"notes">>, blocked_paths |-> <<".ssh/*">>],
   http_request |-> [allowed_domains |-> <<"api">>]]
OpenCaps == [Caps EXCEPT !.http_request = [allowed_domains |-> <<"any">>, blocked_domains |-> <<"evil">>]]

Bound(caps) == <<[server_id |-> "s", tool_capabilities |-> caps]>>
Base == [server_bindings |-> Bound(Caps), active_tier |-> "v2"]
Limits(limits) == Base @@ [decode_limits |-> limits]

MCFiles ==
  {Base, [server_bindings |-> Bound(OpenCaps)],
   [Base EXCEPT !.active_tier = "v0"], [active_tier |-> "v2"],
   [Base EXCEPT !.server_bindings = Bound(OpenCaps) \o @] @@ [enforcement |-> [on_match |-> "block"]],
   [Base EXCEPT !.server_bindings = <<[server_id |-> "other"], [server_id |-> "s"]>> \o @],
   Limits([max_nesting_depth |-> 1]), Limits([max_nesting_depth |-> 0]),
   Limits([max_candidates_per_payload |-> 2]), Limits([max_candidates_per_payload |-> 1]),
   Limits([max_candidate_len_bytes |-> 24]), Limits([max_candidate_len_bytes |-> 18]),
   Limits([max_expansion_ratio |-> [num |-> 3, den |-> 4]]),
   Limits([max_expansion_ratio |-> [num |-> 1, den |-> 2]])}
=============================================================================
