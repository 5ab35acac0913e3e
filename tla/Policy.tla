------------------------------- MODULE Policy -------------------------------
(***************************************************************************)
(* The policy file (config.py): what its JSON becomes, and the two         *)
(* questions the pipeline asks of it.  A key that the file does not have   *)
(* takes the default of its dataclass.                                     *)
(***************************************************************************)
EXTENDS Integers, Sequences, TLC

Tiers == <<"v0", "v1", "v2", "v3", "v4">>

\* AblationTier.at_least, by the place in the order of the tiers.
AtLeast(tier, other) ==
  \E i, j \in DOMAIN Tiers : Tiers[i] = tier /\ Tiers[j] = other /\ i >= j

\* max_expansion_ratio is the fraction num / den.
DecodeLimits ==
  [max_candidate_len_bytes |-> 8192, max_candidates_per_payload |-> 256,
   max_expansion_ratio |-> [num |-> 4, den |-> 1], max_nesting_depth |-> 3]

ToolCapability ==
  [allowed_paths |-> <<>>, blocked_paths |-> <<>>,
   allowed_domains |-> <<>>, blocked_domains |-> <<>>]

\* What raw.get(key, default) and **raw leave open.
Absent ==
  [active_tier |-> "v1", server_bindings |-> <<>>, decode_limits |-> <<>>, enforcement |-> <<>>]

Binding(b) ==
  LET caps == (b @@ [tool_capabilities |-> <<>>]).tool_capabilities
  IN [server_id |-> b.server_id,
      tool_capabilities |-> [tool \in DOMAIN caps |-> caps[tool] @@ ToolCapability]]

\* PolicyFile.from_dict: the parts that evaluate a call at tiers V0 to V2.
FromDict(file) ==
  LET raw == file @@ Absent
  IN [active_tier |-> raw.active_tier,
      server_bindings |-> [i \in DOMAIN raw.server_bindings |-> Binding(raw.server_bindings[i])],
      decode_limits |-> raw.decode_limits @@ DecodeLimits,
      on_match |-> (raw.enforcement @@ [on_match |-> "ask_user"]).on_match]

\* binding_for: the first of that server, as a set of at most one.
BindingFor(policy, server) ==
  LET bs == policy.server_bindings
  IN {bs[i] : i \in {j \in DOMAIN bs : /\ bs[j].server_id = server
                                       /\ \A k \in 1..(j - 1) : bs[k].server_id # server}}

\* The capabilities of one tool of that server, as a set of at most one.
CapabilityFor(policy, server, tool) ==
  {b.tool_capabilities[tool] :
     b \in {c \in BindingFor(policy, server) : tool \in DOMAIN c.tool_capabilities}}
=============================================================================
