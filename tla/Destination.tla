---------------------------- MODULE Destination ----------------------------
(***************************************************************************)
(* Where a tool call goes (destination.py): the paths and hosts its        *)
(* arguments name, whether the policy lets it go there, and whether it     *)
(* reads from a place that the policy marks.  A call is a tool and its     *)
(* arguments, of which only the strings count: a function from keys to     *)
(* values.  The value of a URL is its authority, "" when it has none.      *)
(***************************************************************************)
EXTENDS Policy

CONSTANT Accepts   \* the values each pattern of the policy stands for (fnmatch)

PathKeys == {"path", "source", "destination"}
FilesystemTools == {"read_file", "write_file", "delete_file", "list_directory", "move_file"}
NetworkTools == {"http_request", "fetch"}

\* extract_destination_candidates: the paths, and the domains.
Paths(call) ==
  IF call.tool \in FilesystemTools
  THEN {call.args[k] : k \in DOMAIN call.args \cap PathKeys} ELSE {}
Domains(call) ==
  IF call.tool \in NetworkTools
  THEN {call.args[k] : k \in DOMAIN call.args \cap {"url"}} \ {""} ELSE {}

\* _matches_any
MatchesAny(value, patterns) == \E i \in DOMAIN patterns : value \in Accepts[patterns[i]]

\* A read of what the policy marks with blocked_paths.
IsSensitiveSource(policy, server, call) ==
  \E cap \in CapabilityFor(policy, server, call.tool) :
    \E p \in Paths(call) : MatchesAny(p, cap.blocked_paths)

\* Wrong variant of Clears: what the allow-list has is not looked up again.
ClearsIfListed(value, allowed, blocked) ==
  MatchesAny(value, allowed) \/ (allowed = <<>> /\ ~MatchesAny(value, blocked))

\* One path or domain: blocked first, then on the list if there is a list.
Clears(value, allowed, blocked) ==
  /\ ~MatchesAny(value, blocked)
  /\ allowed # <<>> => MatchesAny(value, allowed)

\* Wrong variant of IsDestinationAllowed: one of the paths is enough.
AnyIsAllowed(policy, server, call) ==
  \E cap \in CapabilityFor(policy, server, call.tool) :
    /\ Paths(call) # {} =>
         \E p \in Paths(call) : Clears(p, cap.allowed_paths, cap.blocked_paths)
    /\ \A d \in Domains(call) : Clears(d, cap.allowed_domains, cap.blocked_domains)

\* Not without a binding of the server that has the tool; then everything the
\* call names must clear, which for a call that names nothing is no condition.
IsDestinationAllowed(policy, server, call) ==
  \E cap \in CapabilityFor(policy, server, call.tool) :
    /\ \A p \in Paths(call) : Clears(p, cap.allowed_paths, cap.blocked_paths)
    /\ \A d \in Domains(call) : Clears(d, cap.allowed_domains, cap.blocked_domains)
=============================================================================
