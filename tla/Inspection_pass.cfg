\* 14 policy files, 9 calls with the payloads that each may have, in any order and
\* with the TTL at any time.
SPECIFICATION Spec
CONSTANTS
  Files <- MCFiles
  ServerId = "s"
  Calls <- MCCalls
  Payloads <- MCPayloads
  Contents <- MCContents
  TextSize <- MCTextSize
  Typed = {"key", "notes"}
  Width <- MCWidth
  Answer <- MCAnswer
  Accepts <- MCAccepts
INVARIANTS
  TypeOK
  GuardedUnlessAllowed
  RefusalIsDeserved
  SensitiveNeverExempt
  MoreArgumentsNoWider
