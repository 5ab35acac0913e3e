\* The instance of Inspection_pass.
SPECIFICATION Spec
CONSTANTS
  Files <- MCFiles
  ServerId = "s"
  Calls <- MCCalls
  Payloads <- MCPayloads
  Contents <- MCContents
  TextSize <- MCTextSize
  Typed = {"key", "notes"}
  Width <- MCWidth
  Answer <- MCAnswer
  Accepts <- MCAccepts
INVARIANT WholeCopyIsFound
