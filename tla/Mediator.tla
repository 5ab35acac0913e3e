------------------------------ MODULE Mediator ------------------------------
(***************************************************************************)
(* What a host may rely on when provproxy sits between it and a tool       *)
(* server, with no pipes, queues, tasks or matchers in sight: its frames   *)
(* meet their fates one by one and in the order it sent them, every frame  *)
(* has one fate, and a fate is final.  What it learns from a sensitive     *)
(* read, it learns from a read that was passed on.                         *)
(***************************************************************************)
EXTENDS Integers, Sequences, SequencesExt

CONSTANT Frame      \* what a host may send

VARIABLES
  frames,     \* the frames sent, in order
  fate,       \* what became of the first ones of them
  known       \* the reads, by position, whose content the host has

vars == <<frames, fate, known>>

Init == frames = <<>> /\ fate = <<>> /\ known = {}

Send ==
  /\ \E f \in Frame : frames' = Append(frames, f)
  /\ UNCHANGED <<fate, known>>

\* Only a tool call is ever refused.  A frame may be lost when a process ends,
\* and then nothing is passed on any more.
Settle ==
  /\ Len(fate) < Len(frames)
  /\ LET f == frames[Len(fate) + 1] IN
     \/ f.kind # "bad" /\ "lost" \notin ToSet(fate) /\ fate' = Append(fate, "passed")
     \/ f.kind # "other" /\ fate' = Append(fate, "refused")
     \/ fate' = Append(fate, "lost")
  /\ UNCHANGED <<frames, known>>

Learn ==
  /\ \E i \in 1..Len(fate) :
       /\ frames[i].kind = "read" /\ fate[i] = "passed"
       /\ known' = known \cup {i}
  /\ UNCHANGED <<frames, fate>>

Next == Send \/ Settle \/ Learn

Spec == Init /\ [][Next]_vars
=============================================================================
