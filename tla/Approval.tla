------------------------------ MODULE Approval ------------------------------
(***************************************************************************)
(* What provproxy/enforcement.py promises about a call that a human is     *)
(* asked about, with no broker, socket or timer in sight: the question has *)
(* at most one answer, the first one; the call is let through only after a *)
(* "yes"; every other end is a BLOCK; and what has been decided stays.     *)
(*                                                                         *)
(* state[k] "lost" stands for a question whose asking task ended before it *)
(* returned a Decision: it is here because the code reaches it, and it is  *)
(* never an ALLOW.                                                         *)
(***************************************************************************)
CONSTANT Calls

VARIABLES
  state,      \* per call: "idle", "open", "allow", "block" or "lost"
  answer      \* per call: what became of the question, "none" while it stands

vars == <<state, answer>>

Init ==
  /\ state = [k \in Calls |-> "idle"]
  /\ answer = [k \in Calls |-> "none"]

\* enforcement.resolve_ask_user is entered and the broker takes the question.
Ask(k) ==
  /\ state[k] = "idle"
  /\ state' = [state EXCEPT ![k] = "open"]
  /\ UNCHANGED answer

\* The broker cannot be reached: fail closed without a question.
Refuse(k) ==
  /\ state[k] = "idle"
  /\ state' = [state EXCEPT ![k] = "block"]
  /\ UNCHANGED answer

\* A human answers, once. Nobody may answer a question that was withdrawn.
Answer(k) ==
  /\ state[k] \in {"open", "lost"}
  /\ answer[k] = "none"
  /\ \E a \in {"yes", "no"} : answer' = [answer EXCEPT ![k] = a]
  /\ UNCHANGED state

\* The timer, a cancellation or the broker's shutdown takes questions back.
Withdraw ==
  /\ \E S \in SUBSET {k \in Calls : state[k] \in {"open", "lost"} /\ answer[k] = "none"} :
       answer' = [k \in Calls |-> IF k \in S THEN "withdrawn" ELSE answer[k]]
  /\ UNCHANGED state

Allow(k) ==
  /\ state[k] = "open" /\ answer[k] = "yes"
  /\ state' = [state EXCEPT ![k] = "allow"]
  /\ UNCHANGED answer

\* Only a question that is settled ends in BLOCK: never one still standing.
Block(k) ==
  /\ state[k] = "open" /\ answer[k] # "none"
  /\ state' = [state EXCEPT ![k] = "block"]
  /\ UNCHANGED answer

Lose(k) ==
  /\ state[k] = "open"
  /\ state' = [state EXCEPT ![k] = "lost"]
  /\ UNCHANGED answer

Next ==
  \/ Withdraw
  \/ \E k \in Calls :
       Ask(k) \/ Refuse(k) \/ Answer(k) \/ Allow(k) \/ Block(k) \/ Lose(k)

Spec == Init /\ [][Next]_vars
=============================================================================
