-------------------------- MODULE MCApprovalBroker --------------------------
(***************************************************************************)
(* Small instances of ApprovalBroker.  The calls are interchangeable, and  *)
(* so are the clients that never fall behind.                              *)
(***************************************************************************)
EXTENDS ApprovalBroker, TLC
CallSymmetry == Permutations(Calls)
=============================================================================
