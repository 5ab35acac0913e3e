---------------------------- MODULE MCApproveCli ----------------------------
(***************************************************************************)
(* Small instances of ApproveCli.                                          *)
(***************************************************************************)
EXTENDS ApproveCli
=============================================================================
