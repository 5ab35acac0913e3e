------------------------------ MODULE MCRelay ------------------------------
(***************************************************************************)
(* Small instances of Relay.  Frames are told apart by their positions, so *)
(* there is no symmetry to use.                                            *)
(***************************************************************************)
EXTENDS Relay
=============================================================================
