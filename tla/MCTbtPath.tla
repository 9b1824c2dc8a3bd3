----------------------------- MODULE MCTbtPath ------------------------------
(***************************************************************************)
(* Instances of TbtPath for TLC.                                           *)
(***************************************************************************)
EXTENDS TbtPath
=============================================================================
