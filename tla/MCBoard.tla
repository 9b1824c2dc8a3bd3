------------------------------ MODULE MCBoard -------------------------------
(***************************************************************************)
(* Instances of Board for TLC.                                             *)
(***************************************************************************)
EXTENDS Board

\* Every command; valid, missing and invalid arguments.
MCLines ==
  ({"addr"} \X {"a", "b", "bad"}) \union ({"mask"} \X {"a", "bad"})
  \union ({"dhcp"} \X {"none", "no", "bad"}) \union ({"hwaddr"} \X {"a", "none"})
=============================================================================
