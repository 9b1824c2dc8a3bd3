---------------------------- MODULE MCPscServer -----------------------------
(***************************************************************************)
(* Instances of PscServer for TLC.                                         *)
(***************************************************************************)
EXTENDS PscServer, TLC

\* Connections and daemons are interchangeable (safety runs only).
Symmetry == Permutations(Conn) \union Permutations(Sender)
=============================================================================
