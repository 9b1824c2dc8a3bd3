--------------------------- MODULE MCCapturePaths ---------------------------
(***************************************************************************)
(* Instance of CapturePaths for TLC.                                       *)
(***************************************************************************)
EXTENDS CapturePaths
=============================================================================
