-------------------------- MODULE MCEventReceiver ---------------------------
(***************************************************************************)
(* Instance of EventReceiver, with the daemon that reads it, for TLC.      *)
(***************************************************************************)
EXTENDS SaData
=============================================================================
