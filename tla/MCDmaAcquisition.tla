-------------------------- MODULE MCDmaAcquisition --------------------------
(***************************************************************************)
(* Instances of DmaAcquisition for TLC.  The clients are interchangeable,  *)
(* but the run that checks liveness cannot use that.                       *)
(***************************************************************************)
EXTENDS DmaAcquisition
=============================================================================
