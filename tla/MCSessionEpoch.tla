--------------------------- MODULE MCSessionEpoch ---------------------------
(***************************************************************************)
(* Instances of SessionEpoch for TLC.                                      *)
(***************************************************************************)
EXTENDS SessionEpoch, TLC
=============================================================================
