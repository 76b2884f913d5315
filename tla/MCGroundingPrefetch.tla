------------------------ MODULE MCGroundingPrefetch ------------------------
(***************************************************************************)
(* Instances of GroundingPrefetch for TLC.                                 *)
(***************************************************************************)
EXTENDS GroundingPrefetch, TLC
=============================================================================
