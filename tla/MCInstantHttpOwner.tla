------------------------ MODULE MCInstantHttpOwner ------------------------
(***************************************************************************)
(* Instances of InstantHttpOwner for TLC.                                  *)
(***************************************************************************)
EXTENDS InstantHttpOwner, TLC
=============================================================================
