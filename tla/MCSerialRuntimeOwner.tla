------------------------ MODULE MCSerialRuntimeOwner ------------------------
(***************************************************************************)
(* Instances of SerialRuntimeOwner for TLC.                                *)
(***************************************************************************)
EXTENDS SerialRuntimeOwner, TLC
=============================================================================
