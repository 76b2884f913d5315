---------------------------- MODULE MCClipboard ----------------------------
(***************************************************************************)
(* Instances of Clipboard for TLC: two copies by other applications.       *)
(***************************************************************************)
EXTENDS Clipboard

TwoCopies == {"c1", "c2"}
=============================================================================
