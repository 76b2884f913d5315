--------------------------- MODULE MCIntentClaim ---------------------------
(***************************************************************************)
(* Instances of IntentClaim for TLC: two controllers in processes of their *)
(* own, the first of which opened the session.                             *)
(***************************************************************************)
EXTENDS IntentClaim, TLC

CONSTANTS k1, k2

MCTwo == {k1, k2}
MCCreator == k1
=============================================================================
