--------------------------- MODULE MCRuntimeUpdate ---------------------------
(* Small instances of RuntimeUpdate.  Path 1 changes in every release, path 2 *)
(* exists from the second version on, path 3 only in the first, paths 4 and 5 *)
(* are the uninstaller and the ownership record.                              *)
EXTENDS RuntimeUpdateRefinement, TLC

CONSTANTS u1, u2, r1, t1, t2, t2b, t3, absent, foreign, none

\* t2b is a second target published under t2's version.
MCVer == (t1 :> 1) @@ (t2 :> 2) @@ (t2b :> 2) @@ (t3 :> 3)

MCRelease ==
  (t1 :> <<"a1", absent, "c1", "un1", "rec1">>) @@
  (t2 :> <<"a2", "b2", absent, "un2", "rec2">>) @@
  (t2b :> <<"a2b", "b2", absent, "un2b", "rec2b">>) @@
  (t3 :> <<"a3", "b2", absent, "un3", "rec3">>)

MCUpdater2 == {u1, u2}
MCRunner == {r1}
MCTarget == {t1, t2, t2b, t3}
=============================================================================
