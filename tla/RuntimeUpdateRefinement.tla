----------------------- MODULE RuntimeUpdateRefinement -----------------------
(* The update transaction implements AtomicInstall.                         *)
EXTENDS RuntimeUpdate

\* The release the installation shows: the one its ownership record names, if
\* every path agrees.  "torn" is no state of the abstract installation.
Shown == IF \E t \in Target : Shows(t)
         THEN CHOOSE t \in Target : Shows(t)
         ELSE "torn"

Atomic == INSTANCE AtomicInstall WITH
  Reader <- Runner,
  Sealed <- NoTarget,
  view <- IF pending = NoTarget THEN Shown ELSE NoTarget,
  outcomes <- IF pending = NoTarget THEN {} ELSE {journal.old, journal.new},
  readers <- {r \in Runner : runner[r] = "leased"}

\* To the processes that run from it, an update with its crashes, recoveries
\* and rollbacks is one atomic change from a whole release to a whole release,
\* made while nobody runs.
ImplementsAtomicInstall == Atomic!Spec

\* The scheduling recovery needs: a command that was begun goes on, and the
\* operator runs recover again and again while the marker is there.
Fairness ==
  \A u \in Updater : /\ WF_vars(UpdaterStep(u))
                     /\ SF_vars(pending # NoTarget /\ Begin(u, "recover"))

FairSpec == Spec /\ Fairness

\* An interrupted update whose backups were complete does not stay pending: as
\* faults cease and the operator closes all runtimes, which the command line
\* asks for first, recovery commits or restores, unless the user changed a file
\* of the transaction, which recovery refuses to touch.
RecoveryCompletes ==
  <>[](\A r \in Runner : runner[r] = "out")
    => ((pending # NoTarget /\ backup = NumPaths)
          ~> (pending = NoTarget \/ \E p \in Path : root[p] = Foreign))

\* docs/RUNTIME_UPDATES.md:87: the recovery command that status prints runs the
\* old updater out of the transaction's backup (out of the installation while
\* the journal says preparing), so that copy exists while recovery is needed.
RecoveryEntryExists ==
  pending # NoTarget /\ (\A u \in Updater : Idle(u))
    => journal.phase = "preparing" \/ backup = NumPaths
=============================================================================
