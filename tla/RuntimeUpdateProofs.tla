------------------------- MODULE RuntimeUpdateProofs -------------------------
(***************************************************************************)
(* Proofs about RuntimeUpdate for any number of updaters, runners, targets *)
(* and files, and any bound on faults: first the inductive invariant and   *)
(* what follows from it, then that an update transaction implements        *)
(* AtomicInstall, and what no step of it may do.                           *)
(***************************************************************************)
EXTENDS RuntimeUpdateRefinement, TLAPS

\* The first k operations are done, the others are not (up to user edits).
Split(k) == \A p \in Path : root[p] \in {IF p <= k THEN New(p) ELSE Old(p), Foreign}

OldShown == Split(0) /\ registry = Ver[journal.old]
NewShown == Split(NumPaths) /\ registry = Ver[journal.new]

\* Both locks have the owners the program counters say, and maintenance and
\* pending updates exclude running processes.
GateInv ==
  /\ \A u \in Updater : (pc[u] # "idle") <=> (opLock = u)
  /\ \A u \in Updater : InTransaction(u) <=> (maint = u)
  /\ maint # Nobody => \A r \in Runner : ledger[r] = "none" /\ runner[r] = "out"
  /\ pending # NoTarget => \A r \in Runner : runner[r] # "leased"

\* What the durable journal says about the files while a transaction is open.
JournalInv ==
  /\ journal.phase # "none" => Ver[journal.new] > Ver[journal.old]
  /\ journal.phase \in {"backed_up", "applying", "verifying", "committed", "rolling_back"}
       => backup = NumPaths
  /\ pending \in {NoTarget, journal.new}
  /\ pending # NoTarget \/ maint # Nobody =>
       /\ journal.phase # "none"
       /\ \E k \in 0..NumPaths : Split(k)
       /\ journal.phase = "preparing" \/ backup < NumPaths => OldShown
       /\ journal.phase = "committed" => NewShown

\* What the updater that owns the transaction knows at each point of it.
AtPublish(u) == pc[u] = "publish" =>
  /\ mem[u] = journal.phase
  /\ op[u] = "apply" => pending = NoTarget /\ backup = 0 /\ journal.phase = "preparing"
  /\ op[u] = "rollback" => journal.phase = "committed"

AtApply(u) ==
  /\ pc[u] = "backup" => /\ mem[u] = "preparing" /\ journal.phase = "preparing"
                         /\ idx[u] >= 1 /\ backup = idx[u] - 1
  /\ pc[u] = "backed_up" => mem[u] = "backed_up" /\ journal.phase = "backed_up" /\ OldShown
  /\ pc[u] = "replace" => /\ mem[u] = "applying" /\ journal.phase = "applying"
                          /\ idx[u] >= 1 /\ Split(idx[u] - 1)
  /\ pc[u] = "registered" => journal.phase = "applying" /\ NewShown
  /\ pc[u] \in {"verify", "commit"} =>
       mem[u] = "verifying" /\ journal.phase = "verifying" /\ NewShown

AtEnd(u) ==
  /\ pc[u] = "confirm" => mem[u] = "committed" /\ journal.phase = "committed"
  /\ pc[u] = "clear" => \/ mem[u] = "committed" /\ journal.phase = "committed"
                        \/ mem[u] = "rolled_back" /\ journal.phase = "rolled_back" /\ OldShown

AtRollback(u) ==
  /\ pc[u] = "rollback" => (mem[u] = "preparing" => journal.phase = "preparing")
  /\ pc[u] = "restore" => /\ mem[u] = "rolling_back" /\ journal.phase = "rolling_back"
                          /\ \E k \in 0..idx[u] : Split(k)
  /\ pc[u] = "restored" => OldShown

UpdaterInv ==
  \A u \in Updater :
    /\ InTransaction(u) /\ pc[u] # "publish" => pending = journal.new
    /\ AtPublish(u) /\ AtApply(u) /\ AtEnd(u) /\ AtRollback(u)

IInv == /\ TypeOK
        /\ GateInv
        /\ JournalInv
        /\ UpdaterInv
        /\ UnsealedIsWhole
-----------------------------------------------------------------------------
\* A step of the specification is one of its actions.
LEMMA NextCases ==
  ASSUME Next
  PROVE  \/ \E u \in Updater : \/ \E c \in {"apply", "recover", "rollback"} : Begin(u, c)
                               \/ UpdaterStep(u) \/ ApplyError(u) \/ RollbackError(u)
                               \/ Crash(u)
         \/ \E r \in Runner : RunnerStep(r)
         \/ SettleCommand
         \/ \E t \in Target : Check(t) \/ Stage(t) \/ Install(t)
         \/ \E p \in Path : UserEdit(p)
  BY DEF Next

\* The contents the updater writes are contents of releases.
LEMMA ReleaseContent ==
  ASSUME NEW t \in Target
  PROVE  Release[t] \in [Path -> Content] /\ Ver[t] \in Nat
<1>1. \A p \in Path : Release[t][p] \in Content
  BY DEF Content
<1>2. Release[t] = [p \in Path |-> Release[t][p]]
  BY ReleaseAssumption
<1>3. Release[t] \in [Path -> Content]
  BY <1>1, <1>2, Zenon
<1> QED BY <1>3, TargetAssumption

\* No action of the updater, the lock, the ledger or the environment breaks
\* the type of a variable.
LEMMA TypeStep == ASSUME TypeOK, [Next]_vars PROVE TypeOK'
<1> USE DEF TypeOK, installVars, txVars, metaVars, gateVars, procVars
<1>1. ASSUME NEW u \in Updater, NEW c \in {"apply", "recover", "rollback"}, Begin(u, c) PROVE TypeOK'
  BY <1>1 DEF Begin, Goto
<1>2. ASSUME NEW u \in Updater, ApplyPrepare(u) PROVE TypeOK'
  BY <1>2, PathAssumption DEF ApplyPrepare, Cleared, Phases
<1>3. ASSUME NEW u \in Updater, LoadJournal(u) PROVE TypeOK'
  BY <1>3, PathAssumption DEF LoadJournal, Cleared, Phases
<1>4. ASSUME NEW u \in Updater, Refuse(u) PROVE TypeOK'
  BY <1>4, PathAssumption DEF Refuse, Cleared
<1>5. ASSUME NEW u \in Updater, PublishPending(u) PROVE TypeOK'
  BY <1>5, PathAssumption DEF PublishPending
<1>6. ASSUME NEW u \in Updater, BackupFile(u) PROVE TypeOK'
  BY <1>6, PathAssumption DEF BackupFile, Path
<1>7. ASSUME NEW u \in Updater, BackupMismatch(u) PROVE TypeOK'
  BY <1>7, PathAssumption DEF BackupMismatch, Goto
<1>8. ASSUME NEW u \in Updater, SaveBackedUp(u) PROVE TypeOK'
  BY <1>8, PathAssumption DEF SaveBackedUp, Goto, Save, Phases
<1>9. ASSUME NEW u \in Updater, SaveApplying(u) PROVE TypeOK'
  BY <1>9, PathAssumption DEF SaveApplying, Goto, Save, Phases
<1>10. ASSUME NEW u \in Updater, ReplaceFile(u) PROVE TypeOK'
  <2>1. idx[u] \in Path /\ idx'[u] \in 0..(NumPaths + 1)
    BY <1>10, PathAssumption DEF ReplaceFile, Path
  <2>2. Old(idx[u]) \in Content /\ New(idx[u]) \in Content
    BY <2>1, ReleaseContent DEF Old, New
  <2>3. root' \in [Path -> Content]
    BY <1>10, <2>1, <2>2 DEF ReplaceFile
  <2> QED BY <1>10, <2>1, <2>3 DEF ReplaceFile
<1>11. ASSUME NEW u \in Updater, ReplaceRefused(u) PROVE TypeOK'
  BY <1>11, PathAssumption DEF ReplaceRefused, Goto
<1>12. ASSUME NEW u \in Updater, SetVersion(u) PROVE TypeOK'
  BY <1>12, PathAssumption, ReleaseContent DEF SetVersion, Goto
<1>13. ASSUME NEW u \in Updater, SaveVerifying(u) PROVE TypeOK'
  BY <1>13, PathAssumption DEF SaveVerifying, Goto, Save, Phases
<1>14. ASSUME NEW u \in Updater, Verify(u) PROVE TypeOK'
  BY <1>14, PathAssumption DEF Verify, Goto
<1>15. ASSUME NEW u \in Updater, SaveCommitted(u) PROVE TypeOK'
  BY <1>15, PathAssumption DEF SaveCommitted, Goto, Save, Phases
<1>16. ASSUME NEW u \in Updater, ConfirmCommitted(u) PROVE TypeOK'
  BY <1>16, PathAssumption DEF ConfirmCommitted, Goto
<1>17. ASSUME NEW u \in Updater, ConfirmRefused(u) PROVE TypeOK'
  BY <1>17, PathAssumption DEF ConfirmRefused, Leave, Goto
<1>18. ASSUME NEW u \in Updater, ClearPending(u) PROVE TypeOK'
  BY <1>18, PathAssumption DEF ClearPending, Leave, Goto
<1>19. ASSUME NEW u \in Updater, RollbackStart(u) PROVE TypeOK'
  BY <1>19, PathAssumption DEF RollbackStart, Goto, Save, Phases
<1>20. ASSUME NEW u \in Updater, RollbackInvalid(u) PROVE TypeOK'
  BY <1>20, PathAssumption DEF RollbackInvalid, Goto
<1>21. ASSUME NEW u \in Updater, RestoreFile(u) PROVE TypeOK'
  <2>1. idx[u] \in Path /\ idx'[u] \in 0..(NumPaths + 1)
    BY <1>21, PathAssumption DEF RestoreFile, Path
  <2>2. Old(idx[u]) \in Content /\ New(idx[u]) \in Content
    BY <2>1, ReleaseContent DEF Old, New
  <2>3. root' \in [Path -> Content]
    BY <1>21, <2>1, <2>2 DEF RestoreFile
  <2> QED BY <1>21, <2>1, <2>3 DEF RestoreFile
<1>22. ASSUME NEW u \in Updater, RestoreRefused(u) PROVE TypeOK'
  BY <1>22, PathAssumption DEF RestoreRefused, Goto
<1>23. ASSUME NEW u \in Updater, RestoreRegistry(u) PROVE TypeOK'
  BY <1>23, PathAssumption, ReleaseContent DEF RestoreRegistry, Goto
<1>24. ASSUME NEW u \in Updater, SaveRolledBack(u) PROVE TypeOK'
  BY <1>24, PathAssumption DEF SaveRolledBack, Goto, Save, Phases
<1>25. ASSUME NEW u \in Updater, SaveRollbackFailed(u) PROVE TypeOK'
  BY <1>25, PathAssumption DEF SaveRollbackFailed, Leave, Goto, Phases
<1>26. ASSUME NEW u \in Updater, ApplyError(u) PROVE TypeOK'
  BY <1>26, PathAssumption, TargetAssumption DEF ApplyError, Goto, Phases
<1>27. ASSUME NEW u \in Updater, RollbackError(u) PROVE TypeOK'
  BY <1>27, PathAssumption, TargetAssumption DEF RollbackError, Goto
<1>28. ASSUME NEW u \in Updater, Crash(u) PROVE TypeOK'
  BY <1>28, TargetAssumption, PathAssumption DEF Crash, Leave, Goto
<1>29. ASSUME NEW r \in Runner, LeaseLock(r) PROVE TypeOK'
  BY <1>29 DEF LeaseLock
<1>30. ASSUME NEW r \in Runner, LeaseRefuse(r) PROVE TypeOK'
  BY <1>30 DEF LeaseRefuse
<1>31. ASSUME NEW r \in Runner, LeaseAdmit(r) PROVE TypeOK'
  BY <1>31 DEF LeaseAdmit
<1>32. ASSUME NEW r \in Runner, Register(r) PROVE TypeOK'
  BY <1>32 DEF Register
<1>33. ASSUME NEW r \in Runner, RunnerStop(r) PROVE TypeOK'
  BY <1>33 DEF RunnerStop
<1>34. ASSUME NEW r \in Runner, RunnerCrash(r) PROVE TypeOK'
  BY <1>34, TargetAssumption DEF RunnerCrash
<1>35. ASSUME NEW r \in Runner, SessionRecovered(r) PROVE TypeOK'
  BY <1>35 DEF SessionRecovered
<1>36. ASSUME SettleCommand PROVE TypeOK'
  BY <1>36 DEF SettleCommand, Cleared
<1>37. ASSUME NEW t \in Target, Check(t) PROVE TypeOK'
  BY <1>37 DEF Check
<1>38. ASSUME NEW t \in Target, Stage(t) PROVE TypeOK'
  BY <1>38 DEF Stage
<1>39. ASSUME NEW t \in Target, Install(t) PROVE TypeOK'
  BY <1>39, ReleaseContent DEF Install
<1>40. ASSUME NEW p \in Path, UserEdit(p) PROVE TypeOK'
  BY <1>40, TargetAssumption DEF UserEdit, Content
<1>41. CASE UNCHANGED vars
  BY <1>41 DEF vars
<1> QED
  BY <1>1, <1>2, <1>3, <1>4, <1>5, <1>6, <1>7, <1>8, <1>9, <1>10, <1>11, <1>12, <1>13,
     <1>14, <1>15, <1>16, <1>17, <1>18, <1>19, <1>20, <1>21, <1>22, <1>23, <1>24, <1>25,
     <1>26, <1>27, <1>28, <1>29, <1>30, <1>31, <1>32, <1>33, <1>34, <1>35, <1>36, <1>37,
     <1>38, <1>39, <1>40, <1>41, NextCases DEF UpdaterStep, RunnerStep

\* Every variable keeps its type: the initial state has it and every step
\* preserves it.
THEOREM TypeCorrect == Spec => []TypeOK
<1>1. Init => TypeOK
  BY PathAssumption, TargetAssumption, ReleaseContent DEF Init, TypeOK
<1>2. TypeOK /\ [Next]_vars => TypeOK'
  BY TypeStep
<1> QED BY <1>1, <1>2, PTL DEF Spec
-----------------------------------------------------------------------------
(* What the files show.                                                     *)

\* An ownership record belongs to one release, so the record tells which
\* release the installation shows.
LEMMA ShownRecord ==
  ASSUME NEW t \in Target, NEW o \in Target, Shows(t), root[Marker] = Release[o][Marker]
  PROVE  t = o
  BY PathAssumption, ReleaseAssumption DEF Shows, Marker, Path

\* An installation that shows one side of the transaction is at one of its ends.
LEMMA ShownEnds ==
  ASSUME NEW t \in Target, Shows(t), TypeOK
  PROVE  /\ t = journal.old => OldShown
         /\ t = journal.new => NewShown
  BY PathAssumption DEF Shows, OldShown, NewShown, Split, Old, New, Path

\* And at either end it shows that side.
LEMMA EndsShown ==
  ASSUME TypeOK
  PROVE  /\ OldShown => Shows(journal.old)
         /\ NewShown => Shows(journal.new)
  BY PathAssumption DEF Shows, OldShown, NewShown, Split, Old, New, Path

\* Files and releases that stay as they are leave a split where it is.
LEMMA SplitFrame ==
  ASSUME root' = root, journal'.old = journal.old, journal'.new = journal.new
  PROVE  /\ \A k \in 0..NumPaths : Split(k) => Split(k)'
         /\ registry' = registry /\ OldShown => OldShown'
         /\ registry' = registry /\ NewShown => NewShown'
  BY DEF Split, OldShown, NewShown, Old, New

\* The paths before the i-th are those up to it without it.
LEMMA PathOrder ==
  ASSUME NEW i \in Path, NEW p \in Path
  PROVE  (p <= i - 1) <=> (p <= i /\ p # i)
  BY PathAssumption DEF Path

\* Steps of runners, of check and stage and of the ledger leave the files, the
\* transaction and the updaters alone: only the locks are left to look at.
LEMMA FrameStep ==
  ASSUME IInv, TypeOK', GateInv', UNCHANGED <<installVars, txVars, maint, procVars>>
  PROVE  IInv'
<1> USE DEF IInv, installVars, txVars, procVars
<1>1. JournalInv'
  BY DEF JournalInv, OldShown, NewShown, Split, Old, New
<1>2. UpdaterInv'
  BY DEF UpdaterInv, AtPublish, AtApply, AtEnd, AtRollback, OldShown, NewShown, Split,
     Old, New, InTransaction
<1>3. UnsealedIsWhole'
  BY DEF UnsealedIsWhole, Shows
<1> QED BY <1>1, <1>2, <1>3

\* The inductive step: every action preserves the invariant.
LEMMA InvStep == ASSUME IInv, TypeOK', [Next]_vars PROVE IInv'
<1> USE PathAssumption, TargetAssumption
<1> USE DEF IInv, TypeOK, installVars, txVars, metaVars, gateVars, procVars, InTransaction
<1>1. ASSUME NEW u \in Updater, NEW c \in {"apply", "recover", "rollback"}, Begin(u, c) PROVE IInv'
  <2>1. GateInv'
    BY <1>1 DEF GateInv, Begin, Goto
  <2>2. JournalInv'
    BY <1>1 DEF GateInv, JournalInv, UpdaterInv, AtPublish, AtApply, AtEnd, AtRollback,
       OldShown, NewShown, Split, Old, New, Begin, Goto
  <2>3. UpdaterInv'
    BY <1>1 DEF GateInv, JournalInv, UpdaterInv, AtPublish, AtApply, AtEnd, AtRollback,
       OldShown, NewShown, Split, Old, New, Begin, Goto
  <2>4. UnsealedIsWhole'
    BY <1>1 DEF GateInv, JournalInv, UpdaterInv, AtEnd, UnsealedIsWhole, Shows, OldShown,
       NewShown, Split, Old, New, Begin, Goto
  <2> QED BY <2>1, <2>2, <2>3, <2>4
<1>2. ASSUME NEW u \in Updater, ApplyPrepare(u) PROVE IInv'
  <2>a. PICK o \in Target, n \in Target :
          /\ Applicable(o, n)
          /\ journal' = [phase |-> "preparing", old |-> o, new |-> n]
    BY <1>2 DEF ApplyPrepare
  <2>b. PICK t \in Target : Shows(t)
    BY <2>a DEF Applicable, NoPending, UnsealedIsWhole
  <2>c. t = o
    BY <2>a, <2>b, ShownRecord DEF Applicable, Whole, Recorded
  <2>d. OldShown' /\ Split(0)'
    BY <1>2, <2>a, <2>b, <2>c DEF ApplyPrepare, Shows, OldShown, Split, Old, New, Path
  <2>e. Ver[n] > Ver[o] /\ pending = NoTarget
    BY <2>a DEF Applicable, Compatible, NoPending
  <2>1. GateInv'
    BY <1>2 DEF GateInv, ApplyPrepare, Cleared, Path, MaintenanceFree, Admissible
  <2>2. JournalInv'
    BY <1>2, <2>a, <2>d, <2>e DEF ApplyPrepare, JournalInv
  <2>3. UpdaterInv'
    BY <1>2, <2>a, <2>d, <2>e DEF ApplyPrepare, GateInv, JournalInv, UpdaterInv,
       AtPublish, AtApply, AtEnd, AtRollback
  <2>4. UnsealedIsWhole'
    BY <1>2 DEF GateInv, JournalInv, UpdaterInv, AtEnd, UnsealedIsWhole, Shows, OldShown,
       NewShown, Split, Old, New, ApplyPrepare, Cleared, Path, MaintenanceFree, Admissible
  <2> QED BY <2>1, <2>2, <2>3, <2>4
<1>3. ASSUME NEW u \in Updater, LoadJournal(u) PROVE IInv'
  <2>a. /\ Admissible(op[u]) /\ journal.phase # "none"
        /\ op[u] = "rollback" => journal.phase = "committed"
    BY <1>3 DEF LoadJournal, Admissible, Recoverable, Revertible
  <2>b. /\ \E k \in 0..NumPaths : Split(k)
        /\ journal.phase = "preparing" \/ backup < NumPaths => OldShown
        /\ journal.phase = "committed" => NewShown
    <3>1. CASE pending # NoTarget
      BY <3>1 DEF JournalInv
    <3>2. CASE pending = NoTarget
      <4>1. PICK t \in Target : Shows(t)
        BY <3>2 DEF UnsealedIsWhole
      <4>2. /\ ValidTransaction(journal.phase)
            /\ IF journal.phase = "committed" THEN CommittedIntact
               ELSE root[Marker] \in {Absent, Old(Marker), New(Marker)}
        <5>1. Marker \in Path
          BY DEF Marker, Path
        <5>2. CASE op[u] = "recover"
          BY <1>3, <3>2, <5>1, <5>2 DEF LoadJournal, Admissible, Recoverable
        <5>3. CASE op[u] = "rollback"
          BY <1>3, <5>1, <5>3 DEF LoadJournal, Admissible, Revertible
        <5> QED BY <1>3, <5>2, <5>3 DEF LoadJournal
      <4>3. CASE journal.phase = "committed"
        <5>1. t = journal.new
          BY <4>1, <4>2, <4>3, ShownRecord DEF CommittedIntact, Whole, Recorded
        <5>2. NewShown /\ backup = NumPaths
          BY <4>1, <4>2, <4>3, <5>1, ShownEnds DEF ValidTransaction
        <5> QED BY <4>3, <5>2 DEF NewShown
      <4>4. CASE journal.phase = "preparing"
        <5>1. t = journal.old
          BY <4>1, <4>2, <4>4, ShownRecord DEF ValidTransaction, Whole, Recorded
        <5>2. OldShown
          BY <4>1, <5>1, ShownEnds
        <5> QED BY <4>4, <5>2 DEF OldShown
      <4>5. CASE journal.phase \notin {"committed", "preparing"}
        <5>1. backup = NumPaths
          BY <4>2, <4>5 DEF ValidTransaction
        <5>2. t \in {journal.old, journal.new}
          <6>1. root[Marker] \in {Release[t][Marker], Foreign}
            BY <4>1 DEF Shows, Marker, Path
          <6>2. root[Marker] # Foreign
            BY <4>2, <4>5, ReleaseAssumption DEF Old, New, Marker, Path
          <6>3. root[Marker] # Absent
            BY <6>1, <6>2, ReleaseAssumption
          <6> QED BY <4>1, <4>2, <4>5, <6>3, ShownRecord DEF Old, New
        <5>3. OldShown \/ NewShown
          BY <4>1, <5>2, ShownEnds
        <5> QED BY <4>5, <5>1, <5>3 DEF OldShown, NewShown
      <4> QED BY <4>3, <4>4, <4>5
    <3> QED BY <3>1, <3>2
  <2>c. /\ \E k \in 0..NumPaths : Split(k)'
        /\ journal.phase = "preparing" \/ backup < NumPaths => OldShown'
        /\ journal.phase = "committed" => NewShown'
    BY <1>3, <2>b, SplitFrame DEF LoadJournal
  <2>1. GateInv'
    BY <1>3 DEF GateInv, LoadJournal, Cleared, Path, MaintenanceFree, Admissible
  <2>2. JournalInv'
    BY <1>3, <2>a, <2>c DEF LoadJournal, JournalInv
  <2>3. UpdaterInv'
    BY <1>3, <2>a DEF LoadJournal, GateInv, UpdaterInv, AtPublish, AtApply, AtEnd,
       AtRollback
  <2>4. UnsealedIsWhole'
    BY <1>3 DEF GateInv, JournalInv, UpdaterInv, AtEnd, UnsealedIsWhole, Shows, OldShown,
       NewShown, Split, Old, New, LoadJournal, Cleared, Path, MaintenanceFree, Admissible
  <2> QED BY <2>1, <2>2, <2>3, <2>4
<1>4. ASSUME NEW u \in Updater, Refuse(u) PROVE IInv'
  <2>1. GateInv'
    BY <1>4 DEF GateInv, Refuse, Cleared, Path, MaintenanceFree, Admissible
  <2>2. JournalInv'
    BY <1>4 DEF GateInv, JournalInv, UpdaterInv, AtPublish, AtApply, AtEnd, AtRollback,
       OldShown, NewShown, Split, Old, New, Refuse, Cleared, Path, MaintenanceFree,
       Admissible
  <2>3. UpdaterInv'
    BY <1>4 DEF GateInv, JournalInv, UpdaterInv, AtPublish, AtApply, AtEnd, AtRollback,
       OldShown, NewShown, Split, Old, New, Refuse, Cleared, Path, MaintenanceFree,
       Admissible
  <2>4. UnsealedIsWhole'
    BY <1>4 DEF GateInv, JournalInv, UpdaterInv, AtEnd, UnsealedIsWhole, Shows, OldShown,
       NewShown, Split, Old, New, Refuse, Cleared, Path, MaintenanceFree, Admissible
  <2> QED BY <2>1, <2>2, <2>3, <2>4
<1>5. ASSUME NEW u \in Updater, PublishPending(u) PROVE IInv'
  <2>a. /\ maint = u /\ journal.phase # "none" /\ pending' = journal.new
        /\ \E k \in 0..NumPaths : Split(k)'
        /\ journal.phase = "preparing" \/ backup < NumPaths => OldShown'
        /\ journal.phase = "committed" => NewShown'
    BY <1>5, SplitFrame DEF PublishPending, GateInv, JournalInv
  <2>1. GateInv'
    BY <1>5 DEF GateInv, PublishPending, Path
  <2>2. JournalInv'
    BY <1>5, <2>a DEF PublishPending, JournalInv
  <2>3. UpdaterInv'
    BY <1>5, <2>a DEF PublishPending, GateInv, UpdaterInv, AtPublish, AtApply, AtEnd,
       AtRollback
  <2>4. UnsealedIsWhole'
    BY <1>5 DEF GateInv, JournalInv, UpdaterInv, AtEnd, UnsealedIsWhole, Shows, OldShown,
       NewShown, Split, Old, New, PublishPending, Path
  <2> QED BY <2>1, <2>2, <2>3, <2>4
<1>6. ASSUME NEW u \in Updater, BackupFile(u) PROVE IInv'
  <2>1. GateInv'
    BY <1>6 DEF GateInv, BackupFile, Path
  <2>2. JournalInv'
    BY <1>6 DEF GateInv, JournalInv, UpdaterInv, AtPublish, AtApply, AtEnd, AtRollback,
       OldShown, NewShown, Split, Old, New, BackupFile, Path
  <2>3. UpdaterInv'
    BY <1>6 DEF GateInv, JournalInv, UpdaterInv, AtPublish, AtApply, AtEnd, AtRollback,
       OldShown, NewShown, Split, Old, New, BackupFile, Path
  <2>4. UnsealedIsWhole'
    BY <1>6 DEF GateInv, JournalInv, UpdaterInv, AtEnd, UnsealedIsWhole, Shows, OldShown,
       NewShown, Split, Old, New, BackupFile, Path
  <2> QED BY <2>1, <2>2, <2>3, <2>4
<1>7. ASSUME NEW u \in Updater, BackupMismatch(u) PROVE IInv'
  <2>1. GateInv'
    BY <1>7 DEF GateInv, BackupMismatch, Goto, Path
  <2>2. JournalInv'
    BY <1>7 DEF GateInv, JournalInv, UpdaterInv, AtPublish, AtApply, AtEnd, AtRollback,
       OldShown, NewShown, Split, Old, New, BackupMismatch, Goto, Path
  <2>3. UpdaterInv'
    BY <1>7 DEF GateInv, JournalInv, UpdaterInv, AtPublish, AtApply, AtEnd, AtRollback,
       OldShown, NewShown, Split, Old, New, BackupMismatch, Goto, Path
  <2>4. UnsealedIsWhole'
    BY <1>7 DEF GateInv, JournalInv, UpdaterInv, AtEnd, UnsealedIsWhole, Shows, OldShown,
       NewShown, Split, Old, New, BackupMismatch, Goto, Path
  <2> QED BY <2>1, <2>2, <2>3, <2>4
<1>8. ASSUME NEW u \in Updater, SaveBackedUp(u) PROVE IInv'
  <2>1. GateInv'
    BY <1>8 DEF GateInv, SaveBackedUp, Goto, Save, Path
  <2>2. JournalInv'
    BY <1>8 DEF GateInv, JournalInv, UpdaterInv, AtPublish, AtApply, AtEnd, AtRollback,
       OldShown, NewShown, Split, Old, New, SaveBackedUp, Goto, Save, Path
  <2>3. UpdaterInv'
    BY <1>8 DEF GateInv, JournalInv, UpdaterInv, AtPublish, AtApply, AtEnd, AtRollback,
       OldShown, NewShown, Split, Old, New, SaveBackedUp, Goto, Save, Path
  <2>4. UnsealedIsWhole'
    BY <1>8 DEF GateInv, JournalInv, UpdaterInv, AtEnd, UnsealedIsWhole, Shows, OldShown,
       NewShown, Split, Old, New, SaveBackedUp, Goto, Save, Path
  <2> QED BY <2>1, <2>2, <2>3, <2>4
<1>9. ASSUME NEW u \in Updater, SaveApplying(u) PROVE IInv'
  <2>1. GateInv'
    BY <1>9 DEF GateInv, SaveApplying, Goto, Save, Path
  <2>2. JournalInv'
    BY <1>9 DEF GateInv, JournalInv, UpdaterInv, AtPublish, AtApply, AtEnd, AtRollback,
       OldShown, NewShown, Split, Old, New, SaveApplying, Goto, Save, Path
  <2>3. UpdaterInv'
    BY <1>9 DEF GateInv, JournalInv, UpdaterInv, AtPublish, AtApply, AtEnd, AtRollback,
       OldShown, NewShown, Split, Old, New, SaveApplying, Goto, Save, Path
  <2>4. UnsealedIsWhole'
    BY <1>9 DEF GateInv, JournalInv, UpdaterInv, AtEnd, UnsealedIsWhole, Shows, OldShown,
       NewShown, Split, Old, New, SaveApplying, Goto, Save, Path
  <2> QED BY <2>1, <2>2, <2>3, <2>4
<1>10. ASSUME NEW u \in Updater, ReplaceFile(u) PROVE IInv'
  <2>a. /\ maint = u /\ journal.phase = "applying" /\ backup = NumPaths
        /\ idx[u] \in Path /\ pending = journal.new /\ mem[u] = "applying"
    BY <1>10 DEF ReplaceFile, GateInv, JournalInv, UpdaterInv, AtApply
  <2>b. PICK i \in Path : i = idx[u]
    BY <2>a
  <2>c. Split(i)' /\ i \in 0..NumPaths
    <3>1. Split(i - 1)
      BY <1>10, <2>b DEF ReplaceFile, UpdaterInv, AtApply
    <3>2. \A p \in Path : (p <= i - 1) <=> (p <= i /\ p # i)
      BY PathOrder
    <3> QED BY <1>10, <2>a, <2>b, <3>1, <3>2 DEF ReplaceFile, Split, Old, New, Path
  <2>d. idx'[u] = i + 1 /\ idx'[u] - 1 = i
    BY <1>10, <2>b DEF ReplaceFile, Path
  <2>1. GateInv'
    BY <1>10 DEF GateInv, ReplaceFile, Path
  <2>2. JournalInv'
    BY <1>10, <2>a, <2>c DEF ReplaceFile, JournalInv
  <2>3. UpdaterInv'
    <3>1. ASSUME NEW v \in Updater, v # u PROVE pc'[v] \in {"idle", "begin"}
      BY <1>10, <3>1 DEF ReplaceFile, Goto, GateInv
    <3>2. /\ pending' = journal'.new
          /\ AtPublish(u)' /\ AtApply(u)' /\ AtEnd(u)' /\ AtRollback(u)'
      BY <1>10, <2>a, <2>c, <2>d DEF ReplaceFile, Goto, GateInv, UpdaterInv, AtPublish,
         AtApply, AtEnd, AtRollback, Path
    <3> QED BY <3>1, <3>2 DEF UpdaterInv, AtPublish, AtApply, AtEnd, AtRollback
  <2>4. UnsealedIsWhole'
    BY <1>10, <2>a DEF ReplaceFile, UnsealedIsWhole
  <2> QED BY <2>1, <2>2, <2>3, <2>4
<1>11. ASSUME NEW u \in Updater, ReplaceRefused(u) PROVE IInv'
  <2>1. GateInv'
    BY <1>11 DEF GateInv, ReplaceRefused, Goto, Path
  <2>2. JournalInv'
    BY <1>11 DEF GateInv, JournalInv, UpdaterInv, AtPublish, AtApply, AtEnd, AtRollback,
       OldShown, NewShown, Split, Old, New, ReplaceRefused, Goto, Path
  <2>3. UpdaterInv'
    BY <1>11 DEF GateInv, JournalInv, UpdaterInv, AtPublish, AtApply, AtEnd, AtRollback,
       OldShown, NewShown, Split, Old, New, ReplaceRefused, Goto, Path
  <2>4. UnsealedIsWhole'
    BY <1>11 DEF GateInv, JournalInv, UpdaterInv, AtEnd, UnsealedIsWhole, Shows,
       OldShown, NewShown, Split, Old, New, ReplaceRefused, Goto, Path
  <2> QED BY <2>1, <2>2, <2>3, <2>4
<1>12. ASSUME NEW u \in Updater, SetVersion(u) PROVE IInv'
  <2>a. /\ maint = u /\ journal.phase = "applying" /\ backup = NumPaths
        /\ pending = journal.new
        /\ \E k \in 0..NumPaths : Split(k)'
    BY <1>12, SplitFrame DEF SetVersion, GateInv, JournalInv, UpdaterInv, AtApply
  <2>1. GateInv'
    BY <1>12 DEF GateInv, SetVersion, Goto, Path
  <2>2. JournalInv'
    BY <1>12, <2>a DEF SetVersion, JournalInv
  <2>3. UpdaterInv'
    BY <1>12 DEF GateInv, JournalInv, UpdaterInv, AtPublish, AtApply, AtEnd, AtRollback,
       OldShown, NewShown, Split, Old, New, SetVersion, Goto, Path
  <2>4. UnsealedIsWhole'
    BY <1>12, <2>a DEF SetVersion, UnsealedIsWhole
  <2> QED BY <2>1, <2>2, <2>3, <2>4
<1>13. ASSUME NEW u \in Updater, SaveVerifying(u) PROVE IInv'
  <2>1. GateInv'
    BY <1>13 DEF GateInv, SaveVerifying, Goto, Save, Path
  <2>2. JournalInv'
    BY <1>13 DEF GateInv, JournalInv, UpdaterInv, AtPublish, AtApply, AtEnd, AtRollback,
       OldShown, NewShown, Split, Old, New, SaveVerifying, Goto, Save, Path
  <2>3. UpdaterInv'
    BY <1>13 DEF GateInv, JournalInv, UpdaterInv, AtPublish, AtApply, AtEnd, AtRollback,
       OldShown, NewShown, Split, Old, New, SaveVerifying, Goto, Save, Path
  <2>4. UnsealedIsWhole'
    BY <1>13 DEF GateInv, JournalInv, UpdaterInv, AtEnd, UnsealedIsWhole, Shows,
       OldShown, NewShown, Split, Old, New, SaveVerifying, Goto, Save, Path
  <2> QED BY <2>1, <2>2, <2>3, <2>4
<1>14. ASSUME NEW u \in Updater, Verify(u) PROVE IInv'
  <2>a. /\ maint = u /\ pending = journal.new
        /\ mem[u] = "verifying" /\ journal.phase = "verifying" /\ NewShown
    BY <1>14 DEF Verify, GateInv, UpdaterInv, AtApply
  <2>b. NewShown'
    BY <1>14, <2>a, SplitFrame DEF Verify
  <2>1. GateInv'
    BY <1>14 DEF GateInv, Verify, Goto, Path
  <2>2. JournalInv'
    BY <1>14 DEF GateInv, JournalInv, UpdaterInv, AtPublish, AtApply, AtEnd, AtRollback,
       OldShown, NewShown, Split, Old, New, Verify, Goto, Path
  <2>3. UpdaterInv'
    <3>1. ASSUME NEW v \in Updater, v # u PROVE pc'[v] \in {"idle", "begin"}
      BY <1>14, <3>1 DEF Verify, Goto, GateInv
    <3>2. /\ pending' = journal'.new
          /\ AtPublish(u)' /\ AtApply(u)' /\ AtEnd(u)' /\ AtRollback(u)'
      BY <1>14, <2>a, <2>b DEF Verify, Goto, GateInv, UpdaterInv, AtPublish, AtApply,
         AtEnd, AtRollback
    <3> QED BY <3>1, <3>2 DEF UpdaterInv, AtPublish, AtApply, AtEnd, AtRollback
  <2>4. UnsealedIsWhole'
    BY <1>14 DEF GateInv, JournalInv, UpdaterInv, AtEnd, UnsealedIsWhole, Shows,
       OldShown, NewShown, Split, Old, New, Verify, Goto, Path
  <2> QED BY <2>1, <2>2, <2>3, <2>4
<1>15. ASSUME NEW u \in Updater, SaveCommitted(u) PROVE IInv'
  <2>1. GateInv'
    BY <1>15 DEF GateInv, SaveCommitted, Goto, Save, Path
  <2>2. JournalInv'
    BY <1>15 DEF GateInv, JournalInv, UpdaterInv, AtPublish, AtApply, AtEnd, AtRollback,
       OldShown, NewShown, Split, Old, New, SaveCommitted, Goto, Save, Path
  <2>3. UpdaterInv'
    BY <1>15 DEF GateInv, JournalInv, UpdaterInv, AtPublish, AtApply, AtEnd, AtRollback,
       OldShown, NewShown, Split, Old, New, SaveCommitted, Goto, Save, Path
  <2>4. UnsealedIsWhole'
    BY <1>15 DEF GateInv, JournalInv, UpdaterInv, AtEnd, UnsealedIsWhole, Shows,
       OldShown, NewShown, Split, Old, New, SaveCommitted, Goto, Save, Path
  <2> QED BY <2>1, <2>2, <2>3, <2>4
<1>16. ASSUME NEW u \in Updater, ConfirmCommitted(u) PROVE IInv'
  <2>1. GateInv'
    BY <1>16 DEF GateInv, ConfirmCommitted, Goto, Path
  <2>2. JournalInv'
    BY <1>16 DEF GateInv, JournalInv, UpdaterInv, AtPublish, AtApply, AtEnd, AtRollback,
       OldShown, NewShown, Split, Old, New, ConfirmCommitted, Goto, Path
  <2>3. UpdaterInv'
    BY <1>16 DEF GateInv, JournalInv, UpdaterInv, AtPublish, AtApply, AtEnd, AtRollback,
       OldShown, NewShown, Split, Old, New, ConfirmCommitted, Goto, Path
  <2>4. UnsealedIsWhole'
    BY <1>16 DEF GateInv, JournalInv, UpdaterInv, AtEnd, UnsealedIsWhole, Shows,
       OldShown, NewShown, Split, Old, New, ConfirmCommitted, Goto, Path
  <2> QED BY <2>1, <2>2, <2>3, <2>4
<1>17. ASSUME NEW u \in Updater, ConfirmRefused(u) PROVE IInv'
  <2>1. GateInv'
    BY <1>17 DEF GateInv, ConfirmRefused, Leave, Goto, Path
  <2>2. JournalInv'
    BY <1>17 DEF GateInv, JournalInv, UpdaterInv, AtPublish, AtApply, AtEnd, AtRollback,
       OldShown, NewShown, Split, Old, New, ConfirmRefused, Leave, Goto, Path
  <2>3. UpdaterInv'
    BY <1>17 DEF GateInv, JournalInv, UpdaterInv, AtPublish, AtApply, AtEnd, AtRollback,
       OldShown, NewShown, Split, Old, New, ConfirmRefused, Leave, Goto, Path
  <2>4. UnsealedIsWhole'
    BY <1>17 DEF GateInv, JournalInv, UpdaterInv, AtEnd, UnsealedIsWhole, Shows,
       OldShown, NewShown, Split, Old, New, ConfirmRefused, Leave, Goto, Path
  <2> QED BY <2>1, <2>2, <2>3, <2>4
<1>18. ASSUME NEW u \in Updater, ClearPending(u) PROVE IInv'
  <2>a. maint = u /\ (OldShown \/ NewShown)
    BY <1>18 DEF ClearPending, GateInv, JournalInv, UpdaterInv, AtEnd
  <2>1. GateInv'
    BY <1>18 DEF GateInv, ClearPending, Leave, Goto, Path
  <2>2. JournalInv'
    BY <1>18 DEF GateInv, JournalInv, UpdaterInv, AtPublish, AtApply, AtEnd, AtRollback,
       OldShown, NewShown, Split, Old, New, ClearPending, Leave, Goto, Path
  <2>3. UpdaterInv'
    BY <1>18 DEF GateInv, JournalInv, UpdaterInv, AtPublish, AtApply, AtEnd, AtRollback,
       OldShown, NewShown, Split, Old, New, ClearPending, Leave, Goto, Path
  <2>4. UnsealedIsWhole'
    BY <1>18, <2>a, EndsShown DEF ClearPending, UnsealedIsWhole, Shows
  <2> QED BY <2>1, <2>2, <2>3, <2>4
<1>19. ASSUME NEW u \in Updater, RollbackStart(u) PROVE IInv'
  <2>a. /\ maint = u /\ journal.phase # "none" /\ pending = journal.new
        /\ \E k \in 0..NumPaths : Split(k)'
        /\ mem[u] = "preparing" => journal.phase = "preparing" /\ OldShown'
        /\ mem[u] # "preparing" => backup = NumPaths
    BY <1>19, SplitFrame DEF RollbackStart, Save, GateInv, JournalInv, UpdaterInv,
       AtRollback, ValidTransaction
  <2>1. GateInv'
    BY <1>19 DEF GateInv, RollbackStart, Goto, Save, Path
  <2>2. JournalInv'
    <3>1. CASE mem[u] = "preparing"
      BY <1>19, <2>a, <3>1, SplitFrame DEF RollbackStart, Goto, JournalInv
    <3>2. CASE mem[u] # "preparing"
      BY <1>19, <2>a, <3>2 DEF RollbackStart, Goto, Save, JournalInv
    <3> QED BY <3>1, <3>2
  <2>3. UpdaterInv'
    <3>1. CASE mem[u] = "preparing"
      BY <1>19, <2>a, <3>1 DEF RollbackStart, Goto, GateInv, UpdaterInv, AtPublish,
         AtApply, AtEnd, AtRollback
    <3>2. CASE mem[u] # "preparing"
      BY <1>19, <2>a, <3>2 DEF RollbackStart, Goto, Save, GateInv, UpdaterInv, AtPublish,
         AtApply, AtEnd, AtRollback
    <3> QED BY <3>1, <3>2
  <2>4. UnsealedIsWhole'
    BY <1>19 DEF GateInv, JournalInv, UpdaterInv, AtEnd, UnsealedIsWhole, Shows,
       OldShown, NewShown, Split, Old, New, RollbackStart, Goto, Save, Path
  <2> QED BY <2>1, <2>2, <2>3, <2>4
<1>20. ASSUME NEW u \in Updater, RollbackInvalid(u) PROVE IInv'
  <2>1. GateInv'
    BY <1>20 DEF GateInv, RollbackInvalid, Goto, Path
  <2>2. JournalInv'
    BY <1>20 DEF GateInv, JournalInv, UpdaterInv, AtPublish, AtApply, AtEnd, AtRollback,
       OldShown, NewShown, Split, Old, New, RollbackInvalid, Goto, Path
  <2>3. UpdaterInv'
    BY <1>20 DEF GateInv, JournalInv, UpdaterInv, AtPublish, AtApply, AtEnd, AtRollback,
       OldShown, NewShown, Split, Old, New, RollbackInvalid, Goto, Path
  <2>4. UnsealedIsWhole'
    BY <1>20 DEF GateInv, JournalInv, UpdaterInv, AtEnd, UnsealedIsWhole, Shows,
       OldShown, NewShown, Split, Old, New, RollbackInvalid, Goto, Path
  <2> QED BY <2>1, <2>2, <2>3, <2>4
<1>21. ASSUME NEW u \in Updater, RestoreFile(u) PROVE IInv'
  <2>a. /\ maint = u /\ journal.phase = "rolling_back" /\ backup = NumPaths
        /\ idx[u] \in Path /\ pending = journal.new
    BY <1>21 DEF RestoreFile, GateInv, JournalInv, UpdaterInv, AtRollback
  <2>b. PICK k \in 0..idx[u] : Split(k)
    BY <1>21 DEF RestoreFile, UpdaterInv, AtRollback
  <2>c. \E j \in 0..(idx[u] - 1) : Split(j)'
    <3>1. CASE k <= idx[u] - 1
      <4>1. Split(k)'
        BY <1>21, <2>a, <2>b, <3>1 DEF RestoreFile, Split, Old, New, Path
      <4>2. k \in 0..(idx[u] - 1)
        BY <2>a, <2>b, <3>1 DEF Path
      <4> QED BY <4>1, <4>2
    <3>2. CASE k = idx[u]
      <4>1. Split(k - 1)'
        BY <1>21, <2>a, <2>b, <3>2 DEF RestoreFile, Split, Old, New, Path
      <4>2. k - 1 \in 0..(idx[u] - 1)
        BY <2>a, <3>2 DEF Path
      <4> QED BY <4>1, <4>2
    <3> QED BY <2>a, <2>b, <3>1, <3>2 DEF Path
  <2>d. pending' # NoTarget /\ maint' # Nobody /\ mem[u] = "rolling_back"
    BY <1>21, <2>a DEF RestoreFile, UpdaterInv, AtRollback
  <2>e. \E j \in 0..idx'[u] : Split(j)'
    BY <1>21, <2>a, <2>c DEF RestoreFile
  <2>1. GateInv'
    BY <1>21 DEF GateInv, RestoreFile, Path
  <2>2. JournalInv'
    BY <1>21, <2>a, <2>c, <2>d DEF RestoreFile, JournalInv, Path
  <2>3. UpdaterInv'
    <3>1. ASSUME NEW v \in Updater, v # u PROVE pc'[v] \in {"idle", "begin"}
      BY <1>21, <3>1 DEF RestoreFile, Goto, GateInv
    <3>2. /\ pending' = journal'.new
          /\ AtPublish(u)' /\ AtApply(u)' /\ AtEnd(u)' /\ AtRollback(u)'
      BY <1>21, <2>a, <2>d, <2>e DEF RestoreFile, Goto, GateInv, UpdaterInv, AtPublish,
         AtApply, AtEnd, AtRollback, Path
    <3> QED BY <3>1, <3>2 DEF UpdaterInv, AtPublish, AtApply, AtEnd, AtRollback
  <2>4. UnsealedIsWhole'
    BY <2>d DEF UnsealedIsWhole
  <2> QED BY <2>1, <2>2, <2>3, <2>4
<1>22. ASSUME NEW u \in Updater, RestoreRefused(u) PROVE IInv'
  <2>1. GateInv'
    BY <1>22 DEF GateInv, RestoreRefused, Goto, Path
  <2>2. JournalInv'
    BY <1>22 DEF GateInv, JournalInv, UpdaterInv, AtPublish, AtApply, AtEnd, AtRollback,
       OldShown, NewShown, Split, Old, New, RestoreRefused, Goto, Path
  <2>3. UpdaterInv'
    BY <1>22 DEF GateInv, JournalInv, UpdaterInv, AtPublish, AtApply, AtEnd, AtRollback,
       OldShown, NewShown, Split, Old, New, RestoreRefused, Goto, Path
  <2>4. UnsealedIsWhole'
    BY <1>22 DEF GateInv, JournalInv, UpdaterInv, AtEnd, UnsealedIsWhole, Shows,
       OldShown, NewShown, Split, Old, New, RestoreRefused, Goto, Path
  <2> QED BY <2>1, <2>2, <2>3, <2>4
<1>23. ASSUME NEW u \in Updater, RestoreRegistry(u) PROVE IInv'
  <2>a. maint = u /\ pending = journal.new
    BY <1>23 DEF RestoreRegistry, GateInv, UpdaterInv
  <2>1. GateInv'
    BY <1>23 DEF GateInv, RestoreRegistry, Goto, Path
  <2>2. JournalInv'
    BY <1>23 DEF GateInv, JournalInv, UpdaterInv, AtPublish, AtApply, AtEnd, AtRollback,
       OldShown, NewShown, Split, Old, New, RestoreRegistry, Goto, Path
  <2>3. UpdaterInv'
    BY <1>23 DEF GateInv, JournalInv, UpdaterInv, AtPublish, AtApply, AtEnd, AtRollback,
       OldShown, NewShown, Split, Old, New, RestoreRegistry, Goto, Path
  <2>4. UnsealedIsWhole'
    BY <1>23, <2>a DEF RestoreRegistry, UnsealedIsWhole
  <2> QED BY <2>1, <2>2, <2>3, <2>4
<1>24. ASSUME NEW u \in Updater, SaveRolledBack(u) PROVE IInv'
  <2>a. maint = u /\ pending = journal.new /\ OldShown
    BY <1>24 DEF SaveRolledBack, GateInv, UpdaterInv, AtRollback
  <2>b. OldShown' /\ Split(0)'
    BY <1>24, <2>a, SplitFrame DEF SaveRolledBack, Save, OldShown
  <2>1. GateInv'
    BY <1>24 DEF GateInv, SaveRolledBack, Goto, Save, Path
  <2>2. JournalInv'
    <3>1. CASE \E t \in Target : Whole(t)
      BY <1>24, <2>a, <2>b, <3>1 DEF SaveRolledBack, Save, Goto, JournalInv
    <3>2. CASE ~(\E t \in Target : Whole(t))
      BY <1>24, <2>a, <2>b, <3>2, SplitFrame DEF SaveRolledBack, Save, Goto, JournalInv
    <3> QED BY <3>1, <3>2
  <2>3. UpdaterInv'
    BY <1>24, <2>a, <2>b DEF SaveRolledBack, Save, Goto, GateInv, UpdaterInv, AtPublish,
       AtApply, AtEnd, AtRollback
  <2>4. UnsealedIsWhole'
    BY <1>24 DEF GateInv, JournalInv, UpdaterInv, AtEnd, UnsealedIsWhole, Shows,
       OldShown, NewShown, Split, Old, New, SaveRolledBack, Goto, Save, Path
  <2> QED BY <2>1, <2>2, <2>3, <2>4
<1>25. ASSUME NEW u \in Updater, SaveRollbackFailed(u) PROVE IInv'
  <2>1. GateInv'
    BY <1>25 DEF GateInv, SaveRollbackFailed, Leave, Goto, Path
  <2>2. JournalInv'
    BY <1>25 DEF GateInv, JournalInv, UpdaterInv, AtPublish, AtApply, AtEnd, AtRollback,
       OldShown, NewShown, Split, Old, New, SaveRollbackFailed, Leave, Goto, Path
  <2>3. UpdaterInv'
    BY <1>25 DEF GateInv, JournalInv, UpdaterInv, AtPublish, AtApply, AtEnd, AtRollback,
       OldShown, NewShown, Split, Old, New, SaveRollbackFailed, Leave, Goto, Path
  <2>4. UnsealedIsWhole'
    BY <1>25 DEF GateInv, JournalInv, UpdaterInv, AtEnd, UnsealedIsWhole, Shows,
       OldShown, NewShown, Split, Old, New, SaveRollbackFailed, Leave, Goto, Path
  <2> QED BY <2>1, <2>2, <2>3, <2>4
<1>26. ASSUME NEW u \in Updater, ApplyError(u) PROVE IInv'
  <2>a. maint = u /\ pending = journal.new
    BY <1>26 DEF ApplyError, GateInv, UpdaterInv
  <2>1. GateInv'
    BY <1>26 DEF GateInv, ApplyError, Goto, Path
  <2>2. JournalInv'
    BY <1>26 DEF GateInv, JournalInv, UpdaterInv, AtPublish, AtApply, AtEnd, AtRollback,
       OldShown, NewShown, Split, Old, New, ApplyError, Goto, Path
  <2>3. UpdaterInv'
    <3>1. ASSUME NEW v \in Updater, v # u PROVE pc'[v] \in {"idle", "begin"}
      BY <1>26, <3>1 DEF ApplyError, Goto, GateInv
    <3>2. /\ pending' = journal'.new
          /\ AtPublish(u)' /\ AtApply(u)' /\ AtEnd(u)' /\ AtRollback(u)'
      BY <1>26, <2>a DEF ApplyError, Goto, GateInv, UpdaterInv, AtPublish, AtApply,
         AtEnd, AtRollback
    <3> QED BY <3>1, <3>2 DEF UpdaterInv, AtPublish, AtApply, AtEnd, AtRollback
  <2>4. UnsealedIsWhole'
    BY <1>26 DEF GateInv, JournalInv, UpdaterInv, AtEnd, UnsealedIsWhole, Shows,
       OldShown, NewShown, Split, Old, New, ApplyError, Goto, Path
  <2> QED BY <2>1, <2>2, <2>3, <2>4
<1>27. ASSUME NEW u \in Updater, RollbackError(u) PROVE IInv'
  <2>1. GateInv'
    BY <1>27 DEF GateInv, RollbackError, Goto, Path
  <2>2. JournalInv'
    BY <1>27 DEF GateInv, JournalInv, UpdaterInv, AtPublish, AtApply, AtEnd, AtRollback,
       OldShown, NewShown, Split, Old, New, RollbackError, Goto, Path
  <2>3. UpdaterInv'
    BY <1>27 DEF GateInv, JournalInv, UpdaterInv, AtPublish, AtApply, AtEnd, AtRollback,
       OldShown, NewShown, Split, Old, New, RollbackError, Goto, Path
  <2>4. UnsealedIsWhole'
    BY <1>27 DEF GateInv, JournalInv, UpdaterInv, AtEnd, UnsealedIsWhole, Shows,
       OldShown, NewShown, Split, Old, New, RollbackError, Goto, Path
  <2> QED BY <2>1, <2>2, <2>3, <2>4
<1>28. ASSUME NEW u \in Updater, Crash(u) PROVE IInv'
  <2>1. GateInv'
    BY <1>28 DEF GateInv, Crash, Leave, Goto, Path
  <2>2. JournalInv'
    BY <1>28 DEF GateInv, JournalInv, UpdaterInv, AtPublish, AtApply, AtEnd, AtRollback,
       OldShown, NewShown, Split, Old, New, Crash, Leave, Goto, Path
  <2>3. UpdaterInv'
    BY <1>28 DEF GateInv, JournalInv, UpdaterInv, AtPublish, AtApply, AtEnd, AtRollback,
       OldShown, NewShown, Split, Old, New, Crash, Leave, Goto, Path
  <2>4. UnsealedIsWhole'
    BY <1>28 DEF GateInv, JournalInv, UpdaterInv, AtEnd, UnsealedIsWhole, Shows,
       OldShown, NewShown, Split, Old, New, Crash, Leave, Goto, Path
  <2> QED BY <2>1, <2>2, <2>3, <2>4
<1>29. ASSUME NEW r \in Runner, LeaseLock(r) PROVE IInv'
  BY <1>29, FrameStep DEF GateInv, LeaseLock
<1>30. ASSUME NEW r \in Runner, LeaseRefuse(r) PROVE IInv'
  BY <1>30, FrameStep DEF GateInv, LeaseRefuse
<1>31. ASSUME NEW r \in Runner, LeaseAdmit(r) PROVE IInv'
  BY <1>31, FrameStep DEF GateInv, LeaseAdmit
<1>32. ASSUME NEW r \in Runner, Register(r) PROVE IInv'
  BY <1>32, FrameStep DEF GateInv, Register
<1>33. ASSUME NEW r \in Runner, RunnerStop(r) PROVE IInv'
  BY <1>33, FrameStep DEF GateInv, RunnerStop
<1>34. ASSUME NEW r \in Runner, RunnerCrash(r) PROVE IInv'
  BY <1>34, FrameStep DEF GateInv, RunnerCrash
<1>35. ASSUME NEW r \in Runner, SessionRecovered(r) PROVE IInv'
  BY <1>35, FrameStep DEF GateInv, SessionRecovered
<1>36. ASSUME SettleCommand PROVE IInv'
  BY <1>36, FrameStep DEF GateInv, SettleCommand, Cleared, MaintenanceFree
<1>37. ASSUME NEW t \in Target, Check(t) PROVE IInv'
  BY <1>37, FrameStep DEF GateInv, Check
<1>38. ASSUME NEW t \in Target, Stage(t) PROVE IInv'
  BY <1>38, FrameStep DEF GateInv, Stage
<1>39. ASSUME NEW t \in Target, Install(t) PROVE IInv'
  <2>a. PICK o \in Target :
          /\ Recorded(o)
          /\ \A p \in Path : Release[t][p] # Absent => root[p] = Absent \/ Release[o][p] = root[p]
          /\ root' = [p \in Path |-> IF Release[t][p] # Absent \/ root[p] = Release[o][p]
                                     THEN Release[t][p] ELSE root[p]]
    BY <1>39 DEF Install
  <2>b. PICK s \in Target : Shows(s)
    BY <1>39 DEF Install, UnsealedIsWhole
  <2>c. s = o
    BY <2>a, <2>b, ShownRecord DEF Recorded
  <2>d. Shows(t)'
    BY <1>39, <2>a, <2>b, <2>c DEF Install, Shows
  <2>1. GateInv'
    BY <1>39 DEF GateInv, Install, MaintenanceFree
  <2>2. JournalInv'
    BY <1>39 DEF GateInv, JournalInv, UpdaterInv, AtPublish, AtApply, AtEnd, AtRollback,
       OldShown, NewShown, Split, Old, New, Install, MaintenanceFree
  <2>3. UpdaterInv'
    BY <1>39 DEF GateInv, JournalInv, UpdaterInv, AtPublish, AtApply, AtEnd, AtRollback,
       OldShown, NewShown, Split, Old, New, Install, MaintenanceFree
  <2>4. UnsealedIsWhole'
    BY <2>d DEF UnsealedIsWhole
  <2> QED BY <2>1, <2>2, <2>3, <2>4
<1>40. ASSUME NEW p \in Path, UserEdit(p) PROVE IInv'
  <2>a. /\ \A k \in Nat : Split(k) => Split(k)'
        /\ OldShown => OldShown'
        /\ NewShown => NewShown'
    BY <1>40 DEF UserEdit, Split, OldShown, NewShown, Old, New
  <2>b. pending # NoTarget \/ maint # Nobody =>
          /\ journal.phase # "none"
          /\ \E k \in 0..NumPaths : Split(k)'
          /\ journal.phase = "preparing" \/ backup < NumPaths => OldShown'
          /\ journal.phase = "committed" => NewShown'
    BY <2>a DEF JournalInv
  <2>1. GateInv'
    BY <1>40 DEF GateInv, UserEdit, Path
  <2>2. JournalInv'
    BY <1>40, <2>b DEF UserEdit, JournalInv
  <2>3. UpdaterInv'
    <3> SUFFICES ASSUME NEW u \in Updater
                 PROVE  /\ InTransaction(u)' /\ pc'[u] # "publish" => pending' = journal'.new
                        /\ AtPublish(u)' /\ AtApply(u)' /\ AtEnd(u)' /\ AtRollback(u)'
      BY DEF UpdaterInv
    <3>1. InTransaction(u)' /\ pc'[u] # "publish" => pending' = journal'.new
      BY <1>40 DEF UserEdit, UpdaterInv
    <3>2. AtPublish(u)' /\ AtEnd(u)'
      BY <1>40, <2>a DEF UserEdit, UpdaterInv, AtPublish, AtEnd
    <3>3. AtApply(u)'
      BY <1>40, <2>a DEF UserEdit, UpdaterInv, AtApply, Split, Old, New
    <3>4. AtRollback(u)'
      BY <1>40, <2>a DEF UserEdit, UpdaterInv, AtRollback
    <3> QED BY <3>1, <3>2, <3>3, <3>4
  <2>4. UnsealedIsWhole'
    BY <1>40 DEF GateInv, JournalInv, UpdaterInv, AtEnd, UnsealedIsWhole, Shows,
       OldShown, NewShown, Split, Old, New, UserEdit, Path
  <2> QED BY <2>1, <2>2, <2>3, <2>4
<1>41. ASSUME UNCHANGED vars PROVE IInv'
  BY <1>41, FrameStep DEF GateInv, vars
<1> QED
  BY <1>1, <1>2, <1>3, <1>4, <1>5, <1>6, <1>7, <1>8, <1>9, <1>10, <1>11, <1>12, <1>13,
     <1>14, <1>15, <1>16, <1>17, <1>18, <1>19, <1>20, <1>21, <1>22, <1>23, <1>24, <1>25,
     <1>26, <1>27, <1>28, <1>29, <1>30, <1>31, <1>32, <1>33, <1>34, <1>35, <1>36, <1>37,
     <1>38, <1>39, <1>40, <1>41, NextCases DEF UpdaterStep, RunnerStep

\* The initial state satisfies the inductive invariant.
LEMMA InvInit == ASSUME Init PROVE IInv
<1>1. TypeOK
  BY PathAssumption, TargetAssumption, ReleaseContent DEF Init, TypeOK
<1>2. Shows(FirstTarget)
  BY TargetAssumption DEF Init, Shows
<1>3. UnsealedIsWhole
  BY <1>2, TargetAssumption DEF UnsealedIsWhole
<1>4. GateInv /\ JournalInv /\ UpdaterInv
  BY TargetAssumption DEF Init, GateInv, InTransaction, JournalInv, UpdaterInv,
     AtPublish, AtApply, AtEnd, AtRollback
<1> QED BY <1>1, <1>3, <1>4 DEF IInv

\* The locks, the journal, the files and the updater's own knowledge agree in
\* every reachable state, whatever crashes, faults and user edits came before.
THEOREM InductiveInvariant == Spec => []IInv
<1>1. Init => IInv
  BY InvInit
<1>2. IInv /\ [Next]_vars => IInv'
  BY InvStep, TypeStep DEF IInv
<1> QED BY <1>1, <1>2, PTL DEF Spec

\* Without the pending marker the installation is exactly one release.
THEOREM UnsealedInstallationIsWhole == Spec => []UnsealedIsWhole
<1>1. IInv => UnsealedIsWhole
  BY DEF IInv
<1> QED BY <1>1, InductiveInvariant, PTL

\* A process admitted by InstallationLease runs on exactly one release: the
\* marker is never there while one is admitted.
THEOREM LeasesSeeOneRelease == Spec => []LeaseSeesOneRelease
<1>1. IInv => LeaseSeesOneRelease
  BY DEF IInv, GateInv, UnsealedIsWhole, LeaseSeesOneRelease
<1> QED BY <1>1, InductiveInvariant, PTL

\* Replacement never starts on a partial backup.
THEOREM BackupsPrecedeReplacement == Spec => []BackupBeforeReplace
<1>1. IInv => BackupBeforeReplace
  <2> SUFFICES ASSUME IInv, pending # NoTarget, backup # NumPaths
               PROVE  \A p \in Path : root[p] \in {Old(p), Foreign}
    BY DEF BackupBeforeReplace
  <2>1. OldShown
    BY PathAssumption DEF IInv, TypeOK, JournalInv
  <2> QED BY <2>1 DEF OldShown, Split, Path
<1> QED BY <1>1, InductiveInvariant, PTL

\* While the ownership record names the new release, so does every other file.
THEOREM RecordIsNeverAhead == Spec => []RecordNeverAhead
<1>1. IInv => RecordNeverAhead
  <2> SUFFICES ASSUME IInv, pending # NoTarget, root[Marker] = New(Marker)
               PROVE  \A p \in Path : root[p] \in {New(p), Foreign}
    BY DEF RecordNeverAhead
  <2>1. PICK k \in 0..NumPaths : Split(k)
    BY DEF IInv, JournalInv
  <2>2. /\ journal.old \in Target /\ journal.new \in Target
        /\ Ver[journal.new] > Ver[journal.old]
        /\ Ver[journal.new] \in Nat /\ Ver[journal.old] \in Nat
    BY TargetAssumption DEF IInv, TypeOK, JournalInv
  <2>3. journal.new # journal.old
    BY <2>2
  <2>4. New(Marker) # Old(Marker) /\ New(Marker) # Foreign /\ Marker \in Path
    BY <2>2, <2>3, PathAssumption, ReleaseAssumption DEF New, Old, Marker, Path
  <2>5. k = NumPaths
    BY <2>1, <2>4, PathAssumption DEF Split, Marker
  <2> QED BY <2>1, <2>5, PathAssumption DEF Split, Path
<1> QED BY <1>1, InductiveInvariant, PTL

\* A transaction runs under the maintenance lock with every registration
\* settled and nobody running.
THEOREM MaintenanceSettled == Spec => []MaintenanceIsSettled
<1>1. IInv => MaintenanceIsSettled
  BY TargetAssumption DEF IInv, TypeOK, GateInv, MaintenanceIsSettled
<1> QED BY <1>1, InductiveInvariant, PTL

-----------------------------------------------------------------------------
(***************************************************************************)
(* The refinement, and what no step may do.                                *)
(*                                                                         *)
(* The argument: nobody edits the two records (RecordInv), so they name    *)
(* the one release an unsealed installation shows, and the journal names   *)
(* the two a sealed one can come to show.  That no version comes back by   *)
(* itself rests on what is staged being no newer than what was seen        *)
(* (StageInv) and on who can be undoing a committed transaction            *)
(* (CommitInv).                                                            *)
(***************************************************************************)

\* The ownership record is a release's: users change payload files only.
RecordInv == root[Marker] # Foreign

\* What is staged has been seen.
StageInv == stage # NoTarget => highwater # NoTarget /\ Ver[stage] <= Ver[highwater]

\* A committed transaction is rolled back by the command of that name only.
CommitInv ==
  \A u \in Updater :
    pc[u] \in {"rollback", "restore", "restored", "failed"} /\ journal.phase = "committed"
      => op[u] = "rollback"

\* Only a command publishes the marker.
PublishInv == \A u \in Updater : pc[u] = "publish" => op[u] # "none"

\* The variables of AtomicInstall, as RuntimeUpdateRefinement maps them.
View     == IF pending = NoTarget THEN Shown ELSE NoTarget
Outcomes == IF pending = NoTarget THEN {} ELSE {journal.old, journal.new}
Readers  == {r \in Runner : runner[r] = "leased"}
-----------------------------------------------------------------------------
\* The paths of the two records.
LEMMA RecordPaths == Marker \in Path /\ Uninstaller \in Path /\ Uninstaller < Marker
  BY PathAssumption DEF Marker, Uninstaller, Path

LEMMA RecordInit == ASSUME Init PROVE RecordInv
<1>1. Release[FirstTarget][Marker] # Foreign
  BY RecordPaths, ReleaseAssumption, TargetAssumption
<1> QED BY <1>1 DEF Init, RecordInv

\* Only three actions write files, and a user's edit.
LEMMA RootSteps ==
  ASSUME [Next]_vars
  PROVE  \/ root' = root
         \/ \E u \in Updater : ReplaceFile(u) \/ RestoreFile(u)
         \/ \E t \in Target : Install(t)
         \/ \E p \in Path : UserEdit(p)
<1> USE DEF installVars
<1>1. ASSUME NEW u \in Updater, NEW c \in {"apply", "recover", "rollback"}, Begin(u, c) PROVE root' = root
  BY <1>1 DEF Begin
<1>2. ASSUME NEW u \in Updater, UpdaterStep(u) PROVE root' = root \/ ReplaceFile(u) \/ RestoreFile(u)
  BY <1>2 DEF UpdaterStep, ApplyPrepare, LoadJournal, Refuse, PublishPending, BackupFile, BackupMismatch,
     SaveBackedUp, SaveApplying, ReplaceRefused, SetVersion, SaveVerifying, Verify, SaveCommitted,
     ConfirmCommitted, ConfirmRefused, ClearPending, RollbackStart, RollbackInvalid, RestoreRefused,
     RestoreRegistry, SaveRolledBack, SaveRollbackFailed
<1>3. ASSUME NEW u \in Updater, ApplyError(u) \/ RollbackError(u) \/ Crash(u) PROVE root' = root
  BY <1>3 DEF ApplyError, RollbackError, Crash
<1>4. ASSUME NEW r \in Runner, RunnerStep(r) PROVE root' = root
  BY <1>4 DEF RunnerStep, LeaseLock, LeaseRefuse, LeaseAdmit, Register, RunnerStop, RunnerCrash, SessionRecovered
<1>5. ASSUME SettleCommand PROVE root' = root
  BY <1>5 DEF SettleCommand
<1>6. ASSUME NEW t \in Target, Check(t) \/ Stage(t) PROVE root' = root
  BY <1>6 DEF Check, Stage
<1>7. CASE UNCHANGED vars
  BY <1>7 DEF vars
<1> QED
  BY <1>1, <1>2, <1>3, <1>4, <1>5, <1>6, <1>7, NextCases

\* A file with content of no release stays as it is.
LEMMA ForeignStays ==
  ASSUME IInv, [Next]_vars, NEW p \in Path, root[p] = Foreign
  PROVE  root'[p] = Foreign
<1> USE DEF IInv, TypeOK
<1>0. /\ \A q \in Path : Old(q) # Foreign /\ New(q) # Foreign
      /\ Absent # Foreign
  BY ReleaseAssumption DEF Old, New
<1>1. ASSUME NEW u \in Updater, ReplaceFile(u) PROVE root'[p] = Foreign
  <2>1. idx[u] \in Path /\ (Old(idx[u]) = New(idx[u]) \/ root[idx[u]] = Old(idx[u]))
    BY <1>1 DEF ReplaceFile
  <2>2. root' = root \/ (idx[u] # p /\ root' = [root EXCEPT ![idx[u]] = New(idx[u])])
    BY <1>0, <1>1, <2>1 DEF ReplaceFile
  <2> QED BY <2>2
<1>2. ASSUME NEW u \in Updater, RestoreFile(u) PROVE root'[p] = Foreign
  <2>1. idx[u] \in Path /\ root[idx[u]] # Foreign
    BY <1>0, <1>2 DEF RestoreFile, Restorable
  <2>2. idx[u] # p
    BY <2>1
  <2> QED BY <1>2, <2>2 DEF RestoreFile
<1>3. ASSUME NEW t \in Target, Install(t) PROVE root'[p] = Foreign
  <2>1. PICK o \in Target :
          /\ \A q \in Path : Release[t][q] # Absent => root[q] = Absent \/ Release[o][q] = root[q]
          /\ root' = [q \in Path |-> IF Release[t][q] # Absent \/ root[q] = Release[o][q]
                                     THEN Release[t][q] ELSE root[q]]
    BY <1>3 DEF Install
  <2>2. Release[o][p] # Foreign /\ Release[t][p] = Absent
    BY <2>1, <1>0, ReleaseAssumption
  <2> QED BY <2>1, <2>2
<1>4. ASSUME NEW q \in Path, UserEdit(q) PROVE root'[p] = Foreign
  BY <1>4 DEF UserEdit
<1> QED BY <1>1, <1>2, <1>3, <1>4, RootSteps

\* No step of the updater or the installer overwrites or removes content that
\* belongs to no release (_replace, _rollback, the installer's checks).
THEOREM UserEditsSurviveHolds == Spec => UserEditsSurvive
<1>1. IInv /\ [Next]_vars => [\A p \in Path : root[p] = Foreign => root'[p] = Foreign]_vars
  BY ForeignStays
<1> QED BY <1>1, InductiveInvariant, PTL DEF Spec, UserEditsSurvive

LEMMA RecordStep == ASSUME IInv, RecordInv, [Next]_vars PROVE RecordInv'
<1> USE DEF IInv, TypeOK, RecordInv
<1>0. \A t \in Target : Release[t][Marker] # Foreign /\ Release[t][Marker] # Absent
  BY RecordPaths, ReleaseAssumption
<1>1. ASSUME NEW u \in Updater, ReplaceFile(u) PROVE root'[Marker] # Foreign
  <2>1. idx[u] \in Path /\ New(Marker) # Foreign
    BY <1>0, <1>1 DEF ReplaceFile, New
  <2> QED BY <1>1, <2>1, RecordPaths DEF ReplaceFile
<1>2. ASSUME NEW u \in Updater, RestoreFile(u) PROVE root'[Marker] # Foreign
  <2>1. idx[u] \in Path /\ Old(Marker) # Foreign
    BY <1>0, <1>2 DEF RestoreFile, Old
  <2> QED BY <1>2, <2>1, RecordPaths DEF RestoreFile
<1>3. ASSUME NEW t \in Target, Install(t) PROVE root'[Marker] # Foreign
  BY <1>0, <1>3, RecordPaths DEF Install
<1>4. ASSUME NEW q \in Path, UserEdit(q) PROVE root'[Marker] # Foreign
  <2>1. q # Marker
    BY <1>4, PathAssumption DEF UserEdit, Marker, Uninstaller, Path
  <2> QED BY <1>4, <2>1, RecordPaths DEF UserEdit
<1> QED BY <1>1, <1>2, <1>3, <1>4, RootSteps
-----------------------------------------------------------------------------
(* What the installation shows.                                             *)

\* A release the files show is the one they show.
LEMMA OneShown ==
  ASSUME RecordInv, NEW t \in Target, Shows(t)
  PROVE  Shown = t
<1>1. \A s \in Target : Shows(s) => s = t
  BY RecordPaths, ReleaseAssumption DEF Shows, RecordInv
<1> QED BY <1>1, Zenon DEF Shown

LEMMA UnsealedShown ==
  ASSUME IInv, RecordInv, pending = NoTarget
  PROVE  Shown \in Target /\ Shows(Shown)
<1>1. PICK t \in Target : Shows(t)
  BY DEF IInv, UnsealedIsWhole
<1> QED BY <1>1, OneShown

\* Nothing changes for those who run when the files, or the two sides of a
\* transaction, stay as they are.
LEMMA Quiet ==
  ASSUME pending' = pending, Readers' = Readers,
         pending # NoTarget => journal'.old = journal.old /\ journal'.new = journal.new,
         pending = NoTarget => root' = root /\ registry' = registry
  PROVE  UNCHANGED Atomic!vars
<1>1. pending = NoTarget => Shown' = Shown
  BY DEF Shown, Shows
<1>2. View' = View /\ Outcomes' = Outcomes
  BY <1>1 DEF View, Outcomes
<1> QED BY <1>2 DEF Atomic!vars, View, Outcomes, Readers
-----------------------------------------------------------------------------
(* The steps.                                                               *)

LEMMA AdmitMaps ==
  ASSUME IInv, RecordInv, NEW r \in Runner, LeaseAdmit(r)
  PROVE  Atomic!Enter(r)
<1> USE DEF installVars, txVars
<1>1. /\ pending = NoTarget /\ pending' = NoTarget /\ root' = root /\ registry' = registry
      /\ runner' = [runner EXCEPT ![r] = "leased"] /\ runner \in [Runner -> {"out", "locked", "leased"}]
  BY DEF LeaseAdmit, IInv, TypeOK
<1>2. Shown' = Shown /\ Shown # NoTarget
  BY <1>1, UnsealedShown, TargetAssumption DEF Shown, Shows
<1>3. View # NoTarget /\ View' = View /\ Outcomes' = Outcomes
  BY <1>1, <1>2 DEF View, Outcomes
<1>4. Readers' = Readers \cup {r}
  BY <1>1 DEF Readers
<1> QED BY <1>3, <1>4 DEF Atomic!Enter, View, Outcomes, Readers

LEMMA LeaveMaps ==
  ASSUME IInv, NEW r \in Runner, RunnerStop(r) \/ RunnerCrash(r)
  PROVE  Atomic!Depart(r)
<1> USE DEF installVars, txVars
<1>1. /\ pending' = pending /\ journal' = journal /\ root' = root /\ registry' = registry
      /\ runner' = [runner EXCEPT ![r] = "out"] /\ runner \in [Runner -> {"out", "locked", "leased"}]
  BY DEF RunnerStop, RunnerCrash, IInv, TypeOK
<1>2. View' = View /\ Outcomes' = Outcomes
  BY <1>1 DEF View, Outcomes, Shown, Shows
<1>3. Readers' = Readers \ {r}
  BY <1>1 DEF Readers
<1> QED BY <1>2, <1>3 DEF Atomic!Depart, View, Outcomes, Readers

\* The marker seals the installation between the two sides of the journal.
LEMMA PublishMaps ==
  ASSUME IInv, RecordInv, NEW u \in Updater, PublishPending(u)
  PROVE  (\E t \in Target : Atomic!Seal(t)) \/ UNCHANGED Atomic!vars
<1> USE DEF installVars, gateVars
<1>1. /\ pc[u] = "publish" /\ pending' = journal.new /\ journal' = journal
      /\ root' = root /\ registry' = registry /\ runner' = runner
      /\ journal.old \in Target /\ journal.new \in Target
  BY DEF PublishPending, IInv, TypeOK
<1>2. maint = u /\ maint # Nobody
  BY <1>1, TargetAssumption DEF IInv, GateInv, InTransaction
<1>3. Readers = {} /\ Readers' = {}
  BY <1>1, <1>2 DEF Readers, IInv, GateInv
<1>4. CASE pending # NoTarget
  <2>1. pending' = pending
    BY <1>1, <1>4 DEF IInv, JournalInv
  <2> QED BY <1>1, <1>3, <1>4, <2>1, Quiet
<1>5. CASE pending = NoTarget
  <2>1. Shown \in Target /\ Shows(Shown)
    BY <1>5, UnsealedShown
  <2>2. PICK k \in 0..NumPaths : Split(k)
    BY <1>2 DEF IInv, JournalInv
  <2>3. root[Marker] \in {Old(Marker), New(Marker)}
    BY <2>2, RecordPaths DEF Split, RecordInv
  <2>4. Shown \in {journal.old, journal.new}
    BY <1>1, <2>1, <2>3, ShownRecord DEF Old, New
  <2>5. PICK t \in Target : {Shown, t} = {journal.old, journal.new}
    BY <1>1, <2>4
  <2>6. pending' # NoTarget
    BY <1>1, TargetAssumption
  <2>7. View = Shown /\ View # NoTarget /\ View' = NoTarget /\ Outcomes' = {View, t}
    BY <1>1, <1>5, <2>1, <2>5, <2>6, TargetAssumption DEF View, Outcomes
  <2> QED BY <1>3, <2>7 DEF Atomic!Seal, View, Outcomes, Readers
<1> QED BY <1>4, <1>5

\* Without the marker it shows the side the journal has settled on.
LEMMA ClearMaps ==
  ASSUME IInv, RecordInv, RecordInv', NEW u \in Updater, ClearPending(u)
  PROVE  \E t \in Target : Atomic!Unseal(t)
<1> USE DEF installVars
<1>1. /\ pc[u] = "clear" /\ pending' = NoTarget /\ journal' = journal
      /\ root' = root /\ registry' = registry /\ runner' = runner
      /\ journal.old \in Target /\ journal.new \in Target
  BY DEF ClearPending, IInv, TypeOK
<1>2. pending = journal.new /\ pending # NoTarget
  BY <1>1, TargetAssumption DEF IInv, UpdaterInv, InTransaction
<1>3. OldShown \/ NewShown
  BY <1>1, <1>2 DEF IInv, UpdaterInv, AtEnd, JournalInv
<1>4. PICK t \in {journal.old, journal.new} : Shows(t)
  BY <1>3, EndsShown DEF IInv
<1>5. Shows(t)'
  BY <1>1, <1>4 DEF Shows
<1>6. t \in Target /\ Shown' = t
  <2>1. t \in Target
    BY <1>1, <1>4
  <2>2. \A s \in Target : Shows(s)' => s = t
    BY <1>5, <2>1, RecordPaths, ReleaseAssumption DEF Shows, RecordInv
  <2> QED BY <1>5, <2>1, <2>2, Zenon DEF Shown
<1>7. View = NoTarget /\ View' = t /\ Outcomes = {journal.old, journal.new} /\ Outcomes' = {}
  BY <1>1, <1>2, <1>6 DEF View, Outcomes
<1>8. Readers' = Readers
  BY <1>1 DEF Readers
<1> QED BY <1>4, <1>6, <1>7, <1>8 DEF Atomic!Unseal, View, Outcomes, Readers

\* The installer replaces one release by another while nobody runs.
LEMMA InstallMaps ==
  ASSUME IInv, RecordInv, RecordInv', NEW t \in Target, Install(t)
  PROVE  Atomic!Replace(t)
<1> USE DEF txVars, gateVars
<1>1. /\ pending = NoTarget /\ pending' = NoTarget /\ registry' = Ver[t] /\ runner' = runner
      /\ \A r \in Runner : runner[r] = "out"
  BY DEF Install, MaintenanceFree
<1>2. PICK o \in Target :
        /\ Recorded(o)
        /\ \A p \in Path : Release[t][p] # Absent => root[p] = Absent \/ Release[o][p] = root[p]
        /\ root' = [p \in Path |-> IF Release[t][p] # Absent \/ root[p] = Release[o][p]
                                   THEN Release[t][p] ELSE root[p]]
  BY DEF Install
<1>3. Shown \in Target /\ Shows(Shown)
  BY <1>1, UnsealedShown
<1>4. Shown = o
  BY <1>2, <1>3, ShownRecord DEF Recorded
<1>5. \A p \in Path : root[p] \in {Release[o][p], Foreign}
  BY <1>3, <1>4 DEF Shows
<1>6. Shows(t)'
  BY <1>1, <1>2, <1>5 DEF Shows
<1>7. Shown' = t
  <2>1. \A s \in Target : Shows(s)' => s = t
    BY <1>6, RecordPaths, ReleaseAssumption DEF Shows, RecordInv
  <2> QED BY <1>6, <2>1, Zenon DEF Shown
<1>8. View # NoTarget /\ View' = t /\ Outcomes' = Outcomes
  BY <1>1, <1>3, <1>7, TargetAssumption DEF View, Outcomes
<1>9. Readers = {} /\ Readers' = {}
  BY <1>1 DEF Readers
<1> QED BY <1>8, <1>9 DEF Atomic!Replace, View, Outcomes, Readers

\* A user's edit leaves the release that is shown.
LEMMA EditMaps ==
  ASSUME IInv, RecordInv, RecordInv', NEW q \in Path, UserEdit(q)
  PROVE  UNCHANGED Atomic!vars
<1> USE DEF txVars, gateVars
<1>1. /\ pending' = pending /\ journal' = journal /\ registry' = registry /\ runner' = runner
      /\ root' = [root EXCEPT ![q] = Foreign] /\ root \in [Path -> Content]
  BY DEF UserEdit, IInv, TypeOK
<1>2. Readers' = Readers
  BY <1>1 DEF Readers
<1>3. CASE pending # NoTarget
  BY <1>1, <1>2, <1>3, Quiet
<1>4. CASE pending = NoTarget
  <2>1. PICK t \in Target : Shows(t)
    BY <1>4 DEF IInv, UnsealedIsWhole
  <2>2. Shows(t)'
    BY <1>1, <2>1 DEF Shows
  <2>3. Shown = t
    BY <2>1, OneShown
  <2>4. Shown' = t
    <3>1. \A s \in Target : Shows(s)' => s = t
      BY <2>2, RecordPaths, ReleaseAssumption DEF Shows, RecordInv
    <3> QED BY <2>2, <3>1, Zenon DEF Shown
  <2>5. View' = View /\ Outcomes' = Outcomes
    BY <1>1, <1>4, <2>3, <2>4 DEF View, Outcomes
  <2> QED BY <1>2, <2>5 DEF Atomic!vars, View, Outcomes, Readers
<1> QED BY <1>3, <1>4

\* The other steps of an updater are not seen from outside: they leave the
\* files alone, or the marker is there.
LEMMA UpdaterQuiet ==
  ASSUME IInv, NEW u \in Updater, UpdaterStep(u), ~PublishPending(u), ~ClearPending(u)
  PROVE  UNCHANGED Atomic!vars
<1> USE DEF installVars, txVars, gateVars, Save, IInv, TypeOK
<1>1. CASE ApplyPrepare(u)
  <2>1. pending = NoTarget
    BY <1>1 DEF ApplyPrepare, Applicable, NoPending
  <2> QED BY <1>1, <2>1, Quiet DEF ApplyPrepare, Readers
<1>2. CASE ReplaceFile(u) \/ RestoreFile(u) \/ SetVersion(u) \/ RestoreRegistry(u)
  <2>1. pending # NoTarget
    BY <1>2, TargetAssumption DEF UpdaterInv, InTransaction, ReplaceFile, RestoreFile,
       SetVersion, RestoreRegistry
  <2>2. pending' = pending /\ journal' = journal /\ Readers' = Readers
    BY <1>2 DEF ReplaceFile, RestoreFile, SetVersion, RestoreRegistry, Readers
  <2> QED BY <2>1, <2>2, Quiet
<1>3. CASE \/ LoadJournal(u) \/ Refuse(u) \/ BackupFile(u) \/ BackupMismatch(u)
           \/ ReplaceRefused(u) \/ Verify(u) \/ ConfirmCommitted(u) \/ ConfirmRefused(u)
           \/ RollbackInvalid(u) \/ RestoreRefused(u)
  <2>1. pending' = pending /\ journal' = journal /\ root' = root /\ registry' = registry
        /\ runner' = runner
    BY <1>3 DEF LoadJournal, Refuse, BackupFile, BackupMismatch, ReplaceRefused, Verify,
       ConfirmCommitted, ConfirmRefused, RollbackInvalid, RestoreRefused
  <2> QED BY <2>1, Quiet DEF Readers
<1>4. CASE \/ SaveBackedUp(u) \/ SaveApplying(u) \/ SaveVerifying(u) \/ SaveCommitted(u)
           \/ RollbackStart(u) \/ SaveRolledBack(u) \/ SaveRollbackFailed(u)
  <2>1. pending' = pending /\ root' = root /\ registry' = registry /\ runner' = runner
    BY <1>4 DEF SaveBackedUp, SaveApplying, SaveVerifying, SaveCommitted, RollbackStart,
       SaveRolledBack, SaveRollbackFailed
  <2>2. journal'.old = journal.old /\ journal'.new = journal.new
    BY <1>4 DEF SaveBackedUp, SaveApplying, SaveVerifying, SaveCommitted, RollbackStart,
       SaveRolledBack, SaveRollbackFailed
  <2> QED BY <2>1, <2>2, Quiet DEF Readers
<1> QED BY <1>1, <1>2, <1>3, <1>4 DEF UpdaterStep

\* Nor are faults of an updater, the ledger, check and stage, or a runner that
\* has not been admitted.
LEMMA OtherQuiet ==
  ASSUME IInv,
         \/ \E u \in Updater : \/ \E c \in {"apply", "recover", "rollback"} : Begin(u, c)
                               \/ ApplyError(u) \/ RollbackError(u) \/ Crash(u)
         \/ \E r \in Runner : LeaseLock(r) \/ LeaseRefuse(r) \/ Register(r) \/ SessionRecovered(r)
         \/ SettleCommand
         \/ \E t \in Target : Check(t) \/ Stage(t)
         \/ UNCHANGED vars
  PROVE  UNCHANGED Atomic!vars
<1> USE DEF installVars, txVars, gateVars
<1>1. pending' = pending /\ journal' = journal /\ root' = root /\ registry' = registry
  BY DEF Begin, ApplyError, RollbackError, Crash, LeaseLock, LeaseRefuse, Register,
     SessionRecovered, SettleCommand, Check, Stage, vars
<1>2. CASE \E r \in Runner : LeaseLock(r) \/ LeaseRefuse(r)
  <2>1. PICK r \in Runner : LeaseLock(r) \/ LeaseRefuse(r)
    BY <1>2
  <2>2. \A q \in Runner : runner'[q] = "leased" <=> runner[q] = "leased"
    BY <2>1 DEF LeaseLock, LeaseRefuse, IInv, TypeOK
  <2> QED BY <1>1, <2>2, Quiet DEF Readers
<1>3. CASE ~\E r \in Runner : LeaseLock(r) \/ LeaseRefuse(r)
  <2>1. runner' = runner
    BY <1>3 DEF Begin, ApplyError, RollbackError, Crash, Register, SessionRecovered,
       SettleCommand, Check, Stage, vars
  <2> QED BY <1>1, <2>1, Quiet DEF Readers
<1> QED BY <1>2, <1>3

LEMMA InitMaps == ASSUME Init PROVE Atomic!Init
<1>1. RecordInv
  BY RecordInit
<1>2. FirstTarget \in Target /\ Shows(FirstTarget)
  BY TargetAssumption DEF Init, Shows
<1>3. Shown = FirstTarget
  BY <1>1, <1>2, OneShown
<1>4. View = FirstTarget /\ Outcomes = {} /\ Readers = {}
  BY <1>3 DEF Init, View, Outcomes, Readers
<1> QED BY <1>4 DEF Atomic!Init, View, Outcomes, Readers

LEMMA StepMaps ==
  ASSUME IInv, RecordInv, RecordInv', [Next]_vars
  PROVE  [Atomic!Next]_(Atomic!vars)
<1>1. ASSUME NEW u \in Updater, UpdaterStep(u) PROVE [Atomic!Next]_(Atomic!vars)
  <2>1. CASE PublishPending(u)
    BY <2>1, PublishMaps DEF Atomic!Next
  <2>2. CASE ClearPending(u)
    BY <2>2, ClearMaps DEF Atomic!Next
  <2>3. CASE ~PublishPending(u) /\ ~ClearPending(u)
    BY <1>1, <2>3, UpdaterQuiet
  <2> QED BY <2>1, <2>2, <2>3
<1>2. ASSUME NEW r \in Runner, RunnerStep(r) PROVE [Atomic!Next]_(Atomic!vars)
  <2>1. CASE LeaseAdmit(r)
    BY <2>1, AdmitMaps DEF Atomic!Next
  <2>2. CASE RunnerStop(r) \/ RunnerCrash(r)
    BY <2>2, LeaveMaps DEF Atomic!Next
  <2>3. CASE LeaseLock(r) \/ LeaseRefuse(r) \/ Register(r) \/ SessionRecovered(r)
    BY <2>3, OtherQuiet
  <2> QED BY <1>2, <2>1, <2>2, <2>3 DEF RunnerStep
<1>3. ASSUME NEW t \in Target, Install(t) PROVE [Atomic!Next]_(Atomic!vars)
  BY <1>3, InstallMaps DEF Atomic!Next
<1>4. ASSUME NEW p \in Path, UserEdit(p) PROVE [Atomic!Next]_(Atomic!vars)
  BY <1>4, EditMaps
<1> QED BY <1>1, <1>2, <1>3, <1>4, OtherQuiet, NextCases

\* The ownership record belongs to a release in every reachable state.
LEMMA RecordsHold == Spec => [](IInv /\ RecordInv)
<1>1. Init => RecordInv
  BY RecordInit
<1>2. IInv /\ RecordInv /\ [Next]_vars => RecordInv'
  BY RecordStep
<1> QED BY <1>1, <1>2, InductiveInvariant, PTL DEF Spec

\* To the processes that run from the installation an update, with its crashes,
\* recoveries and rollbacks, is one atomic change from a release to a release,
\* made while nobody runs: every step is a step of AtomicInstall or a stutter.
THEOREM UpdateIsAtomic == Spec => ImplementsAtomicInstall
<1>1. Init => Atomic!Init
  BY InitMaps
<1>2. IInv /\ RecordInv /\ (IInv /\ RecordInv)' /\ [Next]_vars => [Atomic!Next]_(Atomic!vars)
  BY StepMaps
<1> QED BY <1>1, <1>2, RecordsHold, PTL DEF Spec, ImplementsAtomicInstall, Atomic!Spec
-----------------------------------------------------------------------------
(* Versions.                                                                *)

\* Only check, stage and apply look at the newest target seen.
LEMMA MetaSteps ==
  ASSUME [Next]_vars
  PROVE  \/ UNCHANGED metaVars
         \/ \E t \in Target : Check(t) \/ Stage(t)
<1>1. ASSUME NEW u \in Updater, NEW c \in {"apply", "recover", "rollback"}, Begin(u, c)
      PROVE  UNCHANGED metaVars
  BY <1>1 DEF Begin
<1>2. ASSUME NEW u \in Updater, UpdaterStep(u) PROVE UNCHANGED metaVars
  BY <1>2 DEF UpdaterStep, ApplyPrepare, LoadJournal, Refuse, PublishPending, BackupFile, BackupMismatch,
     SaveBackedUp, SaveApplying, ReplaceFile, ReplaceRefused, SetVersion, SaveVerifying, Verify, SaveCommitted,
     ConfirmCommitted, ConfirmRefused, ClearPending, RollbackStart, RollbackInvalid, RestoreFile,
     RestoreRefused, RestoreRegistry, SaveRolledBack, SaveRollbackFailed
<1>3. ASSUME NEW u \in Updater, ApplyError(u) \/ RollbackError(u) \/ Crash(u) PROVE UNCHANGED metaVars
  BY <1>3 DEF ApplyError, RollbackError, Crash
<1>4. ASSUME NEW r \in Runner, RunnerStep(r) PROVE UNCHANGED metaVars
  BY <1>4 DEF RunnerStep, LeaseLock, LeaseRefuse, LeaseAdmit, Register, RunnerStop, RunnerCrash, SessionRecovered
<1>5. ASSUME SettleCommand PROVE UNCHANGED metaVars
  BY <1>5 DEF SettleCommand
<1>6. ASSUME NEW t \in Target, Install(t) PROVE UNCHANGED metaVars
  BY <1>6 DEF Install
<1>7. ASSUME NEW p \in Path, UserEdit(p) PROVE UNCHANGED metaVars
  BY <1>7 DEF UserEdit
<1>8. CASE UNCHANGED vars
  BY <1>8 DEF vars
<1> QED BY <1>1, <1>2, <1>3, <1>4, <1>5, <1>6, <1>7, <1>8, NextCases

LEMMA StageStep == ASSUME IInv, StageInv, [Next]_vars PROVE StageInv'
<1>1. ASSUME NEW t \in Target, Check(t) PROVE StageInv'
  BY <1>1, TargetAssumption DEF Check, StageInv, HighwaterAllows, IInv, TypeOK
<1>2. ASSUME NEW t \in Target, Stage(t) PROVE StageInv'
  BY <1>2, TargetAssumption DEF Stage, StageInv
<1> QED BY <1>1, <1>2, MetaSteps DEF StageInv, metaVars

LEMMA HighwaterStep ==
  ASSUME IInv, [Next]_vars, highwater # NoTarget
  PROVE  highwater' = highwater \/ Ver[highwater'] > Ver[highwater]
<1>1. ASSUME NEW t \in Target, Check(t) \/ Stage(t)
      PROVE  highwater' = highwater \/ Ver[highwater'] > Ver[highwater]
  BY <1>1, TargetAssumption DEF Check, Stage, HighwaterAllows, IInv, TypeOK
<1> QED BY <1>1, MetaSteps DEF metaVars

\* What a step does to the journal.
LEMMA JournalSteps ==
  ASSUME IInv, [Next]_vars
  PROVE  \/ journal' = journal
         \/ \E u \in Updater : ApplyPrepare(u)
         \/ \E u \in Updater :
              /\ \/ /\ pc[u] \in {"backup", "backed_up", "registered", "commit"}
                    /\ journal'.phase \in {"backed_up", "applying", "verifying", "committed"}
                 \/ /\ pc[u] \in {"rollback", "restored", "failed"}
                    /\ journal'.phase \in {"rolling_back", "rolled_back", "rollback_failed"}
<1> USE DEF installVars, txVars, Save, IInv, TypeOK
<1>1. ASSUME NEW u \in Updater, NEW c \in {"apply", "recover", "rollback"}, Begin(u, c)
      PROVE  journal' = journal
  BY <1>1 DEF Begin
<1>2. ASSUME NEW u \in Updater,
             \/ LoadJournal(u) \/ Refuse(u) \/ PublishPending(u) \/ BackupFile(u) \/ BackupMismatch(u)
             \/ ReplaceFile(u) \/ ReplaceRefused(u) \/ SetVersion(u) \/ Verify(u) \/ ConfirmCommitted(u)
             \/ ConfirmRefused(u) \/ ClearPending(u) \/ RollbackInvalid(u) \/ RestoreFile(u)
             \/ RestoreRefused(u) \/ RestoreRegistry(u)
      PROVE  journal' = journal
  BY <1>2 DEF LoadJournal, Refuse, PublishPending, BackupFile, BackupMismatch, ReplaceFile, ReplaceRefused,
     SetVersion, Verify, ConfirmCommitted, ConfirmRefused, ClearPending, RollbackInvalid, RestoreFile,
     RestoreRefused, RestoreRegistry
<1>3. ASSUME NEW u \in Updater,
             SaveBackedUp(u) \/ SaveApplying(u) \/ SaveVerifying(u) \/ SaveCommitted(u)
      PROVE  /\ pc[u] \in {"backup", "backed_up", "registered", "commit"}
             /\ journal'.phase \in {"backed_up", "applying", "verifying", "committed"}
  BY <1>3 DEF SaveBackedUp, SaveApplying, SaveVerifying, SaveCommitted
<1>4. ASSUME NEW u \in Updater, RollbackStart(u) \/ SaveRolledBack(u) \/ SaveRollbackFailed(u)
      PROVE  \/ journal' = journal
             \/ /\ pc[u] \in {"rollback", "restored", "failed"}
                /\ journal'.phase \in {"rolling_back", "rolled_back", "rollback_failed"}
  BY <1>4 DEF RollbackStart, SaveRolledBack, SaveRollbackFailed
<1>5. ASSUME NEW u \in Updater, ApplyError(u) \/ RollbackError(u) \/ Crash(u) PROVE journal' = journal
  BY <1>5 DEF ApplyError, RollbackError, Crash
<1>6. ASSUME NEW r \in Runner, RunnerStep(r) PROVE journal' = journal
  BY <1>6 DEF RunnerStep, LeaseLock, LeaseRefuse, LeaseAdmit, Register, RunnerStop, RunnerCrash, SessionRecovered
<1>7. ASSUME SettleCommand PROVE journal' = journal
  BY <1>7 DEF SettleCommand
<1>8. ASSUME NEW t \in Target, Check(t) \/ Stage(t) \/ Install(t) PROVE journal' = journal
  BY <1>8 DEF Check, Stage, Install
<1>9. ASSUME NEW p \in Path, UserEdit(p) PROVE journal' = journal
  BY <1>9 DEF UserEdit
<1>10. CASE UNCHANGED vars
  BY <1>10 DEF vars
<1> QED
  BY <1>1, <1>2, <1>3, <1>4, <1>5, <1>6, <1>7, <1>8, <1>9, <1>10, NextCases DEF UpdaterStep

LEMMA NewestStep ==
  ASSUME IInv, StageInv, [Next]_vars, journal' # journal, journal'.phase = "preparing"
  PROVE  journal'.new = highwater
<1>1. PICK u \in Updater : ApplyPrepare(u)
  BY JournalSteps
<1>2. PICK o \in Target, n \in Target :
        Applicable(o, n) /\ journal' = [phase |-> "preparing", old |-> o, new |-> n]
  BY <1>1 DEF ApplyPrepare
<1>3. stage = n /\ HighwaterAllows(n) /\ journal'.new = n
  BY <1>2 DEF Applicable
<1> QED BY <1>3, TargetAssumption DEF StageInv, HighwaterAllows, IInv, TypeOK
-----------------------------------------------------------------------------
(* Commits.                                                                 *)

LEMMA PublishStep == ASSUME IInv, PublishInv, [Next]_vars PROVE PublishInv'
<1> USE DEF installVars, txVars, metaVars, gateVars, procVars, Save, Goto, PublishInv, IInv, TypeOK
<1>1. ASSUME NEW u \in Updater, NEW c \in {"apply", "recover", "rollback"}, Begin(u, c)
      PROVE  PublishInv'
  BY <1>1 DEF Begin
<1>2. ASSUME NEW u \in Updater, ApplyPrepare(u) \/ LoadJournal(u) PROVE PublishInv'
  BY <1>2 DEF ApplyPrepare, LoadJournal
<1>3. ASSUME NEW u \in Updater, UpdaterStep(u), ~ApplyPrepare(u), ~LoadJournal(u), ~PublishPending(u)
      PROVE  PublishInv'
  BY <1>3 DEF UpdaterStep, Refuse, BackupFile, BackupMismatch, SaveBackedUp, SaveApplying,
     ReplaceFile, ReplaceRefused, SetVersion, SaveVerifying, Verify, SaveCommitted,
     ConfirmCommitted, ConfirmRefused, ClearPending, RollbackStart, RollbackInvalid, RestoreFile,
     RestoreRefused, RestoreRegistry, SaveRolledBack, SaveRollbackFailed, Leave
<1>4. ASSUME NEW u \in Updater, PublishPending(u) PROVE PublishInv'
  <2>1. op' = op /\ \A v \in Updater : v # u => pc'[v] = pc[v]
    BY <1>4 DEF PublishPending
  <2>2. pc'[u] \in {"backup", "confirm", "rollback"}
    BY <1>4 DEF PublishPending
  <2> QED BY <2>1, <2>2
<1>5. ASSUME NEW u \in Updater, ApplyError(u) \/ RollbackError(u) \/ Crash(u) PROVE PublishInv'
  BY <1>5 DEF ApplyError, RollbackError, Crash, Leave
<1>6. ASSUME NEW r \in Runner, RunnerStep(r) PROVE PublishInv'
  BY <1>6 DEF RunnerStep, LeaseLock, LeaseRefuse, LeaseAdmit, Register, RunnerStop, RunnerCrash, SessionRecovered
<1>7. ASSUME SettleCommand PROVE PublishInv'
  BY <1>7 DEF SettleCommand
<1>8. ASSUME NEW t \in Target, Check(t) \/ Stage(t) \/ Install(t) PROVE PublishInv'
  BY <1>8 DEF Check, Stage, Install
<1>9. ASSUME NEW p \in Path, UserEdit(p) PROVE PublishInv'
  BY <1>9 DEF UserEdit
<1>10. CASE UNCHANGED vars
  BY <1>10 DEF vars
<1> QED BY <1>1, <1>2, <1>3, <1>4, <1>5, <1>6, <1>7, <1>8, <1>9, <1>10, NextCases

\* Only a rollback comes to undo a transaction that is committed.
LEMMA CommitStep == ASSUME IInv, PublishInv, CommitInv, [Next]_vars PROVE CommitInv'
<1> DEFINE Undoing(u) == pc[u] \in {"rollback", "restore", "restored", "failed"}
<1> USE DEF installVars, txVars, metaVars, gateVars, procVars, Save, Goto
<1> SUFFICES ASSUME NEW v \in Updater, Undoing(v)', journal'.phase = "committed"
             PROVE  op'[v] = "rollback"
  BY DEF CommitInv
<1>t. /\ pc \in [Updater -> {"idle", "begin", "publish", "backup", "backed_up", "replace",
                             "registered", "verify", "commit", "confirm", "clear",
                             "rollback", "restore", "restored", "failed"}]
      /\ op \in [Updater -> {"none", "apply", "recover", "rollback"}]
      /\ journal \in [phase : Phases \cup {"none"}, old : Target, new : Target]
  BY DEF IInv, TypeOK
<1>i. \A u, w \in Updater : InTransaction(u) /\ InTransaction(w) => u = w
  BY DEF IInv, GateInv
<1>k. pc' = pc /\ op' = op /\ journal' = journal => op'[v] = "rollback"
  BY DEF CommitInv
<1>1. ASSUME NEW u \in Updater, NEW c \in {"apply", "recover", "rollback"}, Begin(u, c)
      PROVE  op'[v] = "rollback"
  BY <1>1, <1>t DEF Begin, CommitInv
<1>2. ASSUME NEW u \in Updater, UpdaterStep(u) \/ ApplyError(u) \/ RollbackError(u) \/ Crash(u)
      PROVE  op'[v] = "rollback"
  <2>1. CASE u # v
    <3>1. pc'[v] = pc[v] /\ op'[v] = op[v]
      BY <1>2, <1>t, <2>1 DEF UpdaterStep, ApplyPrepare, LoadJournal, Refuse, PublishPending,
         BackupFile, BackupMismatch, SaveBackedUp, SaveApplying, ReplaceFile, ReplaceRefused,
         SetVersion, SaveVerifying, Verify, SaveCommitted, ConfirmCommitted, ConfirmRefused,
         ClearPending, RollbackStart, RollbackInvalid, RestoreFile, RestoreRefused, RestoreRegistry,
         SaveRolledBack, SaveRollbackFailed, ApplyError, RollbackError, Crash, Leave
    <3>2. ~InTransaction(u)
      BY <1>i, <2>1, <3>1 DEF InTransaction
    <3>3. ~ApplyPrepare(u)
      BY <1>2, <1>t DEF ApplyPrepare
    <3>4. journal' = journal
      BY <1>2, <3>2, <3>3 DEF InTransaction, UpdaterStep, LoadJournal, Refuse, PublishPending,
         BackupFile, BackupMismatch, SaveBackedUp, SaveApplying, ReplaceFile, ReplaceRefused,
         SetVersion, SaveVerifying, Verify, SaveCommitted, ConfirmCommitted, ConfirmRefused,
         ClearPending, RollbackStart, RollbackInvalid, RestoreFile, RestoreRefused, RestoreRegistry,
         SaveRolledBack, SaveRollbackFailed, ApplyError, RollbackError, Crash
    <3> QED BY <3>1, <3>4 DEF CommitInv
  <2>2. CASE u = v
    <3>1. CASE PublishPending(v)
      <4>1. /\ pc'[v] = CASE op[v] = "apply" -> "backup"
                          [] op[v] = "recover" /\ mem[v] = "committed" -> "confirm"
                          [] OTHER -> "rollback"
            /\ journal' = journal /\ op' = op /\ pc[v] = "publish"
        BY <3>1, <1>t DEF PublishPending
      <4>2. mem[v] = "committed"
        BY <4>1 DEF IInv, UpdaterInv, AtPublish
      <4>3. op[v] # "none"
        BY <4>1 DEF PublishInv
      <4> QED BY <1>t, <4>1, <4>2, <4>3
    <3>2. CASE BackupMismatch(v) \/ ReplaceRefused(v) \/ Verify(v) \/ ApplyError(v)
      <4>1. /\ journal' = journal
            /\ pc[v] \in {"backup", "backed_up", "replace", "registered", "verify"}
        BY <3>2 DEF BackupMismatch, ReplaceRefused, Verify, ApplyError
      <4> QED BY <4>1 DEF IInv, UpdaterInv, AtApply
    <3>3. CASE RollbackError(v)
      <4>1. journal' = journal /\ op' = op /\ (Undoing(v) \/ (pc[v] = "clear" /\ mem[v] = "rolled_back"))
        BY <3>3 DEF RollbackError
      <4>2. Undoing(v)
        BY <4>1 DEF IInv, UpdaterInv, AtEnd
      <4> QED BY <4>1, <4>2 DEF CommitInv
    <3>4. CASE \/ RollbackStart(v) \/ RollbackInvalid(v) \/ RestoreFile(v) \/ RestoreRefused(v)
               \/ RestoreRegistry(v) \/ SaveRolledBack(v)
      <4>1. op' = op /\ Undoing(v) /\ (journal' = journal \/ journal'.phase # "committed")
        BY <3>4, <1>t DEF RollbackStart, RollbackInvalid, RestoreFile, RestoreRefused,
           RestoreRegistry, SaveRolledBack
      <4> QED BY <4>1 DEF CommitInv
    <3>5. CASE \/ ApplyPrepare(v) \/ LoadJournal(v) \/ Refuse(v) \/ BackupFile(v) \/ SaveBackedUp(v)
               \/ SaveApplying(v) \/ ReplaceFile(v) \/ SetVersion(v) \/ SaveVerifying(v)
               \/ SaveCommitted(v) \/ ConfirmCommitted(v) \/ ConfirmRefused(v) \/ ClearPending(v)
               \/ SaveRollbackFailed(v) \/ Crash(v)
      <4>1. ~Undoing(v)'
        BY <3>5, <1>t DEF ApplyPrepare, LoadJournal, Refuse, BackupFile, SaveBackedUp, SaveApplying,
           ReplaceFile, SetVersion, SaveVerifying, SaveCommitted, ConfirmCommitted, ConfirmRefused,
           ClearPending, SaveRollbackFailed, Crash, Leave
      <4> QED BY <4>1
    <3> QED BY <1>2, <2>2, <3>1, <3>2, <3>3, <3>4, <3>5 DEF UpdaterStep
  <2> QED BY <2>1, <2>2
<1>3. ASSUME NEW r \in Runner, RunnerStep(r) PROVE op'[v] = "rollback"
  BY <1>k, <1>3 DEF RunnerStep, LeaseLock, LeaseRefuse, LeaseAdmit, Register, RunnerStop,
     RunnerCrash, SessionRecovered
<1>4. ASSUME SettleCommand PROVE op'[v] = "rollback"
  BY <1>k, <1>4 DEF SettleCommand
<1>5. ASSUME NEW t \in Target, Check(t) \/ Stage(t) \/ Install(t) PROVE op'[v] = "rollback"
  BY <1>k, <1>5 DEF Check, Stage, Install
<1>6. ASSUME NEW p \in Path, UserEdit(p) PROVE op'[v] = "rollback"
  BY <1>k, <1>6 DEF UserEdit
<1>7. CASE UNCHANGED vars
  BY <1>k, <1>7 DEF vars
<1> QED BY <1>1, <1>2, <1>3, <1>4, <1>5, <1>6, <1>7, NextCases

LEMMA CommitHolds ==
  ASSUME IInv, CommitInv, [Next]_vars, journal.phase = "committed",
         journal'.phase \notin {"committed", "preparing"}
  PROVE  \E u \in Updater : op[u] = "rollback"
<1>1. ~\E u \in Updater : ApplyPrepare(u)
  BY DEF ApplyPrepare
<1>2. PICK u \in Updater :
        \/ pc[u] \in {"backup", "backed_up", "registered", "commit"}
        \/ pc[u] \in {"rollback", "restored", "failed"}
  BY <1>1, JournalSteps
<1>3. pc[u] \in {"rollback", "restored", "failed"}
  BY <1>2 DEF IInv, UpdaterInv, AtApply
<1> QED BY <1>3 DEF CommitInv

\* No version comes back but by the rollback the user asks for: apply opens a
\* transaction for the newest target seen only, the newest version seen never
\* goes down or changes its content, and neither a failure after the commit nor
\* a recovery undoes a committed update.
THEOREM NothingComesBack == Spec => NothingGoesBack
<1>1. Init => StageInv /\ PublishInv /\ CommitInv
  BY DEF Init, StageInv, PublishInv, CommitInv
<1>2. IInv /\ StageInv /\ PublishInv /\ CommitInv /\ [Next]_vars
        => (StageInv /\ PublishInv /\ CommitInv)'
  BY StageStep, PublishStep, CommitStep
<1>3. Spec => [](IInv /\ StageInv /\ CommitInv)
  BY <1>1, <1>2, InductiveInvariant, PTL DEF Spec
<1>4. IInv /\ StageInv /\ [Next]_vars
        => [journal' # journal /\ journal'.phase = "preparing" => journal'.new = highwater]_vars
  BY NewestStep
<1>5. IInv /\ [Next]_vars
        => [highwater # NoTarget =>
              highwater' = highwater \/ Ver[highwater'] > Ver[highwater]]_vars
  BY HighwaterStep
<1>6. IInv /\ CommitInv /\ [Next]_vars
        => [journal.phase = "committed" /\ journal'.phase \notin {"committed", "preparing"}
              => \E u \in Updater : op[u] = "rollback"]_vars
  BY CommitHolds
<1>7. Spec => AppliesNewestSeen
  BY <1>3, <1>4, PTL DEF Spec, AppliesNewestSeen
<1>8. Spec => HighwaterMonotone
  BY <1>3, <1>5, PTL DEF Spec, HighwaterMonotone
<1>9. Spec => CommitIsKept
  BY <1>3, <1>6, PTL DEF Spec, CommitIsKept
<1> QED BY <1>7, <1>8, <1>9 DEF NothingGoesBack
=============================================================================
