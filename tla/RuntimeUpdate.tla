---------------------------- MODULE RuntimeUpdate ----------------------------
(***************************************************************************)
(* The update transaction of an installed Runtime (app/runtime_update.py), *)
(* the installation-wide reader/writer lock it shares with every launcher  *)
(* and host (app/runtime_lifecycle.py) and the settlement check that      *)
(* precedes maintenance (app/runtime_task_ledger.py).                      *)
(*                                                                         *)
(* Durable state survives the death of any process: the installed files,   *)
(* the registered display version, the journal of the transaction that     *)
(* current.json points to, its backup directory, the pending marker, the   *)
(* high-water record, stage.json and the task registrations.  Kernel locks *)
(* and the journal object an updater holds in memory do not.               *)
(*                                                                         *)
(* A release is a function from paths to contents.  The paths are the      *)
(* positions of journal["operations"]: the payload files in sorted order,  *)
(* then Uninstall.exe, then .component-install.json.                       *)
(***************************************************************************)
EXTENDS Naturals

CONSTANTS Updater,      \* processes that may run scripts/update_runtime.py
          Runner,       \* runtime parents and hosts, one session each
          Target,       \* release targets; a target stands for its digest
          NoTarget,     \* no record
          Ver,          \* the version of a target
          NumPaths,     \* how many operations a transaction has
          Release,      \* the content of each path in each target
          Absent,       \* the path does not exist
          Foreign,      \* content that belongs to no release
          FirstTarget,  \* what the installer put there
          MaxFaults     \* bound on crashes, I/O errors and user edits

Nobody == "nobody"               \* the lock is free
Path == 1..NumPaths
Marker == NumPaths               \* .component-install.json
Uninstaller == NumPaths - 1      \* Uninstall.exe

Content == {Absent, Foreign} \cup {Release[t][p] : t \in Target, p \in Path}

ASSUME PathAssumption == NumPaths \in Nat /\ NumPaths >= 2

ASSUME TargetAssumption ==
  /\ FirstTarget \in Target
  /\ NoTarget \notin Target
  /\ Nobody \notin Updater
  /\ \A t \in Target : Ver[t] \in Nat
  /\ MaxFaults \in Nat

\* Both ownership records name the version and every file of their release, so
\* no two targets share one; the files of a release are never foreign.
ASSUME ReleaseAssumption ==
  /\ Absent # Foreign
  /\ \A t \in Target : Release[t] = [p \in Path |-> Release[t][p]]
  /\ \A t \in Target, p \in Path : Release[t][p] # Foreign
  /\ \A t \in Target, p \in {Uninstaller, Marker} : Release[t][p] # Absent
  /\ \A s, t \in Target, p \in {Uninstaller, Marker} :
        Release[s][p] = Release[t][p] => s = t

VARIABLES
  root,        \* content of every path of the installation
  registry,    \* DisplayVersion of the uninstall key
  journal,     \* the transaction current.json points to: phase, old, new
  backup,      \* how many operations its backup directory covers
  pending,     \* the pending marker: NoTarget, or the target it names
  highwater,   \* highwater.json
  stage,       \* stage.json
  ledger,      \* per runner: no registration, unsettled, or settled evidence
  opLock,      \* operation.lock
  maint,       \* exclusive owner of the maintenance lock
  runner,      \* per runner: out, holding the shared lock, or admitted
  pc,          \* where an updater is
  op,          \* which command it runs
  mem,         \* journal["phase"] of the journal object it holds
  idx,         \* its position in journal["operations"]
  faults       \* faults so far

installVars == <<root, registry>>
txVars == <<journal, backup, pending>>
metaVars == <<highwater, stage>>
gateVars == <<ledger, opLock, maint, runner>>
procVars == <<pc, op, mem, idx>>
vars == <<installVars, txVars, metaVars, gateVars, procVars, faults>>

Phases == {"preparing", "backed_up", "applying", "verifying", "committed",
           "rolling_back", "rolled_back", "rollback_failed"}
Old(p) == Release[journal.old][p]
New(p) == Release[journal.new][p]
-----------------------------------------------------------------------------
\* _record(): the marker and the uninstaller of the installation belong to t.
Recorded(t) == /\ root[Marker] = Release[t][Marker]
               /\ root[Uninstaller] = Release[t][Uninstaller]

\* _owned_unchanged(_record()): every file t owns has t's content.  A path t
\* does not own is not looked at.
Whole(t) == /\ Recorded(t)
            /\ \A p \in Path : Release[t][p] # Absent => root[p] = Release[t][p]

Compatible(t, u) == Ver[u] > Ver[t]

\* Mutant: a version seen before may come back with other content.
HighwaterAllows_AnyDigest(t) == highwater # NoTarget => Ver[t] >= Ver[highwater]

HighwaterAllows(t) ==
  highwater # NoTarget => /\ Ver[t] >= Ver[highwater]
                          /\ Ver[t] = Ver[highwater] => t = highwater

\* _no_pending()
NoPending == /\ pending = NoTarget
             /\ journal.phase \in {"none", "committed", "rolled_back"}

\* _validate_transaction(): the old release is authenticated in the
\* installation while the journal says preparing, in the backup otherwise.
ValidTransaction(phase) ==
  IF phase = "preparing" THEN Whole(journal.old) ELSE backup = NumPaths

MaintenanceFree ==
  /\ maint = Nobody
  /\ \A r \in Runner : runner[r] = "out"

\* assert_settled(clear_settled=True)
Settled == \A r \in Runner : ledger[r] # "unsettled"
Cleared == [r \in Runner |-> "none"]
-----------------------------------------------------------------------------
Init ==
  /\ root = Release[FirstTarget]
  /\ registry = Ver[FirstTarget]
  /\ journal = [phase |-> "none", old |-> FirstTarget, new |-> FirstTarget]
  /\ backup = 0
  /\ pending = NoTarget
  /\ highwater = NoTarget
  /\ stage = NoTarget
  /\ ledger = [r \in Runner |-> "none"]
  /\ opLock = Nobody
  /\ maint = Nobody
  /\ runner = [r \in Runner |-> "out"]
  /\ pc = [u \in Updater |-> "idle"]
  /\ op = [u \in Updater |-> "none"]
  /\ mem = [u \in Updater |-> "none"]
  /\ idx = [u \in Updater |-> 0]
  /\ faults = 0
-----------------------------------------------------------------------------
(* Runtime parents and hosts: InstallationLease and the task ledger.        *)

\* The shared lock is taken first; the marker is looked at while holding it.
\* A host whose session a dead parent registered still takes its own lease; a
\* session with settled evidence has no process left.
LeaseLock(r) ==
  /\ runner[r] = "out" /\ ledger[r] # "settled"
  /\ maint = Nobody
  /\ runner' = [runner EXCEPT ![r] = "locked"]
  /\ UNCHANGED <<installVars, txVars, metaVars, ledger, opLock, maint, procVars, faults>>

LeaseRefuse(r) ==
  /\ runner[r] = "locked" /\ pending # NoTarget
  /\ runner' = [runner EXCEPT ![r] = "out"]
  /\ UNCHANGED <<installVars, txVars, metaVars, ledger, opLock, maint, procVars, faults>>

\* Mutant: the lease does not look for the pending marker.
LeaseAdmit_IgnoresPending(r) ==
  /\ runner[r] = "locked"
  /\ runner' = [runner EXCEPT ![r] = "leased"]
  /\ UNCHANGED <<installVars, txVars, metaVars, ledger, opLock, maint, procVars, faults>>

LeaseAdmit(r) ==
  /\ runner[r] = "locked" /\ pending = NoTarget
  /\ runner' = [runner EXCEPT ![r] = "leased"]
  /\ UNCHANGED <<installVars, txVars, metaVars, ledger, opLock, maint, procVars, faults>>

\* The session is registered under the lease, before a host is launched.
Register(r) ==
  /\ runner[r] = "leased" /\ ledger[r] = "none"
  /\ ledger' = [ledger EXCEPT ![r] = "unsettled"]
  /\ UNCHANGED <<installVars, txVars, metaVars, opLock, maint, runner, procVars, faults>>

\* A clean stop leaves settled evidence and clears its own registration, or
\* fails to clear it and leaves the entry to assert_settled.
RunnerStop(r) ==
  /\ runner[r] = "leased"
  /\ runner' = [runner EXCEPT ![r] = "out"]
  /\ \E e \in {"none"} \cup (IF ledger[r] = "none" THEN {} ELSE {"settled"}) :
       ledger' = [ledger EXCEPT ![r] = e]
  /\ UNCHANGED <<installVars, txVars, metaVars, opLock, maint, procVars, faults>>

RunnerCrash(r) ==
  /\ runner[r] # "out" /\ faults < MaxFaults
  /\ runner' = [runner EXCEPT ![r] = "out"]
  /\ faults' = faults + 1
  /\ UNCHANGED <<installVars, txVars, metaVars, ledger, opLock, maint, procVars>>

\* Explicit recovery of a dead session makes its evidence acceptable.
SessionRecovered(r) ==
  /\ runner[r] = "out" /\ ledger[r] = "unsettled"
  /\ ledger' = [ledger EXCEPT ![r] = "settled"]
  /\ UNCHANGED <<installVars, txVars, metaVars, opLock, maint, runner, procVars, faults>>

\* update_runtime.py settle
SettleCommand ==
  /\ MaintenanceFree /\ Settled
  /\ ledger' = Cleared
  /\ UNCHANGED <<installVars, txVars, metaVars, opLock, maint, runner, procVars, faults>>
-----------------------------------------------------------------------------
(* check() and stage() hold operation.lock throughout and touch nothing that *)
(* a process without it reads, so each is one step.                          *)

Check(t) ==
  /\ opLock = Nobody /\ maint = Nobody /\ pending = NoTarget
  /\ \E o \in Target : Recorded(o) /\ Ver[t] > Ver[o]
  /\ HighwaterAllows(t)
  /\ highwater' = t
  /\ UNCHANGED <<installVars, txVars, stage, gateVars, procVars, faults>>

Stage(t) ==
  /\ opLock = Nobody /\ maint = Nobody /\ NoPending
  /\ \E o \in Target : Whole(o) /\ Compatible(o, t)
  /\ HighwaterAllows(t)
  /\ highwater' = t /\ stage' = t
  /\ UNCHANGED <<installVars, txVars, gateVars, procVars, faults>>
-----------------------------------------------------------------------------
(* apply, recover and rollback: operation.lock, then the maintenance lock.   *)

Goto(u, l) == pc' = [pc EXCEPT ![u] = l]

Begin(u, command) ==
  /\ pc[u] = "idle" /\ opLock = Nobody
  /\ opLock' = u
  /\ pc' = [pc EXCEPT ![u] = "begin"]
  /\ op' = [op EXCEPT ![u] = command]
  /\ UNCHANGED <<installVars, txVars, metaVars, ledger, maint, runner, mem, idx, faults>>

\* The checks of apply before its transaction exists, on installed release o.
Applicable(o, n) ==
  /\ NoPending
  /\ stage = n
  /\ Whole(o) /\ Compatible(o, n)
  /\ HighwaterAllows(n)
  /\ \A p \in Path : Release[n][p] # Absent /\ Release[o][p] = Absent
                      => root[p] = Absent
  /\ registry = Ver[o]

CommittedIntact == Whole(journal.new) /\ registry = Ver[journal.new]

\* Mutant: an interrupted rollback cannot be taken up again.
Recoverable_NotRollingBack ==
  /\ journal.phase \notin {"none", "rolling_back"}
  /\ pending \in {NoTarget, journal.new}

\* The checks of recover before it publishes the marker.
Recoverable ==
  /\ journal.phase # "none"
  /\ pending = NoTarget =>
       /\ ValidTransaction(journal.phase)
       /\ IF journal.phase = "committed" THEN CommittedIntact
          ELSE \A p \in Path : root[p] \in {Absent, Old(p), New(p)}
  /\ pending \in {NoTarget, journal.new}

\* The checks of an explicit rollback.
Revertible ==
  /\ NoPending /\ journal.phase = "committed"
  /\ ValidTransaction("committed") /\ CommittedIntact

Admissible(command) ==
  /\ MaintenanceFree /\ Settled
  /\ CASE command = "apply" -> \E o, n \in Target : Applicable(o, n)
       [] command = "recover" -> Recoverable
       [] command = "rollback" -> Revertible

\* Save the preparing journal, then point current.json at it.  Before the
\* pointer moves the new transaction directory is not part of the state.
ApplyPrepare(u) ==
  /\ pc[u] = "begin" /\ op[u] = "apply" /\ Admissible("apply")
  /\ \E o, n \in Target :
       /\ Applicable(o, n)
       /\ journal' = [phase |-> "preparing", old |-> o, new |-> n]
  /\ backup' = 0
  /\ mem' = [mem EXCEPT ![u] = "preparing"]
  /\ maint' = u /\ ledger' = Cleared
  /\ pc' = [pc EXCEPT ![u] = "publish"]
  /\ UNCHANGED <<installVars, pending, metaVars, opLock, runner, op, idx, faults>>

\* recover and rollback load the journal current.json points to.
LoadJournal(u) ==
  /\ pc[u] = "begin" /\ op[u] \in {"recover", "rollback"} /\ Admissible(op[u])
  /\ mem' = [mem EXCEPT ![u] = journal.phase]
  /\ maint' = u /\ ledger' = Cleared
  /\ pc' = [pc EXCEPT ![u] = "publish"]
  /\ UNCHANGED <<installVars, txVars, metaVars, opLock, runner, op, idx, faults>>

\* A refused command still ran assert_settled when it got that far.
Refuse(u) ==
  /\ pc[u] = "begin" /\ ~Admissible(op[u])
  /\ opLock' = Nobody
  /\ ledger' = IF MaintenanceFree /\ Settled THEN Cleared ELSE ledger
  /\ pc' = [pc EXCEPT ![u] = "idle"]
  /\ op' = [op EXCEPT ![u] = "none"]
  /\ UNCHANGED <<installVars, txVars, metaVars, maint, runner, mem, idx, faults>>

PublishPending(u) ==
  /\ pc[u] = "publish"
  /\ pending' = journal.new
  /\ pc' = [pc EXCEPT ![u] =
       CASE op[u] = "apply" -> "backup"
         [] op[u] = "recover" /\ mem[u] = "committed" -> "confirm"
         [] OTHER -> "rollback"]
  /\ idx' = [idx EXCEPT ![u] = 1]
  /\ UNCHANGED <<installVars, journal, backup, metaVars, gateVars, op, mem, faults>>
-----------------------------------------------------------------------------
(* apply: the body of the try block.                                        *)

\* Copy one owned file and check the copy; a path the old release does not
\* own has no backup.
BackupFile(u) ==
  /\ pc[u] = "backup" /\ idx[u] \in Path
  /\ Old(idx[u]) = Absent \/ root[idx[u]] = Old(idx[u])
  /\ backup' = idx[u]
  /\ idx' = [idx EXCEPT ![u] = idx[u] + 1]
  /\ UNCHANGED <<installVars, journal, pending, metaVars, gateVars, pc, op, mem, faults>>

BackupMismatch(u) ==
  /\ pc[u] = "backup" /\ idx[u] \in Path
  /\ Old(idx[u]) # Absent /\ root[idx[u]] # Old(idx[u])
  /\ Goto(u, "rollback")
  /\ UNCHANGED <<installVars, txVars, metaVars, gateVars, op, mem, idx, faults>>

\* journal["phase"] = phase; self._save(journal)
Save(u, phase) ==
  /\ mem' = [mem EXCEPT ![u] = phase]
  /\ journal' = [journal EXCEPT !.phase = phase]

SaveBackedUp(u) ==
  /\ pc[u] = "backup" /\ idx[u] > NumPaths
  /\ Save(u, "backed_up") /\ Goto(u, "backed_up")
  /\ UNCHANGED <<installVars, backup, pending, metaVars, gateVars, op, idx, faults>>

SaveApplying(u) ==
  /\ pc[u] = "backed_up"
  /\ Save(u, "applying") /\ Goto(u, "replace")
  /\ idx' = [idx EXCEPT ![u] = 1]
  /\ UNCHANGED <<installVars, backup, pending, metaVars, gateVars, op, faults>>

\* Unchanged files are skipped; any other path must still be as it was.
ReplaceFile(u) ==
  /\ pc[u] = "replace" /\ idx[u] \in Path
  /\ Old(idx[u]) = New(idx[u]) \/ root[idx[u]] = Old(idx[u])
  /\ root' = IF Old(idx[u]) = New(idx[u]) THEN root
             ELSE [root EXCEPT ![idx[u]] = New(idx[u])]
  /\ idx' = [idx EXCEPT ![u] = idx[u] + 1]
  /\ UNCHANGED <<registry, txVars, metaVars, gateVars, pc, op, mem, faults>>

ReplaceRefused(u) ==
  /\ pc[u] = "replace" /\ idx[u] \in Path
  /\ Old(idx[u]) # New(idx[u]) /\ root[idx[u]] # Old(idx[u])
  /\ Goto(u, "rollback")
  /\ UNCHANGED <<installVars, txVars, metaVars, gateVars, op, mem, idx, faults>>

SetVersion(u) ==
  /\ pc[u] = "replace" /\ idx[u] > NumPaths
  /\ registry' = Ver[journal.new]
  /\ Goto(u, "registered")
  /\ UNCHANGED <<root, txVars, metaVars, gateVars, op, mem, idx, faults>>

SaveVerifying(u) ==
  /\ pc[u] = "registered"
  /\ Save(u, "verifying") /\ Goto(u, "verify")
  /\ UNCHANGED <<installVars, backup, pending, metaVars, gateVars, op, idx, faults>>

\* The health check runs the new code and may say no whatever the files are.
VerifyPassed == (\E t \in Target : Whole(t)) /\ registry = Ver[journal.new]

Verify(u) ==
  /\ pc[u] = "verify"
  /\ \E healthy \in BOOLEAN :
       Goto(u, IF healthy /\ VerifyPassed THEN "commit" ELSE "rollback")
  /\ UNCHANGED <<installVars, txVars, metaVars, gateVars, op, mem, idx, faults>>

SaveCommitted(u) ==
  /\ pc[u] = "commit"
  /\ Save(u, "committed") /\ Goto(u, "clear")
  /\ UNCHANGED <<installVars, backup, pending, metaVars, gateVars, op, idx, faults>>

\* recover of a committed transaction: all that is left is the marker.
ConfirmCommitted(u) ==
  /\ pc[u] = "confirm"
  /\ ValidTransaction("committed") /\ CommittedIntact
  /\ Goto(u, "clear")
  /\ UNCHANGED <<installVars, txVars, metaVars, gateVars, op, mem, idx, faults>>

\* Leaving the with blocks: both locks are released, the object is gone.
Leave(u) ==
  /\ opLock' = IF opLock = u THEN Nobody ELSE opLock
  /\ maint' = IF maint = u THEN Nobody ELSE maint
  /\ Goto(u, "idle")
  /\ op' = [op EXCEPT ![u] = "none"]
  /\ mem' = [mem EXCEPT ![u] = "none"]
  /\ idx' = [idx EXCEPT ![u] = 0]

ConfirmRefused(u) ==
  /\ pc[u] = "confirm"
  /\ ~(ValidTransaction("committed") /\ CommittedIntact)
  /\ Leave(u)
  /\ UNCHANGED <<installVars, txVars, metaVars, ledger, runner, faults>>

ClearPending(u) ==
  /\ pc[u] = "clear"
  /\ pending' = NoTarget
  /\ Leave(u)
  /\ UNCHANGED <<installVars, journal, backup, metaVars, ledger, runner, faults>>
-----------------------------------------------------------------------------
(* _rollback                                                                *)

\* A transaction that never got past its backups has nothing to restore.
RollbackStart(u) ==
  /\ pc[u] = "rollback" /\ ValidTransaction(mem[u])
  /\ IF mem[u] = "preparing"
     THEN Goto(u, "restored") /\ UNCHANGED <<journal, mem, idx>>
     ELSE /\ Save(u, "rolling_back") /\ Goto(u, "restore")
          /\ idx' = [idx EXCEPT ![u] = NumPaths]
  /\ UNCHANGED <<installVars, backup, pending, metaVars, gateVars, op, faults>>

RollbackInvalid(u) ==
  /\ pc[u] = "rollback" /\ ~ValidTransaction(mem[u])
  /\ Goto(u, "failed")
  /\ UNCHANGED <<installVars, txVars, metaVars, gateVars, op, mem, idx, faults>>

\* Mutant: rollback overwrites whatever is there.
Restorable_Always(p) == p \in Path

\* A path may be overwritten or removed when it holds the new content, and
\* created when it is missing; it is left alone when it is old already.
Restorable(p) == root[p] \in {Absent, Old(p), New(p)}

RestoreFile(u) ==
  /\ pc[u] = "restore" /\ idx[u] \in Path /\ Restorable(idx[u])
  /\ root' = [root EXCEPT ![idx[u]] = Old(idx[u])]
  /\ idx' = [idx EXCEPT ![u] = idx[u] - 1]
  /\ UNCHANGED <<registry, txVars, metaVars, gateVars, pc, op, mem, faults>>

RestoreRefused(u) ==
  /\ pc[u] = "restore" /\ idx[u] \in Path /\ ~Restorable(idx[u])
  /\ Goto(u, "failed")
  /\ UNCHANGED <<installVars, txVars, metaVars, gateVars, op, mem, idx, faults>>

\* Mutant: rollback forgets the registered version.
RestoreRegistry_Skipped(u) ==
  /\ pc[u] = "restore" /\ idx[u] = 0
  /\ Goto(u, "restored")
  /\ UNCHANGED <<installVars, txVars, metaVars, gateVars, op, mem, idx, faults>>

RestoreRegistry(u) ==
  /\ pc[u] = "restore" /\ idx[u] = 0
  /\ registry' = Ver[journal.old]
  /\ Goto(u, "restored")
  /\ UNCHANGED <<root, txVars, metaVars, gateVars, op, mem, idx, faults>>

SaveRolledBack(u) ==
  /\ pc[u] = "restored"
  /\ IF \E t \in Target : Whole(t)
     THEN Save(u, "rolled_back") /\ Goto(u, "clear")
     ELSE Goto(u, "failed") /\ UNCHANGED <<journal, mem>>
  /\ UNCHANGED <<installVars, backup, pending, metaVars, gateVars, op, idx, faults>>

SaveRollbackFailed(u) ==
  /\ pc[u] = "failed"
  /\ journal' = [journal EXCEPT !.phase = "rollback_failed"]
  /\ Leave(u)
  /\ UNCHANGED <<installVars, backup, pending, metaVars, ledger, runner, faults>>
-----------------------------------------------------------------------------
(* Faults.  An exception outside the try blocks and the death of the process *)
(* look alike: the locks are released and durable state stays as it is.      *)

\* An operating-system error inside apply's try block.  When it is the save
\* that fails, the journal object already carries the next phase.
ApplyError(u) ==
  /\ pc[u] \in {"backup", "backed_up", "replace", "registered", "verify"}
  /\ faults < MaxFaults
  /\ mem' = [mem EXCEPT ![u] =
       CASE pc[u] = "backup" /\ idx[u] > NumPaths -> "backed_up"
         [] pc[u] = "backed_up" -> "applying"
         [] pc[u] = "registered" -> "verifying"
         [] OTHER -> mem[u]]
  /\ Goto(u, "rollback")
  /\ faults' = faults + 1
  /\ UNCHANGED <<installVars, txVars, metaVars, gateVars, op, idx>>

\* An operating-system error inside _rollback's try block, the removal of the
\* pending marker included.
RollbackError(u) ==
  /\ \/ pc[u] \in {"rollback", "restore", "restored"}
     \/ pc[u] = "clear" /\ mem[u] = "rolled_back"
  /\ faults < MaxFaults
  /\ Goto(u, "failed")
  /\ faults' = faults + 1
  /\ UNCHANGED <<installVars, txVars, metaVars, gateVars, op, mem, idx>>

Crash(u) ==
  /\ pc[u] # "idle" /\ faults < MaxFaults
  /\ Leave(u)
  /\ faults' = faults + 1
  /\ UNCHANGED <<installVars, txVars, metaVars, ledger, runner>>

\* The user changes or creates a payload file, at any time.
UserEdit(p) ==
  /\ p < Uninstaller /\ root[p] # Foreign /\ faults < MaxFaults
  /\ root' = [root EXCEPT ![p] = Foreign]
  /\ faults' = faults + 1
  /\ UNCHANGED <<registry, txVars, metaVars, gateVars, procVars>>

\* The installer of another release, under the same lock: it refuses pending
\* updates, any registration and modified or unknown files it would replace.
Install(t) ==
  /\ MaintenanceFree /\ pending = NoTarget
  /\ \A r \in Runner : ledger[r] = "none"
  /\ \E o \in Target :
       /\ Recorded(o)
       /\ \A p \in Path : Release[t][p] # Absent =>
            root[p] = Absent \/ Release[o][p] = root[p]
       /\ root' = [p \in Path |->
            IF Release[t][p] # Absent \/ root[p] = Release[o][p]
            THEN Release[t][p] ELSE root[p]]
  /\ registry' = Ver[t]
  /\ UNCHANGED <<txVars, metaVars, gateVars, procVars, faults>>
-----------------------------------------------------------------------------
UpdaterStep(u) ==
  \/ ApplyPrepare(u) \/ LoadJournal(u) \/ Refuse(u) \/ PublishPending(u)
  \/ BackupFile(u) \/ BackupMismatch(u) \/ SaveBackedUp(u) \/ SaveApplying(u)
  \/ ReplaceFile(u) \/ ReplaceRefused(u) \/ SetVersion(u) \/ SaveVerifying(u)
  \/ Verify(u) \/ SaveCommitted(u) \/ ConfirmCommitted(u) \/ ConfirmRefused(u)
  \/ ClearPending(u)
  \/ RollbackStart(u) \/ RollbackInvalid(u) \/ RestoreFile(u) \/ RestoreRefused(u)
  \/ RestoreRegistry(u) \/ SaveRolledBack(u) \/ SaveRollbackFailed(u)

RunnerStep(r) ==
  \/ LeaseLock(r) \/ LeaseRefuse(r) \/ LeaseAdmit(r) \/ Register(r)
  \/ RunnerStop(r) \/ RunnerCrash(r) \/ SessionRecovered(r)

Next ==
  \/ \E u \in Updater : \/ \E command \in {"apply", "recover", "rollback"} : Begin(u, command)
                        \/ UpdaterStep(u) \/ ApplyError(u) \/ RollbackError(u) \/ Crash(u)
  \/ \E r \in Runner : RunnerStep(r)
  \/ SettleCommand
  \/ \E t \in Target : Check(t) \/ Stage(t) \/ Install(t)
  \/ \E p \in Path : UserEdit(p)

Spec == Init /\ [][Next]_vars
-----------------------------------------------------------------------------
Idle(u) == pc[u] = "idle"
InTransaction(u) == pc[u] \notin {"idle", "begin"}

\* Every variable stays within its type.
TypeOK ==
  /\ root \in [Path -> Content]
  /\ registry \in Nat
  /\ journal \in [phase : Phases \cup {"none"}, old : Target, new : Target]
  /\ backup \in 0..NumPaths
  /\ pending \in Target \cup {NoTarget}
  /\ highwater \in Target \cup {NoTarget}
  /\ stage \in Target \cup {NoTarget}
  /\ ledger \in [Runner -> {"none", "unsettled", "settled"}]
  /\ opLock \in Updater \cup {Nobody}
  /\ maint \in Updater \cup {Nobody}
  /\ runner \in [Runner -> {"out", "locked", "leased"}]
  /\ pc \in [Updater -> {"idle", "begin", "publish", "backup", "backed_up", "replace",
                         "registered", "verify", "commit", "confirm", "clear",
                         "rollback", "restore", "restored", "failed"}]
  /\ op \in [Updater -> {"none", "apply", "recover", "rollback"}]
  /\ mem \in [Updater -> Phases \cup {"none"}]
  /\ idx \in [Updater -> 0..(NumPaths + 1)]
  /\ faults \in 0..MaxFaults

\* The installation is release t, up to files the user changed.
Shows(t) == /\ \A p \in Path : root[p] \in {Release[t][p], Foreign}
            /\ registry = Ver[t]

\* A process that was admitted by InstallationLease runs on the files and the
\* registered version of exactly one release, however many updates, crashes,
\* recoveries and rollbacks came before.
LeaseSeesOneRelease ==
  (\E r \in Runner : runner[r] = "leased") => \E t \in Target : Shows(t)

\* Without the pending marker the installation is exactly one release: the
\* marker is published before the first write and removed after the last.
UnsealedIsWhole == pending = NoTarget => \E t \in Target : Shows(t)

\* A file that is no longer the old release's, in a transaction that has not
\* committed, has a complete backup behind it: replacement never starts on a
\* partial backup.
BackupBeforeReplace ==
  /\ pending # NoTarget
  /\ journal.phase # "committed"
  /\ \E p \in Path : root[p] \notin {Old(p), Foreign}
  => backup = NumPaths

\* The ownership record is replaced last and restored first: while it names
\* the new release, so does every other file, so a torn installation never
\* passes for the new version.
RecordNeverAhead ==
  /\ pending # NoTarget
  /\ root[Marker] = New(Marker)
  => \A p \in Path : root[p] \in {New(p), Foreign}

\* The transaction runs with every registered session settled, and none can
\* appear while it runs.
MaintenanceIsSettled ==
  \A u \in Updater : InTransaction(u) =>
     /\ maint = u
     /\ \A r \in Runner : ledger[r] = "none" /\ runner[r] = "out"

\* No step of the updater or the installer overwrites or removes a file whose
\* content belongs to no release.
UserEditsSurvive ==
  [][\A p \in Path : root[p] = Foreign => root'[p] = Foreign]_vars

\* A transaction is only ever opened for the newest target this installation
\* has seen: a check or a stage of something newer invalidates an older stage.
AppliesNewestSeen ==
  [][journal' # journal /\ journal'.phase = "preparing" => journal'.new = highwater]_vars

\* The newest version seen never goes down, and its content never changes.
HighwaterMonotone ==
  [][highwater # NoTarget =>
       \/ highwater' = highwater
       \/ Ver[highwater'] > Ver[highwater]]_vars

\* Once committed, only an explicit rollback undoes the update: neither a
\* failure after the commit nor a recovery does.
CommitIsKept ==
  [][journal.phase = "committed" /\ journal'.phase \notin {"committed", "preparing"}
       => \E u \in Updater : op[u] = "rollback"]_vars

\* No rollback of versions but the one the user asks for.
NothingGoesBack == AppliesNewestSeen /\ HighwaterMonotone /\ CommitIsKept
=============================================================================
