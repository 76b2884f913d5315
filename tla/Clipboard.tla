----------------------------- MODULE Clipboard -----------------------------
(***************************************************************************)
(* The clipboard around one typed text:                                    *)
(*   app/core/clipboard_transaction.py   save, replace, verify, restore    *)
(*   app/core/input_controller.py        type_text, which pastes inside it *)
(*                                                                         *)
(* The clipboard belongs to everybody.  While a process has it open nobody *)
(* else can open it, so a locked block of the code is one step; between    *)
(* two blocks another application may copy, or keep it open.  Windows      *)
(* counts every write in a sequence number, and counts once more when a    *)
(* clipboard that was written is closed.  A native call may fail           *)
(* (MaxFault of them).                                                     *)
(***************************************************************************)
EXTENDS Naturals

CONSTANTS Copy,      \* what other applications copy, each once
          MaxFault   \* bound on native calls that fail

\* "partial": some formats of the saved content only.
ASSUME CopyAssumption ==
  Copy \cap {"original", "ours", "partial", "empty", "nothing", "pressed"} = {}
ASSUME BoundAssumption == MaxFault \in Nat

VARIABLES data,       \* what the clipboard holds
          seq,        \* GetClipboardSequenceNumber
          holder,     \* who has it open
          dirty,      \* it was written since it was opened, and not yet closed
          copied,     \* the copies other applications have made
          at,         \* the next block of the transaction
          kept,       \* the snapshot: its data and its sequence
          sequence,   \* _sequence: the version the transaction takes for its own
          wanted,     \* _restore_requested, or a failed __enter__
          bitmap,     \* the clone of the snapshot's bitmap, and who answers for it
          window,     \* the owner window exists
          pasted,     \* what the field took after Ctrl+V
          status,     \* the transaction's status
          faults

clipboard == <<data, seq, holder, dirty>>
transaction == <<at, kept, sequence, wanted, bitmap, window, pasted, status>>
clipboardVars == <<clipboard, copied, transaction, faults>>

Content == {"original", "ours", "partial", "empty"} \cup Copy

\* The number is 0 only while nothing was ever copied.
ClipboardInit ==
  /\ data \in {"original", "empty"} /\ seq \in {0, 1} /\ (seq = 0 => data = "empty")
  /\ holder = "none" /\ dirty = FALSE /\ copied = {}
  /\ at = "capture" /\ kept = [data |-> "empty", seq |-> 0]
  /\ sequence = 0 /\ wanted \in BOOLEAN
  /\ bitmap = "none" /\ window = FALSE /\ pasted = "nothing"
  /\ status = "not_started" /\ faults = 0

-----------------------------------------------------------------------------
(***************************************************************************)
(* Other applications, and the field that is typed into.                   *)
(***************************************************************************)
OtherCopies(c) ==
  /\ holder = "none" /\ c \notin copied
  /\ copied' = copied \cup {c}
  /\ data' = c /\ seq' = seq + 1
  /\ UNCHANGED <<holder, dirty, transaction, faults>>

OtherOpens ==
  /\ holder = "none" /\ at # "done"
  /\ holder' = "other"
  /\ UNCHANGED <<data, seq, dirty, copied, transaction, faults>>

OtherCloses ==
  /\ holder = "other"
  /\ holder' = "none"
  /\ UNCHANGED <<data, seq, dirty, copied, transaction, faults>>

\* The field takes whatever the clipboard holds when it comes to it.
FieldPastes ==
  /\ pasted = "pressed"
  /\ pasted' = data
  /\ UNCHANGED <<clipboard, copied, at, kept, sequence, wanted, bitmap, window, status, faults>>

-----------------------------------------------------------------------------
(***************************************************************************)
(* _clipboard_lock.  Opened is the sequence number once the clipboard is   *)
(* open: a lock left over by a failed close is closed first.               *)
(***************************************************************************)
Opened == seq + (IF dirty THEN 1 ELSE 0)
CanOpen == holder # "other"

\* k native calls of this block fail.
Failing(k) == faults' = faults + k /\ faults' <= MaxFault

\* n: the sequence number in the block; wrote: whether the block wrote.
Closes(n, wrote) == holder' = "none" /\ dirty' = FALSE /\ seq' = n + (IF wrote THEN 1 ELSE 0)
CloseFails(n, wrote) == holder' = "us" /\ dirty' = wrote /\ seq' = n

\* The block ends and goes on to p; if its close fails, to q.
Unlock(n, wrote, p, q) ==
  \/ Closes(n, wrote) /\ at' = p /\ Failing(0)
  \/ CloseFails(n, wrote) /\ at' = q /\ Failing(1)

\* A block that ends in an exception, after k failed calls, goes on to q: a
\* close that fails as well is a secondary error.
UnlockFailed(n, wrote, k, q) ==
  /\ at' = q
  /\ \/ Closes(n, wrote) /\ Failing(k)
     \/ CloseFails(n, wrote) /\ Failing(k + 1)

\* Another application has it open, for all the retries, or the close of a
\* lock that was left over fails again.
CannotOpen(q) ==
  /\ at' = q
  /\ \/ holder = "other" /\ Failing(0)
     \/ holder = "us" /\ Failing(1)
  /\ UNCHANGED clipboard

-----------------------------------------------------------------------------
(***************************************************************************)
(* __enter__: capture, then replace_with_text in two blocks.               *)
(***************************************************************************)
\* A bitmap is cloned; other formats are copied.
Capture ==
  /\ at = "capture" /\ CanOpen
  /\ Closes(seq, FALSE) /\ at' = "replace" /\ Failing(0)
  /\ bitmap' \in IF data = "empty" THEN {"none"} ELSE {"none", "ours"}
  /\ window' = TRUE
  /\ kept' = [data |-> data, seq |-> seq] /\ sequence' = seq
  /\ UNCHANGED <<data, copied, wanted, pasted, status>>

\* No window, no lock, a format it does not know, a call or the close that
\* fails: what was cloned is freed at once, or leaks.
CaptureFails ==
  /\ at = "capture"
  /\ \/ /\ at' = "release" /\ Failing(1)
        /\ UNCHANGED <<clipboard, bitmap, window, status>>
     \/ /\ CannotOpen("release") /\ window' = TRUE
        /\ UNCHANGED <<bitmap, status>>
     \/ /\ CanOpen /\ UnlockFailed(seq, FALSE, 0, "release") /\ window' = TRUE
        /\ bitmap' \in {"none", "freed"}
        /\ UNCHANGED <<data, status>>
     \/ /\ CanOpen /\ UnlockFailed(seq, FALSE, 1, "release") /\ window' = TRUE
        /\ bitmap' = "leaked" /\ status' = "restore_failed"
        /\ UNCHANGED data
  /\ UNCHANGED <<copied, kept, sequence, wanted, pasted>>

\* Nothing is written: no lock, a change since the snapshot, a failed call.
ReplaceRefused ==
  /\ at = "replace"
  /\ \/ CannotOpen("release")
     \/ /\ CanOpen /\ UnlockFailed(seq, FALSE, IF seq = kept.seq THEN 1 ELSE 0, "release")
        /\ UNCHANGED data
  /\ UNCHANGED <<copied, kept, sequence, wanted, bitmap, window, pasted, status>>

\* Emptied and set.  If the close fails, so has the install, and the restore
\* goes by the number that was read in this block.
Replace ==
  /\ at = "replace" /\ CanOpen /\ seq = kept.seq
  /\ data' = "ours"
  /\ sequence' = seq + 2
  /\ Unlock(seq + 2, TRUE, "commit", "restore")
  /\ wanted' = (wanted \/ at' = "restore")
  /\ UNCHANGED <<copied, kept, bitmap, window, pasted, status>>

\* Windows owns a bitmap once it is on the clipboard.
Transferred == IF bitmap = "ours" THEN "windows" ELSE bitmap

\* _restore_snapshot_locked.
PutBack == data' = kept.data /\ bitmap' = Transferred

\* It fails over one of the formats, with the clipboard already emptied.
PutBackFails ==
  /\ kept.data # "empty"
  /\ data' \in {"empty", "partial"}
  /\ bitmap' \in IF data' = "partial" THEN {bitmap, Transferred} ELSE {bitmap}

\* A lock that cannot be closed makes a rollback uncertain.
RollbackStatus(restored) ==
  IF restored /\ holder' = "none" THEN "restored" ELSE "restore_failed"

\* A call fails after the clipboard was emptied: the snapshot is put back in
\* the same block, if that works.
ReplaceRollsBack ==
  /\ at = "replace" /\ CanOpen /\ seq = kept.seq
  /\ \/ /\ PutBack
        /\ UnlockFailed(seq + 3, TRUE, 1, "release")
        /\ status' = RollbackStatus(TRUE)
     \/ /\ PutBackFails \/ (data' \in {"ours", "empty"} /\ UNCHANGED bitmap)
        /\ UnlockFailed(seq + 3, TRUE, 2, "release")
        /\ status' = RollbackStatus(FALSE)
  /\ wanted' = TRUE
  /\ UNCHANGED <<copied, kept, sequence, window, pasted>>

\* The second block: closing has counted once more, so the committed number
\* is read now, if the clipboard still holds our own object.
Commit ==
  /\ at = "commit" /\ CanOpen /\ data = "ours"
  /\ sequence' = seq
  /\ Unlock(seq, FALSE, "verify", "restore")
  /\ wanted' = (wanted \/ at' = "restore")
  /\ status' = IF at' = "restore" THEN status
               ELSE IF wanted THEN "pending_restore" ELSE "not_requested"
  /\ UNCHANGED <<data, copied, kept, bitmap, window, pasted>>

\* The number of the first block stays.
CommitFails ==
  /\ at = "commit"
  /\ \/ CannotOpen("restore")
     \/ /\ CanOpen /\ UnlockFailed(seq, FALSE, IF data = "ours" THEN 1 ELSE 0, "restore")
        /\ UNCHANGED data
  /\ wanted' = TRUE
  /\ UNCHANGED <<copied, kept, sequence, bitmap, window, pasted, status>>

-----------------------------------------------------------------------------
(***************************************************************************)
(* The body, type_text, and its key press.                                 *)
(***************************************************************************)
\* mutant: whatever is on the clipboard now is taken for ours
StillOurs_Any == TRUE
\* The committed number; that our window is the owner follows from it.
StillOurs == Opened = sequence

\* verify_owned_text: before the field is selected and before the paste.
Verify ==
  /\ at \in {"verify", "again"} /\ CanOpen /\ StillOurs /\ data = "ours"
  /\ Unlock(Opened, FALSE, IF at = "verify" THEN "again" ELSE "press", "restore")
  /\ UNCHANGED <<data, copied, kept, sequence, wanted, bitmap, window, pasted, status>>

\* A check fails, the target window has changed, or the key press raises.
BodyRaises ==
  /\ at \in {"verify", "again", "press"}
  /\ at' = "restore"
  /\ UNCHANGED <<clipboard, copied, kept, sequence, wanted, bitmap, window, pasted, status, faults>>

\* Nothing is locked between the check and the key press.
Press ==
  /\ at = "press"
  /\ at' = "settle" /\ pasted' = "pressed"
  /\ UNCHANGED <<clipboard, copied, kept, sequence, wanted, bitmap, window, status, faults>>

\* CLIPBOARD_PASTE_SETTLE_SECONDS: the field is taken to have pasted by then.
Settle ==
  /\ at = "settle" /\ pasted # "pressed"
  /\ at' = "restore"
  /\ UNCHANGED <<clipboard, copied, kept, sequence, wanted, bitmap, window, pasted, status, faults>>

-----------------------------------------------------------------------------
(***************************************************************************)
(* _cleanup, in __exit__ and at the end of a failed __enter__.             *)
(***************************************************************************)
RestoreNotRequested ==
  /\ at = "restore" /\ ~wanted
  /\ at' = "release" /\ status' = "not_requested"
  /\ UNCHANGED <<clipboard, copied, kept, sequence, wanted, bitmap, window, pasted, faults>>

Restore ==
  /\ at = "restore" /\ wanted /\ CanOpen /\ StillOurs
  /\ PutBack
  /\ Unlock(Opened + 2, TRUE, "release", "release")
  /\ status' = IF holder' = "none" THEN "restored" ELSE "restore_failed"
  /\ UNCHANGED <<copied, kept, sequence, wanted, window, pasted>>

\* No lock, a call that fails before anything is written, or one after it.
RestoreFails ==
  /\ at = "restore" /\ wanted
  /\ \/ CannotOpen("release") /\ UNCHANGED bitmap
     \/ /\ CanOpen /\ UnlockFailed(Opened, FALSE, 1, "release")
        /\ UNCHANGED <<data, bitmap>>
     \/ /\ CanOpen /\ StillOurs /\ PutBackFails
        /\ UnlockFailed(Opened + 1, TRUE, 1, "release")
  /\ status' = "restore_failed"
  /\ UNCHANGED <<copied, kept, sequence, wanted, window, pasted>>

ConflictStatus == "conflict"

\* A newer version is not ours to replace.
RestoreConflicts ==
  /\ at = "restore" /\ wanted /\ CanOpen /\ ~StillOurs
  /\ UnlockFailed(Opened, FALSE, 0, "release")
  /\ status' = ConflictStatus
  /\ UNCHANGED <<data, copied, kept, sequence, wanted, bitmap, window, pasted>>

\* release_snapshot: DeleteObject on what has not been transferred.
Delete == IF bitmap = "ours" THEN {"freed", "leaked"} ELSE {bitmap}

\* mutant: a clean-up that fails leaves the status as it is
CleanupStatus_Kept(failed) == status
\* A clean-up that fails is never reported as restored.
CleanupStatus(failed) == IF failed THEN "restore_failed" ELSE status

\* release_snapshot, then close: a lock that is left over, then the window.
Release ==
  /\ at = "release" /\ at' = "done"
  /\ bitmap' \in Delete
  /\ \/ UNCHANGED <<seq, holder, dirty, window>>
     \/ /\ window' \in {window, FALSE}
        /\ IF holder = "us" THEN Closes(seq, dirty) ELSE UNCHANGED <<seq, holder, dirty>>
  /\ LET leaks == bitmap = "ours" /\ bitmap' = "leaked"
         stays == window' \/ holder' = "us"
     IN /\ Failing((IF leaks THEN 1 ELSE 0) + (IF stays THEN 1 ELSE 0))
        /\ status' = CleanupStatus(leaks \/ stays)
  /\ UNCHANGED <<data, copied, kept, sequence, wanted, pasted>>

-----------------------------------------------------------------------------
ClipboardNext ==
  \/ \E c \in Copy : OtherCopies(c)
  \/ OtherOpens \/ OtherCloses \/ FieldPastes
  \/ Capture \/ CaptureFails
  \/ ReplaceRefused \/ Replace \/ ReplaceRollsBack \/ Commit \/ CommitFails
  \/ Verify \/ BodyRaises \/ Press \/ Settle
  \/ RestoreNotRequested \/ Restore \/ RestoreFails \/ RestoreConflicts
  \/ Release

ClipboardSpec == ClipboardInit /\ [][ClipboardNext]_clipboardVars

-----------------------------------------------------------------------------
(***************************************************************************)
(* Properties.                                                             *)
(***************************************************************************)
\* Types, and when a lock can be left over.
ClipboardTypeOK ==
  /\ data \in Content /\ seq \in Nat /\ sequence \in Nat
  /\ holder \in {"none", "us", "other"} /\ dirty \in BOOLEAN
  /\ copied \subseteq Copy
  /\ at \in {"capture", "replace", "commit", "verify", "again", "press", "settle",
             "restore", "release", "done"}
  /\ kept \in [data : Content, seq : Nat]
  /\ wanted \in BOOLEAN /\ window \in BOOLEAN
  /\ bitmap \in {"none", "ours", "windows", "freed", "leaked"}
  /\ pasted \in {"nothing", "pressed"} \cup Content
  /\ status \in {"not_started", "pending_restore", "not_requested", "restored",
                 "conflict", "restore_failed"}
  /\ faults \in 0 .. MaxFault

\* What another application copied after the snapshot is replaced by nothing
\* but its next copy, whatever fails and whenever (replace_with_text's and
\* restore_if_owned's comparison of the sequence).
NewerCopyKept ==
  [][(data \in Copy /\ (at = "capture" \/ data # kept.data)) => (data' \in Copy)]_clipboardVars

\* A transaction that ends with the user's content lost, replaced by the text
\* or half restored, does not report it restored (__enter__, _cleanup).
Lost == data \in {"ours", "partial"} \/ (data = "empty" /\ kept.data # "empty")

LossIsTold ==
  at = "done" /\ Lost
    => \/ status \in {"restore_failed", "conflict"}
       \/ status = "not_requested" /\ data = "ours"

\* A lock, a window or a bitmap the transaction leaves behind is reported
\* (_cleanup's release).
NothingHeldSilently ==
  at = "done" /\ (holder = "us" \/ window \/ bitmap \in {"ours", "leaked"})
    => status = "restore_failed"

\* Windows keeps a bitmap it was handed: it is not freed under the next
\* application's hands (_bitmap_handles in _restore_snapshot_locked).
SystemBitmapStays == [][bitmap = "windows" => bitmap' = "windows"]_clipboardVars

\* A field that took something else than the text, because of a copy between
\* the last check and the paste, is not reported as a clean success while the
\* clipboard is to be restored (type_text, restore_if_owned).
WrongPasteIsTold ==
  at = "done" /\ wanted /\ pasted \notin {"nothing", "ours"}
    => status \in {"conflict", "restore_failed"}

\* What belongs to others stays theirs: their copies, and the bitmap that was
\* handed to Windows (restore_if_owned, _restore_snapshot_locked).
OthersKeepTheirs == NewerCopyKept /\ SystemBitmapStays

\* The status a transaction ends with hides no loss, nothing that is left held
\* and no wrong paste (_cleanup).
OutcomeIsTold == LossIsTold /\ NothingHeldSilently /\ WrongPasteIsTold
=============================================================================
