----------------------- MODULE AgentCommandJobsProofs -----------------------
(***************************************************************************)
(* Proofs about AgentCommandJobs for any set of commands, any number of    *)
(* steps and hosts, and any choice of the hosts with an HTTP grounder.     *)
(***************************************************************************)
EXTENDS AgentCommandJobs, TLAPS

\* Program points of the worker: with no request, with one nobody has claimed,
\* with a claimed one, and with one that is settled or was never made.
Unasked == {"step", "capture", "direct", "direct_returned"}
Asking  == {"apibegin", "http", "apiclaim", "apifail"}
Holding == {"grounded", "native", "native_returned", "recorded", "parked", "approved", "native2",
            "native2_returned", "zero_reopen", "zero_record", "zero_finish", "unknown_finish",
            "finish"}
Leaving == {"unknown_record", "stepdone", "field", "result", "raise", "exit"}

Unclaimed == Expirable \cup {"absent", "cancelled", "expired"}
Settled   == {"completed", "cancelled", "expired"}

\* Before the dispatch of a step, and from it until the attempt is settled.
Undispatched == Asking \cup {"step", "capture", "prepared", "waiting", "grounded"}
Returned     == {"direct_returned", "native_returned", "native2_returned"}
Unknowing    == {"unknown_finish", "unknown_record"}
Started      == Native \cup Returned \cup Unknowing
Zeroing      == {"parked", "approved", "zero_reopen", "zero_record", "zero_finish"}
Attempting   == Started \cup {"recorded", "parked", "approved", "zero_reopen", "zero_record"}

\* The phase of the current request, from the program point.
RequestInv ==
  active # NoCommand =>
    LET phase == store[Current].phase
    IN  /\ job.pc \in Unasked => phase = "none"
        /\ job.pc \in Asking => phase \in Unclaimed /\ ApiGrounder
        /\ job.pc = "prepared" /\ ApiGrounder => job.resumed /\ phase = "executing"
        /\ job.pc = "prepared" /\ ~ApiGrounder => ~job.pending /\ phase \in Unclaimed
        /\ job.pc = "waiting" /\ job.resumed => phase = "executing"
        /\ job.pc = "waiting" /\ ~job.resumed => phase \in Unclaimed
        /\ job.pc \in Holding => phase = "executing"
        /\ job.pc \in Leaving => phase \in Settled \cup {"none"}
        /\ job.pending => job.pc \in Asking \cup {"prepared", "waiting", "raise", "result", "exit"}
        /\ job.pending /\ ~job.resumed => phase \notin Claimed \cup {"none"}

\* The status and the attempt of the running command's snapshot.
SnapshotInv ==
  active # NoCommand =>
    LET d == disk[active]
    IN  /\ d.status # "absent"
        /\ job.pc # "exit" => d.status \notin Terminal
        /\ d.status = "awaiting_grounding" => job.pc \in {"waiting", "raise", "result"}
        /\ job.pc \in Started \cup {"zero_record"} => d.attempt = "started"
        /\ job.pc \in {"parked", "approved"} => d.attempt = "paused_before_input"
        /\ d.attempt \in {"started", "paused_before_input"} =>
             job.pc \in Started \cup (Zeroing \ {"zero_finish"})

\* Where the input of the current step stands, and what its receipt may say.
InputInv ==
  active # NoCommand =>
    /\ job.pc \in Undispatched => hits[Current] = 0
    /\ job.pc \in Started \cup {"recorded", "finish"} =>
         hits[Current] = (IF job.acted THEN 1 ELSE 0)
    /\ job.pc \in Zeroing => hits[Current] = 0 /\ ~job.claimed /\ ~job.acted
    /\ job.pc \in (Started \cup {"recorded", "finish"})
                     \ {"direct", "direct_returned", "unknown_record"} =>
         (job.acted => job.claimed)
    /\ job.pc \in Returned =>
         /\ job.receipt \in {"done", "failed", "zero", "denied", "unknown"}
         /\ job.receipt \in {"zero", "denied"} => ~job.acted
    /\ job.pc \in Returned \cup {"recorded", "parked", "finish", "stepdone", "field", "result"} =>
         (job.receipt \in {"done", "failed"} => hits[Current] > 0)
    /\ job.pc = "field" => hits[Current] > 0

\* An earlier step of the running command made input.
Earlier == \E r \in Request : r[1] = active /\ r # Current /\ hits[r] > 0

\* While an attempt is open the snapshot does not deny input, and remembers
\* truly what was known before it.
AttemptInv ==
  active # NoCommand =>
    /\ job.pc \in Started => disk[active].executed # "no"
    /\ job.pc \in Attempting => /\ Earlier => disk[active].previous # "no"
                                /\ disk[active].previous = "yes" => Earlier

\* Everything but the current step: later steps have not begun, earlier ones
\* are settled, and a command that was never started has left nothing.
ElsewhereInv ==
  /\ active # NoCommand => up
  /\ \A c \in Command : disk[c].status = "absent" => disk[c].attempt = "none"
  /\ \A r \in Request :
       /\ store[r].owner <= epoch
       /\ store[r].phase = "none" => store[r].owner = 0
       /\ disk[r[1]].status = "absent" => store[r].phase = "none" /\ hits[r] = 0
       /\ r[1] = active /\ r[2] > job.step => store[r].phase = "none" /\ hits[r] = 0
       /\ r[1] = active /\ r[2] < job.step => store[r].phase \in Settled \cup {"none"}

IInv ==
  /\ TypeOK
  /\ RequestInv /\ SnapshotInv /\ InputInv /\ AttemptInv /\ ElsewhereInv
  /\ OneInputPerStep /\ DiskTellsTheTruth /\ StoreTellsTheTruth
  /\ RequestsSettle /\ AttemptSettledAtEnd
-----------------------------------------------------------------------------
\* The current request is the one of the active command and its step.
LEMMA CurrentRequest ==
  ASSUME TypeOK, active # NoCommand
  PROVE  /\ active \in Command /\ Current \in Request
         /\ Current[1] = active /\ Current[2] = job.step
         /\ \A r \in Request : r[1] = active /\ r # Current => r[2] # job.step
<1>1. active \in Command /\ job.step \in 1..MaxSteps
  BY DEF TypeOK
<1> QED BY <1>1 DEF Current, Request

\* Both ways to say that some step of a command made input.
LEMMA SomeInput ==
  ASSUME NEW c \in Command, NEW h
  PROVE  (\E k \in 1..MaxSteps : h[<<c, k>>] > 0) <=> (\E r \in Request : r[1] = c /\ h[r] > 0)
<1>1. ASSUME NEW k \in 1..MaxSteps, h[<<c, k>>] > 0 PROVE \E r \in Request : r[1] = c /\ h[r] > 0
  <2>1. <<c, k>> \in Request /\ <<c, k>>[1] = c BY DEF Request
  <2> QED BY <2>1, <1>1
<1>2. ASSUME NEW r \in Request, r[1] = c, h[r] > 0 PROVE \E k \in 1..MaxSteps : h[<<c, k>>] > 0
  <2>1. r = <<c, r[2]>> /\ r[2] \in 1..MaxSteps BY <1>2 DEF Request
  <2> QED BY <2>1, <1>2
<1> QED BY <1>1, <1>2

\* What the snapshot of a command must say about its input.
Truthful(c) ==
  /\ (\E r \in Request : r[1] = c /\ hits[r] > 0) => disk[c].executed # "no"
  /\ disk[c].executed = "yes" => \E r \in Request : r[1] = c /\ hits[r] > 0

LEMMA TruthfulNow == DiskTellsTheTruth <=> \A c \in Command : Truthful(c)
  BY SomeInput DEF DiskTellsTheTruth, Truthful

LEMMA TruthfulNext == DiskTellsTheTruth' <=> \A c \in Command : Truthful(c)'
  BY SomeInput DEF DiskTellsTheTruth, Truthful

\* A step of the running command, or of a caller at its current request.
Local ==
  /\ active # NoCommand
  /\ epoch' = epoch /\ up' = up /\ active' = active
  /\ job'.step = job.step
  /\ \A c \in Command : c # active => disk'[c] = disk[c]
  /\ \A r \in Request : r # Current => store'[r] = store[r] /\ hits'[r] = hits[r]

\* What the current request must still be.
RequestKept ==
  /\ store'[Current].owner \in {store[Current].owner, epoch}
  /\ store'[Current].phase = "none" => store'[Current].owner = 0
  /\ hits'[Current] <= 1
  /\ store'[Current].phase # "none" /\ hits'[Current] > 0 =>
       /\ store'[Current].phase \in Claimed
       /\ store'[Current].phase = "completed" => store'[Current].attempted

LEMMA LocalStep ==
  ASSUME IInv, Local, RequestKept, TypeOK', RequestInv', SnapshotInv', InputInv', AttemptInv',
         Truthful(active)',
         disk'[active].status \in Terminal => disk'[active].attempt \notin {"started", "paused_before_input"}
  PROVE  IInv'
<1> USE DEF IInv
<1>1. /\ active \in Command /\ Current \in Request
      /\ Current[1] = active /\ Current[2] = job.step
      /\ \A r \in Request : r[1] \in Command
      /\ \A r \in Request : r[1] = active /\ r # Current => r[2] # job.step
  BY CurrentRequest DEF Local, Request
<1>2. ElsewhereInv'
  <2>1. (active' # NoCommand => up') /\ (disk'[active].status = "absent" => FALSE)
    BY DEF Local, SnapshotInv, ElsewhereInv
  <2>2. \A c \in Command : (disk[c].status = "absent" => disk[c].attempt = "none")'
    BY <2>1 DEF Local, ElsewhereInv
  <2>3. ASSUME NEW r \in Request, r # Current
        PROVE  (/\ store[r].owner <= epoch
                /\ store[r].phase = "none" => store[r].owner = 0
                /\ disk[r[1]].status = "absent" => store[r].phase = "none" /\ hits[r] = 0
                /\ r[1] = active /\ r[2] > job.step => store[r].phase = "none" /\ hits[r] = 0
                /\ r[1] = active /\ r[2] < job.step => store[r].phase \in Settled \cup {"none"})'
    BY <1>1, <2>1, <2>3 DEF Local, ElsewhereInv
  <2>4. store'[Current].owner <= epoch' /\ (store'[Current].phase = "none" => store'[Current].owner = 0)
    BY <1>1 DEF Local, RequestKept, ElsewhereInv, TypeOK
  <2>5. job.step \in Nat /\ job'.step = job.step /\ active' = active
    BY DEF Local, TypeOK
  <2> QED BY <1>1, <2>1, <2>2, <2>3, <2>4, <2>5 DEF ElsewhereInv
<1>3. OneInputPerStep'
  BY <1>1 DEF OneInputPerStep, Local, RequestKept
<1>4. DiskTellsTheTruth'
  <2>1. ASSUME NEW c \in Command, c # active PROVE Truthful(c)'
    <3>1. \A r \in Request : r[1] = c => hits'[r] = hits[r]
      BY <1>1, <2>1 DEF Local
    <3>2. Truthful(c) /\ disk'[c] = disk[c]
      BY TruthfulNow, <2>1 DEF Local
    <3> QED BY <3>1, <3>2 DEF Truthful
  <2> QED BY <2>1, TruthfulNext DEF Local
<1>5. StoreTellsTheTruth'
  BY <1>1 DEF StoreTellsTheTruth, Local, RequestKept
<1>6. RequestsSettle'
  BY <1>1 DEF RequestsSettle, Local
<1>7. AttemptSettledAtEnd'
  BY DEF AttemptSettledAtEnd, Local
<1> QED BY <1>2, <1>3, <1>4, <1>5, <1>6, <1>7

\* A thread that has not begun.
JobType == [kind : Kind, pc : PC, step : 1..MaxSteps, cancelled : BOOLEAN, failed : BOOLEAN,
            pending : BOOLEAN, resumed : BOOLEAN, claimed : BOOLEAN, acted : BOOLEAN,
            receipt : Receipt, error : {"none", "cancelled", "error"}, review : Review,
            field : Review, late : BOOLEAN, asleep : BOOLEAN]

LEMMA NewJobType == NewJob \in JobType
  BY BoundAssumption DEF NewJob, JobType, Kind, PC, Receipt, Review

LEMMA InitInv == Init => IInv
<1> SUFFICES ASSUME Init PROVE IInv
  OBVIOUS
<1>1. TypeOK
  <2>1. epoch \in 1..MaxEpoch
    BY BoundAssumption DEF Init
  <2>5. up \in BOOLEAN /\ closed \in BOOLEAN /\ active \in Command \cup {NoCommand} /\ stale \subseteq Request
    BY DEF Init
  <2>2. NoSnapshot \in [status : Status, executed : Fact, attempt : Attempt, previous : Fact,
                        attempts : Nat, cancelRequested : BOOLEAN]
    BY DEF NoSnapshot, Status, Fact, Attempt
  <2>3. NoRecord \in [phase : Phase, owner : Nat, attempted : BOOLEAN]
    BY DEF NoRecord, Phase
  <2>4. hits \in [Request -> Nat]
    BY DEF Init
  <2> QED BY <2>1, <2>2, <2>3, <2>4, <2>5, NewJobType DEF Init, TypeOK, JobType
<1>2. RequestInv /\ SnapshotInv /\ InputInv /\ AttemptInv
  BY DEF Init, RequestInv, SnapshotInv, InputInv, AttemptInv
<1>3. ElsewhereInv /\ OneInputPerStep
  <2>1. \A r \in Request : r[1] \in Command BY DEF Request
  <2> QED BY <2>1, CommandAssumption, BoundAssumption DEF Init, ElsewhereInv, OneInputPerStep,
    NoSnapshot, NoRecord
<1>4. DiskTellsTheTruth
  <2>1. \A r \in Request : ~(hits[r] > 0)
    BY DEF Init
  <2>2. \A c \in Command : disk[c].executed = "no"
    BY DEF Init, NoSnapshot
  <2>3. \A c \in Command : Truthful(c)
    BY <2>1, <2>2 DEF Truthful
  <2> QED BY <2>3, TruthfulNow
<1>5. StoreTellsTheTruth /\ RequestsSettle /\ AttemptSettledAtEnd
  BY DEF Init, StoreTellsTheTruth, RequestsSettle, AttemptSettledAtEnd, NoSnapshot, NoRecord,
    Terminal
<1> QED BY <1>1, <1>2, <1>3, <1>4, <1>5 DEF IInv

LEMMA LocalFacts ==
  ASSUME TypeOK, Local
  PROVE  /\ active \in Command /\ active # NoCommand /\ active' = active
         /\ Current \in Request /\ Current' = Current
         /\ ApiGrounder' = ApiGrounder /\ Earlier' = Earlier
<1>1. active \in Command /\ Current \in Request
  BY CurrentRequest DEF Local
<1>2. Current' = Current
  BY DEF Local, Current
<1> QED BY <1>1, <1>2 DEF Local, ApiGrounder, Earlier

\* The snapshot is true if it is of the earlier steps and of the current one.
LEMMA TruthHere ==
  ASSUME TypeOK, active # NoCommand
  PROVE  Truthful(active) <=> /\ Earlier \/ hits[Current] > 0 => disk[active].executed # "no"
                              /\ disk[active].executed = "yes" => Earlier \/ hits[Current] > 0
  BY CurrentRequest DEF Truthful, Earlier

LEMMA TruthThere ==
  ASSUME TypeOK, Local
  PROVE  Truthful(active)' <=> /\ Earlier \/ hits'[Current] > 0 => disk'[active].executed # "no"
                               /\ disk'[active].executed = "yes" => Earlier \/ hits'[Current] > 0
  BY CurrentRequest DEF Truthful, Earlier, Local

-----------------------------------------------------------------------------
(***************************************************************************)
(* Steps of the thread that touch neither record.                          *)
(***************************************************************************)
Untouched == UNCHANGED <<epoch, up, closed, active, disk, store, stale, hits>>

\* A step of the thread alone keeps the invariant if its new state fits.
LEMMA ThreadStep ==
  ASSUME IInv, active # NoCommand, Untouched, job' \in JobType, job'.step = job.step,
         RequestInv', SnapshotInv', InputInv', AttemptInv'
  PROVE  IInv'
<1> USE DEF IInv
<1>1. Local /\ TypeOK'
  BY DEF Local, Untouched, TypeOK, JobType
<1>2. active \in Command /\ Current' = Current /\ Current \in Request
  BY <1>1, LocalFacts
<1>3. RequestKept
  BY <1>2, CurrentRequest DEF RequestKept, Untouched, ElsewhereInv, OneInputPerStep,
    StoreTellsTheTruth
<1>4. Truthful(active)'
  BY <1>2, TruthfulNow DEF Untouched, Truthful
<1>5. disk'[active].status \in Terminal => disk'[active].attempt \notin {"started", "paused_before_input"}
  BY <1>2 DEF AttemptSettledAtEnd, Untouched
<1> QED BY <1>1, <1>3, <1>4, <1>5, LocalStep

LEMMA ThreadFacts ==
  ASSUME TypeOK, active # NoCommand, Untouched, job'.step = job.step
  PROVE  /\ active \in Command /\ active' = active /\ Current \in Request /\ Current' = Current
         /\ ApiGrounder' = ApiGrounder /\ Earlier' = Earlier
<1>1. Local
  BY DEF Local, Untouched
<1> QED BY <1>1, LocalFacts

\* The program points are spelled out in the proofs of the steps that follow.
USE DEF Unasked, Asking, Holding, Leaving, Unclaimed, Settled, Claimed, Expirable, Terminal, Native,
        Undispatched, Returned, Unknowing, Started, Zeroing, Attempting

LEMMA StepCancelledKeeps ==
  ASSUME IInv, StepCancelled
  PROVE  IInv'
<1> USE DEF IInv
<1>1. active # NoCommand /\ Untouched /\ job' \in JobType /\ job'.step = job.step
  BY DEF StepCancelled, At, Raise, Untouched, TypeOK, JobType, PC, Receipt
<1>2. RequestInv' /\ SnapshotInv'
  BY <1>1, ThreadFacts DEF StepCancelled, At, Raise, Untouched, RequestInv, SnapshotInv, TypeOK
<1>3. InputInv' /\ AttemptInv'
  BY <1>1, ThreadFacts DEF StepCancelled, At, Raise, Untouched, InputInv, AttemptInv, TypeOK
<1> QED BY <1>1, <1>2, <1>3, ThreadStep

LEMMA StepRefusedKeeps ==
  ASSUME IInv, StepRefused
  PROVE  IInv'
<1> USE DEF IInv
<1>1. active # NoCommand /\ Untouched /\ job' \in JobType /\ job'.step = job.step
  BY DEF StepRefused, At, Raise, Untouched, TypeOK, JobType, PC, Receipt
<1>2. RequestInv' /\ SnapshotInv'
  BY <1>1, ThreadFacts DEF StepRefused, At, Raise, Untouched, RequestInv, SnapshotInv, TypeOK
<1>3. InputInv' /\ AttemptInv'
  BY <1>1, ThreadFacts DEF StepRefused, At, Raise, Untouched, InputInv, AttemptInv, TypeOK
<1> QED BY <1>1, <1>2, <1>3, ThreadStep

LEMMA SelectionSatisfiedKeeps ==
  ASSUME IInv, SelectionSatisfied
  PROVE  IInv'
<1> USE DEF IInv
<1>1. active # NoCommand /\ Untouched /\ job' \in JobType /\ job'.step = job.step
  BY DEF SelectionSatisfied, At, Untouched, TypeOK, JobType, PC, Receipt
<1>2. RequestInv' /\ SnapshotInv'
  BY <1>1, ThreadFacts DEF SelectionSatisfied, At, Untouched, RequestInv, SnapshotInv, TypeOK
<1>3. InputInv' /\ AttemptInv'
  BY <1>1, ThreadFacts DEF SelectionSatisfied, At, Untouched, InputInv, AttemptInv, TypeOK
<1> QED BY <1>1, <1>2, <1>3, ThreadStep

LEMMA VisualStepKeeps ==
  ASSUME IInv, VisualStep
  PROVE  IInv'
<1> USE DEF IInv
<1>1. active # NoCommand /\ Untouched /\ job' \in JobType /\ job'.step = job.step
  BY DEF VisualStep, At, Goto, Untouched, TypeOK, JobType, PC, Receipt
<1>2. RequestInv' /\ SnapshotInv'
  BY <1>1, ThreadFacts DEF VisualStep, At, Goto, Untouched, RequestInv, SnapshotInv, TypeOK
<1>3. InputInv' /\ AttemptInv'
  BY <1>1, ThreadFacts DEF VisualStep, At, Goto, Untouched, InputInv, AttemptInv, TypeOK
<1> QED BY <1>1, <1>2, <1>3, ThreadStep

LEMMA CaptureRefusedKeeps ==
  ASSUME IInv, CaptureRefused
  PROVE  IInv'
<1> USE DEF IInv
<1>1. active # NoCommand /\ Untouched /\ job.pc = "capture"
  BY DEF CaptureRefused, At, Untouched
<1>2. CASE job' = [job EXCEPT !.pc = "stepdone", !.receipt = "uncaptured"]
  <2>1. job' \in JobType /\ job'.step = job.step
    BY <1>2 DEF TypeOK, JobType, PC, Receipt
  <2>2. RequestInv' /\ SnapshotInv'
    BY <1>1, <1>2, <2>1, ThreadFacts DEF Untouched, RequestInv, SnapshotInv, TypeOK
  <2>3. InputInv' /\ AttemptInv'
    BY <1>1, <1>2, <2>1, ThreadFacts DEF Untouched, InputInv, AttemptInv, TypeOK
  <2> QED BY <1>1, <2>1, <2>2, <2>3, ThreadStep
<1>3. CASE job' = [job EXCEPT !.pc = "raise", !.error = "error"]
  <2>1. job' \in JobType /\ job'.step = job.step
    BY <1>3 DEF TypeOK, JobType, PC
  <2>2. RequestInv' /\ SnapshotInv'
    BY <1>1, <1>3, <2>1, ThreadFacts DEF Untouched, RequestInv, SnapshotInv, TypeOK
  <2>3. InputInv' /\ AttemptInv'
    BY <1>1, <1>3, <2>1, ThreadFacts DEF Untouched, InputInv, AttemptInv, TypeOK
  <2> QED BY <1>1, <2>1, <2>2, <2>3, ThreadStep
<1> QED BY <1>2, <1>3 DEF CaptureRefused, Raise

LEMMA NativeClaimKeeps ==
  ASSUME IInv, NativeClaim
  PROVE  IInv'
<1> USE DEF IInv
<1>1. active # NoCommand /\ Untouched /\ job' \in JobType /\ job'.step = job.step
  BY DEF NativeClaim, At, Untouched, TypeOK, JobType, PC, Receipt
<1>2. RequestInv' /\ SnapshotInv'
  BY <1>1, ThreadFacts DEF NativeClaim, At, Untouched, RequestInv, SnapshotInv, TypeOK
<1>3. InputInv' /\ AttemptInv'
  BY <1>1, ThreadFacts DEF NativeClaim, At, Untouched, InputInv, AttemptInv, TypeOK
<1> QED BY <1>1, <1>2, <1>3, ThreadStep

LEMMA NativeReturnKeeps ==
  ASSUME IInv, NEW o \in {"done", "failed", "zero", "denied", "unknown"}, NativeReturn(o)
  PROVE  IInv'
<1> USE DEF IInv
<1>1. active # NoCommand /\ Untouched
  BY DEF NativeReturn, At, Untouched
<1>2. PICK p \in Returned : /\ job' = [job EXCEPT !.receipt = o, !.pc = p]
                            /\ job.pc = "direct" => p = "direct_returned"
                            /\ job.pc # "direct" => job.pc \in Native /\ p # "direct_returned"
  <2>1. job.pc \in Native
    BY DEF NativeReturn, At
  <2>2. CASE job.pc = "direct"
    BY <2>2 DEF NativeReturn
  <2>3. CASE job.pc = "native"
    BY <2>3 DEF NativeReturn
  <2>4. CASE job.pc = "native2"
    BY <2>4 DEF NativeReturn
  <2> QED BY <2>1, <2>2, <2>3, <2>4
<1>3. job.pc \in Native
  BY DEF NativeReturn, At
<1>4. job' \in JobType /\ job'.step = job.step /\ job'.pc = p /\ job'.receipt = o
  BY <1>2 DEF TypeOK, JobType, PC, Receipt
<1>5. job'.acted = job.acted /\ job'.claimed = job.claimed /\ job'.pending = job.pending /\ job'.resumed = job.resumed
  BY <1>2 DEF TypeOK
<1>6. RequestInv' /\ SnapshotInv'
  BY <1>1, <1>2, <1>3, <1>4, <1>5, ThreadFacts DEF Untouched, RequestInv, SnapshotInv
<1>7. (o \in {"done", "failed"} => job.acted) /\ (o \in {"zero", "denied"} => ~job.acted)
  BY DEF NativeReturn
<1>8. InputInv' /\ AttemptInv'
  BY <1>1, <1>2, <1>3, <1>4, <1>5, <1>7, ThreadFacts DEF Untouched, InputInv, AttemptInv
<1> QED BY <1>1, <1>4, <1>6, <1>8, ThreadStep

LEMMA NativeRaiseKeeps ==
  ASSUME IInv, NativeRaise
  PROVE  IInv'
<1> USE DEF IInv
<1>1. active # NoCommand /\ Untouched /\ job' \in JobType /\ job'.step = job.step
  BY DEF NativeRaise, At, Untouched, TypeOK, JobType, PC, Receipt
<1>2. RequestInv' /\ SnapshotInv'
  BY <1>1, ThreadFacts DEF NativeRaise, At, Untouched, RequestInv, SnapshotInv, TypeOK
<1>3. InputInv' /\ AttemptInv'
  BY <1>1, ThreadFacts DEF NativeRaise, At, Untouched, InputInv, AttemptInv, TypeOK
<1> QED BY <1>1, <1>2, <1>3, ThreadStep

LEMMA SkipReviewKeeps ==
  ASSUME IInv, SkipReview
  PROVE  IInv'
<1> USE DEF IInv
<1>1. active # NoCommand /\ Untouched /\ job' \in JobType /\ job'.step = job.step
  BY DEF SkipReview, At, Goto, Untouched, TypeOK, JobType, PC, Receipt
<1>2. RequestInv' /\ SnapshotInv'
  BY <1>1, ThreadFacts DEF SkipReview, At, Goto, Untouched, RequestInv, SnapshotInv, TypeOK
<1>3. InputInv' /\ AttemptInv'
  BY <1>1, ThreadFacts DEF SkipReview, At, Goto, Untouched, InputInv, AttemptInv, TypeOK
<1> QED BY <1>1, <1>2, <1>3, ThreadStep

LEMMA ReviewEndedKeeps ==
  ASSUME IInv, ReviewEnded
  PROVE  IInv'
<1> USE DEF IInv
<1>1. active # NoCommand /\ Untouched /\ job' \in JobType /\ job'.step = job.step
  BY DEF ReviewEnded, At, Goto, Untouched, TypeOK, JobType, PC, Receipt
<1>2. RequestInv' /\ SnapshotInv'
  BY <1>1, ThreadFacts DEF ReviewEnded, At, Goto, Untouched, RequestInv, SnapshotInv, TypeOK
<1>3. InputInv' /\ AttemptInv'
  BY <1>1, ThreadFacts DEF ReviewEnded, At, Goto, Untouched, InputInv, AttemptInv, TypeOK
<1> QED BY <1>1, <1>2, <1>3, ThreadStep

LEMMA ReviewBrokenKeeps ==
  ASSUME IInv, ReviewBroken
  PROVE  IInv'
<1> USE DEF IInv
<1>1. active # NoCommand /\ Untouched /\ job' \in JobType /\ job'.step = job.step
  BY DEF ReviewBroken, At, Goto, Untouched, TypeOK, JobType, PC, Receipt
<1>2. RequestInv' /\ SnapshotInv'
  BY <1>1, ThreadFacts DEF ReviewBroken, At, Goto, Untouched, RequestInv, SnapshotInv, TypeOK
<1>3. InputInv' /\ AttemptInv'
  BY <1>1, ThreadFacts DEF ReviewBroken, At, Goto, Untouched, InputInv, AttemptInv, TypeOK
<1> QED BY <1>1, <1>2, <1>3, ThreadStep

LEMMA ReviewApprovedKeeps ==
  ASSUME IInv, ReviewApproved
  PROVE  IInv'
<1> USE DEF IInv
<1>1. active # NoCommand /\ Untouched /\ job' \in JobType /\ job'.step = job.step
  BY DEF ReviewApproved, At, Goto, Untouched, TypeOK, JobType, PC, Receipt
<1>2. RequestInv' /\ SnapshotInv'
  BY <1>1, ThreadFacts DEF ReviewApproved, At, Goto, Untouched, RequestInv, SnapshotInv, TypeOK
<1>3. InputInv' /\ AttemptInv'
  BY <1>1, ThreadFacts DEF ReviewApproved, At, Goto, Untouched, InputInv, AttemptInv, TypeOK
<1> QED BY <1>1, <1>2, <1>3, ThreadStep

LEMMA FieldWakeKeeps ==
  ASSUME IInv, FieldWake
  PROVE  IInv'
<1> USE DEF IInv
<1>1. active # NoCommand /\ Untouched /\ job.pc = "field"
  BY DEF FieldWake, At, Untouched
<1>2. \/ job' = [job EXCEPT !.pc = "raise", !.error = "cancelled"]
      \/ job' = [job EXCEPT !.pc = "stepdone"]
      \/ job' = [job EXCEPT !.pc = "result", !.receipt = "failed"]
      \/ job' = [job EXCEPT !.asleep = TRUE]
  <2>1. CASE job.cancelled \/ closed
    BY <2>1 DEF FieldWake
  <2>2. CASE ~(job.cancelled \/ closed) /\ job.field = "continued"
    BY <2>2 DEF FieldWake
  <2>3. CASE ~(job.cancelled \/ closed) /\ job.field = "failure"
    BY <2>3 DEF FieldWake
  <2>4. CASE ~(job.cancelled \/ closed) /\ job.field \notin {"continued", "failure"}
    BY <2>4 DEF FieldWake
  <2> QED BY <2>1, <2>2, <2>3, <2>4
<1>3. job' \in JobType /\ job'.step = job.step
  <2> job \in JobType
    BY DEF TypeOK, JobType
  <2>1. [job EXCEPT !.pc = "raise", !.error = "cancelled"] \in JobType
    BY DEF JobType, PC, Receipt
  <2>2. [job EXCEPT !.pc = "stepdone"] \in JobType
    BY DEF JobType, PC, Receipt
  <2>3. [job EXCEPT !.pc = "result", !.receipt = "failed"] \in JobType
    BY DEF JobType, PC, Receipt
  <2>4. [job EXCEPT !.asleep = TRUE] \in JobType
    BY DEF JobType, PC, Receipt
  <2>5. job' \in JobType
    BY <1>2, <2>1, <2>2, <2>3, <2>4
  <2> QED BY <1>2, <2>5 DEF JobType
<1>4. /\ job'.pc \in {"raise", "stepdone", "result", "field"}
      /\ job'.pending = job.pending /\ job'.resumed = job.resumed
      /\ job'.pc \in {"stepdone", "result", "field"} => hits[Current] > 0
  <2>1. job.pc \in {"field"} /\ hits[Current] > 0
    BY <1>1 DEF InputInv
  <2>2. job'.pc \in {"raise", "stepdone", "result", "field"}
    BY <1>1, <1>2 DEF TypeOK, JobType
  <2>3. job'.pending = job.pending /\ job'.resumed = job.resumed
    BY <1>2 DEF TypeOK, JobType
  <2> QED BY <2>1, <2>2, <2>3
<1>5. RequestInv' /\ SnapshotInv'
  BY <1>1, <1>3, <1>4, ThreadFacts DEF Untouched, RequestInv, SnapshotInv, TypeOK
<1>6. InputInv' /\ AttemptInv'
  BY <1>1, <1>3, <1>4, ThreadFacts DEF Untouched, InputInv, AttemptInv, TypeOK
<1> QED BY <1>1, <1>3, <1>5, <1>6, ThreadStep

LEMMA InterruptedKeeps ==
  ASSUME IInv, Interrupted
  PROVE  IInv'
<1> USE DEF IInv
<1>1. active # NoCommand /\ Untouched /\ job' \in JobType /\ job'.step = job.step
  BY DEF Interrupted, At, Untouched, TypeOK, JobType, PC, Receipt
<1>2. RequestInv' /\ SnapshotInv'
  BY <1>1, ThreadFacts DEF Interrupted, At, Untouched, RequestInv, SnapshotInv, TypeOK
<1>3. InputInv' /\ AttemptInv'
  BY <1>1, ThreadFacts DEF Interrupted, At, Untouched, InputInv, AttemptInv, TypeOK
<1> QED BY <1>1, <1>2, <1>3, ThreadStep

LEMMA ReviewPreActionKeeps ==
  ASSUME IInv, NEW v \in Verdict, ReviewPreAction(v)
  PROVE  IInv'
<1> USE DEF IInv
<1>1. active # NoCommand /\ Untouched /\ job' \in JobType /\ job'.step = job.step
  BY DEF ReviewPreAction, Verdict, Review, Untouched, TypeOK, JobType, PC, Receipt
<1>2. RequestInv' /\ SnapshotInv'
  BY <1>1, ThreadFacts DEF ReviewPreAction, Verdict, Review, Untouched, RequestInv,
    SnapshotInv, TypeOK
<1>3. InputInv' /\ AttemptInv'
  BY <1>1, ThreadFacts DEF ReviewPreAction, Verdict, Review, Untouched, InputInv, AttemptInv,
    TypeOK
<1> QED BY <1>1, <1>2, <1>3, ThreadStep

LEMMA ReviewFieldKeeps ==
  ASSUME IInv, NEW v \in Verdict, ReviewField(v)
  PROVE  IInv'
<1> USE DEF IInv
<1>1. active # NoCommand /\ Untouched /\ job' \in JobType /\ job'.step = job.step
  <2>1. (job.asleep /\ v # "failure") \in BOOLEAN /\ v \in Review
    BY DEF Verdict, Review
  <2>2. job \in JobType
    BY DEF TypeOK, JobType
  <2>3. [job EXCEPT !.field = v, !.asleep = job.asleep /\ v # "failure"] \in JobType
    BY <2>1, <2>2 DEF JobType
  <2> QED BY <2>2, <2>3 DEF ReviewField, Untouched, JobType
<1>2. RequestInv' /\ SnapshotInv'
  BY <1>1, ThreadFacts DEF ReviewField, Untouched, RequestInv, SnapshotInv, TypeOK
<1>3. InputInv' /\ AttemptInv'
  BY <1>1, ThreadFacts DEF ReviewField, Untouched, InputInv, AttemptInv, TypeOK
<1> QED BY <1>1, <1>2, <1>3, ThreadStep

LEMMA ReviewExpiresKeeps ==
  ASSUME IInv, ReviewExpires
  PROVE  IInv'
<1> USE DEF IInv
<1>1. active # NoCommand /\ Untouched /\ job' \in JobType /\ job'.step = job.step
  BY DEF ReviewExpires, Untouched, TypeOK, JobType, PC, Receipt
<1>2. RequestInv' /\ SnapshotInv'
  BY <1>1, ThreadFacts DEF ReviewExpires, Untouched, RequestInv, SnapshotInv, TypeOK
<1>3. InputInv' /\ AttemptInv'
  BY <1>1, ThreadFacts DEF ReviewExpires, Untouched, InputInv, AttemptInv, TypeOK
<1> QED BY <1>1, <1>2, <1>3, ThreadStep

-----------------------------------------------------------------------------
(***************************************************************************)
(* Steps that write the snapshot of the running command.                   *)
(***************************************************************************)
SnapshotType == [status : Status, executed : Fact, attempt : Attempt, previous : Fact,
                 attempts : Nat, cancelRequested : BOOLEAN]
DiskType     == [Command -> SnapshotType]

SnapshotOnly ==
  /\ UNCHANGED <<epoch, up, closed, active, store, stale, hits>>
  /\ \A c \in Command : c # active => disk'[c] = disk[c]

\* The written snapshot is true, and settles the attempt if it ends the command.
TrueThere ==
  /\ Earlier \/ hits[Current] > 0 => disk'[active].executed # "no"
  /\ disk'[active].executed = "yes" => Earlier \/ hits[Current] > 0

SettledThere ==
  disk'[active].status \in Terminal => disk'[active].attempt \notin {"started", "paused_before_input"}

LEMMA SnapshotStep ==
  ASSUME IInv, active # NoCommand, SnapshotOnly, job' \in JobType, job'.step = job.step, disk' \in DiskType,
         RequestInv', SnapshotInv', InputInv', AttemptInv',
         TrueThere, SettledThere
  PROVE  IInv'
<1> USE DEF IInv
<1>1. Local
  BY DEF Local, SnapshotOnly
<1>2. TypeOK'
  BY DEF SnapshotOnly, TypeOK, JobType, DiskType, SnapshotType
<1>3. RequestKept
  BY <1>1, CurrentRequest DEF RequestKept, SnapshotOnly, ElsewhereInv, OneInputPerStep,
    StoreTellsTheTruth
<1>4. Truthful(active)'
  BY <1>1, TruthThere DEF SnapshotOnly, TrueThere
<1> QED BY <1>1, <1>2, <1>3, <1>4, LocalStep DEF SettledThere

LEMMA SnapshotFacts ==
  ASSUME TypeOK, active # NoCommand, SnapshotOnly, job'.step = job.step
  PROVE  /\ active \in Command /\ active' = active /\ Current \in Request /\ Current' = Current
         /\ ApiGrounder' = ApiGrounder /\ Earlier' = Earlier
<1>1. Local
  BY DEF Local, SnapshotOnly
<1> QED BY <1>1, LocalFacts

LEMMA FactType ==
  /\ \A p, q \in Fact : Merge(p, q) \in Fact
  /\ \A o : ReceiptAction(o) \in Fact
  BY DEF Fact, Merge, ReceiptAction

\* What the writes of the snapshot leave well-formed.
LEMMA WriteReceipt ==
  ASSUME TypeOK, active \in Command, NEW a \in Attempt, NEW f \in Fact,
         disk' = [disk EXCEPT ![active].attempt = a, ![active].executed = f]
  PROVE  disk' \in DiskType
<1>1. disk \in DiskType
  BY DEF TypeOK, DiskType, SnapshotType
<1>2. [disk[active] EXCEPT !.attempt = a, !.executed = f] \in SnapshotType
  BY <1>1 DEF DiskType, SnapshotType
<1>3. disk' = [disk EXCEPT ![active] = [disk[active] EXCEPT !.attempt = a, !.executed = f]]
  BY <1>1 DEF DiskType, SnapshotType
<1> QED BY <1>1, <1>2, <1>3 DEF DiskType

LEMMA WritePark ==
  ASSUME TypeOK, active \in Command, NEW s \in Status, NEW a \in Attempt,
         disk' = [disk EXCEPT ![active].status = s, ![active].attempt = a]
  PROVE  disk' \in DiskType
<1>1. disk \in DiskType
  BY DEF TypeOK, DiskType, SnapshotType
<1>2. [disk[active] EXCEPT !.status = s, !.attempt = a] \in SnapshotType
  BY <1>1 DEF DiskType, SnapshotType
<1>3. disk' = [disk EXCEPT ![active] = [disk[active] EXCEPT !.status = s, !.attempt = a]]
  BY <1>1 DEF DiskType, SnapshotType
<1> QED BY <1>1, <1>2, <1>3 DEF DiskType

LEMMA WriteEnd ==
  ASSUME TypeOK, active \in Command, NEW s \in Status, NEW f \in Fact,
         disk' = [disk EXCEPT ![active].status = s, ![active].executed = f]
  PROVE  disk' \in DiskType
<1>1. disk \in DiskType
  BY DEF TypeOK, DiskType, SnapshotType
<1>2. [disk[active] EXCEPT !.status = s, !.executed = f] \in SnapshotType
  BY <1>1 DEF DiskType, SnapshotType
<1>3. disk' = [disk EXCEPT ![active] = [disk[active] EXCEPT !.status = s, !.executed = f]]
  BY <1>1 DEF DiskType, SnapshotType
<1> QED BY <1>1, <1>2, <1>3 DEF DiskType

LEMMA WriteProgress ==
  ASSUME TypeOK, active \in Command, NEW f \in Fact,
         disk' = [disk EXCEPT ![active].executed = f]
  PROVE  disk' \in DiskType
<1>1. disk \in DiskType
  BY DEF TypeOK, DiskType, SnapshotType
<1>2. [disk[active] EXCEPT !.executed = f] \in SnapshotType
  BY <1>1 DEF DiskType, SnapshotType
<1>3. disk' = [disk EXCEPT ![active] = [disk[active] EXCEPT !.executed = f]]
  BY <1>1 DEF DiskType, SnapshotType
<1> QED BY <1>1, <1>2, <1>3 DEF DiskType

LEMMA WriteStatus ==
  ASSUME TypeOK, active \in Command, NEW s \in Status, disk' = [disk EXCEPT ![active].status = s]
  PROVE  disk' \in DiskType
<1>1. disk \in DiskType
  BY DEF TypeOK, DiskType, SnapshotType
<1>2. [disk[active] EXCEPT !.status = s] \in SnapshotType
  BY <1>1 DEF DiskType, SnapshotType
<1>3. disk' = [disk EXCEPT ![active] = [disk[active] EXCEPT !.status = s]]
  BY <1>1 DEF DiskType, SnapshotType
<1> QED BY <1>1, <1>2, <1>3 DEF DiskType

LEMMA DirectDispatchKeeps ==
  ASSUME IInv, DirectDispatch
  PROVE  IInv'
<1> USE DEF IInv
<1>1. active # NoCommand /\ active \in Command /\ SnapshotOnly /\ job'.step = job.step
  BY DEF DirectDispatch, At, BeginDispatch, SnapshotOnly, TypeOK
<1>2. job' \in JobType
  BY <1>1 DEF DirectDispatch, At, BeginDispatch, TypeOK, JobType, PC, Receipt, Review
<1>3. disk' \in DiskType
  BY <1>1, FactType DEF DirectDispatch, At, BeginDispatch, TypeOK, DiskType, SnapshotType,
    Status, Attempt, Fact
<1>4. RequestInv' /\ SnapshotInv'
  BY <1>1, SnapshotFacts DEF DirectDispatch, At, BeginDispatch, Merge, SnapshotOnly,
    RequestInv, SnapshotInv, TypeOK
<1>5. InputInv' /\ AttemptInv'
  BY <1>1, SnapshotFacts, TruthHere, TruthfulNow DEF DirectDispatch, At, BeginDispatch, Merge,
    SnapshotOnly, InputInv, AttemptInv, TypeOK, Fact
<1>6. TrueThere /\ SettledThere
  BY <1>1, TruthHere, TruthfulNow DEF DirectDispatch, At, BeginDispatch, Merge, TrueThere,
    SettledThere, SnapshotInv, AttemptInv, InputInv, TypeOK, Fact
<1> QED BY <1>1, <1>2, <1>3, <1>4, <1>5, <1>6, SnapshotStep

LEMMA GroundedDispatchKeeps ==
  ASSUME IInv, GroundedDispatch
  PROVE  IInv'
<1> USE DEF IInv
<1>1. active # NoCommand /\ active \in Command /\ SnapshotOnly /\ job'.step = job.step
  BY DEF GroundedDispatch, At, BeginDispatch, SnapshotOnly, TypeOK
<1>2. job' \in JobType
  BY <1>1 DEF GroundedDispatch, At, BeginDispatch, TypeOK, JobType, PC, Receipt, Review
<1>3. disk' \in DiskType
  BY <1>1, FactType DEF GroundedDispatch, At, BeginDispatch, TypeOK, DiskType, SnapshotType,
    Status, Attempt, Fact
<1>4. RequestInv' /\ SnapshotInv'
  BY <1>1, SnapshotFacts DEF GroundedDispatch, At, BeginDispatch, Merge, SnapshotOnly,
    RequestInv, SnapshotInv, TypeOK
<1>5. InputInv' /\ AttemptInv'
  BY <1>1, SnapshotFacts, TruthHere, TruthfulNow DEF GroundedDispatch, At, BeginDispatch,
    Merge, SnapshotOnly, InputInv, AttemptInv, TypeOK, Fact
<1>6. TrueThere /\ SettledThere
  BY <1>1, TruthHere, TruthfulNow DEF GroundedDispatch, At, BeginDispatch, Merge, TrueThere,
    SettledThere, SnapshotInv, AttemptInv, InputInv, TypeOK, Fact
<1> QED BY <1>1, <1>2, <1>3, <1>4, <1>5, <1>6, SnapshotStep

LEMMA GroundingResumedKeeps ==
  ASSUME IInv, GroundingResumed
  PROVE  IInv'
<1> USE DEF IInv
<1>1. active # NoCommand /\ active \in Command /\ SnapshotOnly /\ job'.step = job.step
  BY DEF GroundingResumed, At, SnapshotOnly, TypeOK
<1>2. job' \in JobType
  BY <1>1 DEF GroundingResumed, At, TypeOK, JobType, PC, Receipt, Review
<1>3. disk' \in DiskType
  <2>1. "running" \in Status
    BY DEF Status
  <2> QED BY <1>1, <2>1, WriteStatus DEF GroundingResumed
<1>4. RequestInv' /\ SnapshotInv'
  BY <1>1, SnapshotFacts DEF GroundingResumed, At, SnapshotOnly, RequestInv, SnapshotInv, TypeOK
<1>5. InputInv' /\ AttemptInv'
  BY <1>1, SnapshotFacts, TruthHere, TruthfulNow DEF GroundingResumed, At, SnapshotOnly,
    InputInv, AttemptInv, TypeOK, Fact
<1>6. TrueThere /\ SettledThere
  BY <1>1, TruthHere, TruthfulNow DEF GroundingResumed, At, TrueThere, SettledThere,
    SnapshotInv, AttemptInv, InputInv, TypeOK, Fact
<1> QED BY <1>1, <1>2, <1>3, <1>4, <1>5, <1>6, SnapshotStep

LEMMA DirectReturnedKeeps ==
  ASSUME IInv, DirectReturned
  PROVE  IInv'
<1> USE DEF IInv
<1>1. active # NoCommand /\ active \in Command /\ SnapshotOnly /\ job'.step = job.step
  BY DEF DirectReturned, At, RecordReceipt, Goto, SnapshotOnly, TypeOK
<1>2. job' \in JobType
  BY <1>1 DEF DirectReturned, At, RecordReceipt, Goto, TypeOK, JobType, PC, Receipt, Review
<1>3. disk' \in DiskType
  <2>1. /\ "returned" \in Attempt
        /\ Merge(disk[active].previous, ReceiptAction(job.receipt)) \in Fact
    BY <1>1, FactType DEF TypeOK, Fact, Attempt, Status
  <2> QED BY <1>1, <2>1, WriteReceipt DEF DirectReturned, RecordReceipt
<1>4. RequestInv' /\ SnapshotInv'
  BY <1>1, SnapshotFacts DEF DirectReturned, At, RecordReceipt, Goto, Merge, ReceiptAction,
    SnapshotOnly, RequestInv, SnapshotInv, TypeOK
<1>5. InputInv' /\ AttemptInv'
  BY <1>1, SnapshotFacts, TruthHere, TruthfulNow DEF DirectReturned, At, RecordReceipt, Goto,
    Merge, ReceiptAction, SnapshotOnly, InputInv, AttemptInv, TypeOK, Fact
<1>6. TrueThere /\ SettledThere
  BY <1>1, TruthHere, TruthfulNow DEF DirectReturned, At, RecordReceipt, Goto, Merge,
    ReceiptAction, TrueThere, SettledThere, SnapshotInv, AttemptInv, InputInv, TypeOK, Fact
<1> QED BY <1>1, <1>2, <1>3, <1>4, <1>5, <1>6, SnapshotStep

LEMMA NativeReturnedKeeps ==
  ASSUME IInv, NativeReturned
  PROVE  IInv'
<1> USE DEF IInv
<1>1. active # NoCommand /\ active \in Command /\ SnapshotOnly /\ job'.step = job.step
  BY DEF NativeReturned, At, RecordReceipt, Goto, SnapshotOnly, TypeOK
<1>2. job' \in JobType
  BY <1>1 DEF NativeReturned, At, RecordReceipt, Goto, TypeOK, JobType, PC, Receipt, Review
<1>3. disk' \in DiskType
  <2>1. /\ "returned" \in Attempt
        /\ Merge(disk[active].previous, ReceiptAction(job.receipt)) \in Fact
    BY <1>1, FactType DEF TypeOK, Fact, Attempt, Status
  <2> QED BY <1>1, <2>1, WriteReceipt DEF NativeReturned, RecordReceipt
<1>4. RequestInv' /\ SnapshotInv'
  BY <1>1, SnapshotFacts DEF NativeReturned, At, RecordReceipt, Goto, Merge, ReceiptAction,
    SnapshotOnly, RequestInv, SnapshotInv, TypeOK
<1>5. InputInv' /\ AttemptInv'
  BY <1>1, SnapshotFacts, TruthHere, TruthfulNow DEF NativeReturned, At, RecordReceipt, Goto,
    Merge, ReceiptAction, SnapshotOnly, InputInv, AttemptInv, TypeOK, Fact
<1>6. TrueThere /\ SettledThere
  BY <1>1, TruthHere, TruthfulNow DEF NativeReturned, At, RecordReceipt, Goto, Merge,
    ReceiptAction, TrueThere, SettledThere, SnapshotInv, AttemptInv, InputInv, TypeOK, Fact
<1> QED BY <1>1, <1>2, <1>3, <1>4, <1>5, <1>6, SnapshotStep

LEMMA RecordUnknownKeeps ==
  ASSUME IInv, RecordUnknown
  PROVE  IInv'
<1> USE DEF IInv
<1>1. active # NoCommand /\ active \in Command /\ SnapshotOnly /\ job'.step = job.step
  BY DEF RecordUnknown, At, Raise, SnapshotOnly, TypeOK
<1>2. job' \in JobType
  <2>1. PICK e \in {"error", "cancelled"} : Raise(e)
    BY DEF RecordUnknown
  <2> QED BY <2>1 DEF Raise, TypeOK, JobType, PC
<1>3. disk' \in DiskType
  <2>1. "unknown" \in Attempt /\ Merge(disk[active].previous, "unknown") \in Fact
    BY <1>1, FactType DEF TypeOK, Fact, Attempt, Status
  <2> QED BY <1>1, <2>1, WriteReceipt DEF RecordUnknown
<1>4. RequestInv' /\ SnapshotInv'
  BY <1>1, SnapshotFacts DEF RecordUnknown, At, Raise, Merge, ReceiptAction, SnapshotOnly,
    RequestInv, SnapshotInv, TypeOK
<1>5. InputInv' /\ AttemptInv'
  BY <1>1, SnapshotFacts, TruthHere, TruthfulNow DEF RecordUnknown, At, Raise, Merge,
    ReceiptAction, SnapshotOnly, InputInv, AttemptInv, TypeOK, Fact
<1>6. TrueThere /\ SettledThere
  BY <1>1, TruthHere, TruthfulNow DEF RecordUnknown, At, Raise, Merge, ReceiptAction,
    TrueThere, SettledThere, SnapshotInv, AttemptInv, InputInv, TypeOK, Fact
<1> QED BY <1>1, <1>2, <1>3, <1>4, <1>5, <1>6, SnapshotStep

LEMMA ParkKeeps ==
  ASSUME IInv, Park
  PROVE  IInv'
<1> USE DEF IInv
<1>1. active # NoCommand /\ active \in Command /\ SnapshotOnly /\ job'.step = job.step
  BY DEF Park, At, Parkable, SnapshotOnly, TypeOK
<1>2. job' \in JobType
  BY <1>1 DEF Park, At, Parkable, TypeOK, JobType, PC, Receipt, Review
<1>3. disk' \in DiskType
  <2>1. "paused_before_input" \in Attempt /\ "awaiting_pre_action_review" \in Status
    BY <1>1, FactType DEF TypeOK, Fact, Attempt, Status
  <2> QED BY <1>1, <2>1, WritePark DEF Park
<1>4. RequestInv' /\ SnapshotInv'
  BY <1>1, SnapshotFacts DEF Park, At, Parkable, SnapshotOnly, RequestInv, SnapshotInv, TypeOK
<1>5. InputInv' /\ AttemptInv'
  BY <1>1, SnapshotFacts, TruthHere, TruthfulNow DEF Park, At, Parkable, SnapshotOnly,
    InputInv, AttemptInv, TypeOK, Fact
<1>6. TrueThere /\ SettledThere
  BY <1>1, TruthHere, TruthfulNow DEF Park, At, Parkable, TrueThere, SettledThere, SnapshotInv,
    AttemptInv, InputInv, TypeOK, Fact
<1> QED BY <1>1, <1>2, <1>3, <1>4, <1>5, <1>6, SnapshotStep

LEMMA ReviewRejectedKeeps ==
  ASSUME IInv, ReviewRejected
  PROVE  IInv'
<1> USE DEF IInv
<1>1. active # NoCommand /\ active \in Command /\ SnapshotOnly /\ job'.step = job.step
  BY DEF ReviewRejected, At, Goto, SnapshotOnly, TypeOK
<1>2. job' \in JobType
  BY <1>1 DEF ReviewRejected, At, Goto, TypeOK, JobType, PC, Receipt, Review
<1>3. disk' \in DiskType
  BY <1>1, FactType DEF ReviewRejected, At, Goto, TypeOK, DiskType, SnapshotType, Status,
    Attempt, Fact
<1>4. RequestInv' /\ SnapshotInv'
  BY <1>1, SnapshotFacts DEF ReviewRejected, At, Goto, SnapshotOnly, RequestInv, SnapshotInv,
    TypeOK
<1>5. InputInv' /\ AttemptInv'
  BY <1>1, SnapshotFacts, TruthHere, TruthfulNow DEF ReviewRejected, At, Goto, SnapshotOnly,
    InputInv, AttemptInv, TypeOK, Fact
<1>6. TrueThere /\ SettledThere
  BY <1>1, TruthHere, TruthfulNow DEF ReviewRejected, At, Goto, TrueThere, SettledThere,
    SnapshotInv, AttemptInv, InputInv, TypeOK, Fact
<1> QED BY <1>1, <1>2, <1>3, <1>4, <1>5, <1>6, SnapshotStep

LEMMA ResumeDispatchKeeps ==
  ASSUME IInv, ResumeDispatch
  PROVE  IInv'
<1> USE DEF IInv
<1>1. active # NoCommand /\ active \in Command /\ SnapshotOnly /\ job'.step = job.step
  BY DEF ResumeDispatch, At, SnapshotOnly, TypeOK
<1>2. job' \in JobType
  BY <1>1 DEF ResumeDispatch, At, TypeOK, JobType, PC, Receipt, Review
<1>3. disk' \in DiskType
  <2>1. "started" \in Attempt /\ "unknown" \in Fact
    BY <1>1, FactType DEF TypeOK, Fact, Attempt, Status
  <2> QED BY <1>1, <2>1, WriteReceipt DEF ResumeDispatch
<1>4. RequestInv' /\ SnapshotInv'
  BY <1>1, SnapshotFacts DEF ResumeDispatch, At, SnapshotOnly, RequestInv, SnapshotInv, TypeOK
<1>5. InputInv' /\ AttemptInv'
  BY <1>1, SnapshotFacts, TruthHere, TruthfulNow DEF ResumeDispatch, At, SnapshotOnly,
    InputInv, AttemptInv, TypeOK, Fact
<1>6. TrueThere /\ SettledThere
  BY <1>1, TruthHere, TruthfulNow DEF ResumeDispatch, At, TrueThere, SettledThere, SnapshotInv,
    AttemptInv, InputInv, TypeOK, Fact
<1> QED BY <1>1, <1>2, <1>3, <1>4, <1>5, <1>6, SnapshotStep

LEMMA ResumeReturnedKeeps ==
  ASSUME IInv, ResumeReturned
  PROVE  IInv'
<1> USE DEF IInv
<1>1. active # NoCommand /\ active \in Command /\ SnapshotOnly /\ job'.step = job.step
  BY DEF ResumeReturned, At, RecordReceipt, SnapshotOnly, TypeOK
<1>2. job' \in JobType
  BY <1>1 DEF ResumeReturned, At, RecordReceipt, TypeOK, JobType, PC, Receipt, Review
<1>3. disk' \in DiskType
  <2>1. /\ "returned" \in Attempt
        /\ Merge(disk[active].previous, 
                    ReceiptAction(IF job.claimed THEN job.receipt ELSE "zero")) \in Fact
    BY <1>1, FactType DEF TypeOK, Fact, Attempt, Status
  <2> QED BY <1>1, <2>1, WriteReceipt DEF ResumeReturned, RecordReceipt
<1>4. RequestInv' /\ SnapshotInv'
  BY <1>1, SnapshotFacts DEF ResumeReturned, At, RecordReceipt, Merge, ReceiptAction,
    SnapshotOnly, RequestInv, SnapshotInv, TypeOK
<1>5. InputInv' /\ AttemptInv'
  BY <1>1, SnapshotFacts, TruthHere, TruthfulNow DEF ResumeReturned, At, RecordReceipt, Merge,
    ReceiptAction, SnapshotOnly, InputInv, AttemptInv, TypeOK, Fact
<1>6. TrueThere /\ SettledThere
  BY <1>1, TruthHere, TruthfulNow DEF ResumeReturned, At, RecordReceipt, Merge, ReceiptAction,
    TrueThere, SettledThere, SnapshotInv, AttemptInv, InputInv, TypeOK, Fact
<1> QED BY <1>1, <1>2, <1>3, <1>4, <1>5, <1>6, SnapshotStep

LEMMA ZeroReopenKeeps ==
  ASSUME IInv, ZeroReopen
  PROVE  IInv'
<1> USE DEF IInv
<1>1. active # NoCommand /\ active \in Command /\ SnapshotOnly /\ job'.step = job.step
  BY DEF ZeroReopen, At, Goto, SnapshotOnly, TypeOK
<1>2. job' \in JobType
  BY <1>1 DEF ZeroReopen, At, Goto, TypeOK, JobType, PC, Receipt, Review
<1>3. disk' \in DiskType
  BY <1>1, FactType DEF ZeroReopen, At, Goto, TypeOK, DiskType, SnapshotType, Status, Attempt,
    Fact
<1>4. RequestInv' /\ SnapshotInv'
  BY <1>1, SnapshotFacts DEF ZeroReopen, At, Goto, SnapshotOnly, RequestInv, SnapshotInv, TypeOK
<1>5. InputInv' /\ AttemptInv'
  BY <1>1, SnapshotFacts, TruthHere, TruthfulNow DEF ZeroReopen, At, Goto, SnapshotOnly,
    InputInv, AttemptInv, TypeOK, Fact
<1>6. TrueThere /\ SettledThere
  BY <1>1, TruthHere, TruthfulNow DEF ZeroReopen, At, Goto, TrueThere, SettledThere,
    SnapshotInv, AttemptInv, InputInv, TypeOK, Fact
<1> QED BY <1>1, <1>2, <1>3, <1>4, <1>5, <1>6, SnapshotStep

LEMMA ZeroRecordKeeps ==
  ASSUME IInv, ZeroRecord
  PROVE  IInv'
<1> USE DEF IInv
<1>1. active # NoCommand /\ active \in Command /\ SnapshotOnly /\ job'.step = job.step
  BY DEF ZeroRecord, At, Goto, RecordReceipt, SnapshotOnly, TypeOK
<1>2. job' \in JobType
  BY <1>1 DEF ZeroRecord, At, Goto, RecordReceipt, TypeOK, JobType, PC, Receipt, Review
<1>3. disk' \in DiskType
  <2>1. /\ "returned" \in Attempt
        /\ Merge(disk[active].previous, "no") \in Fact
    BY <1>1, FactType DEF TypeOK, Fact, Attempt, Status
  <2> QED BY <1>1, <2>1, WriteReceipt DEF ZeroRecord, RecordReceipt
<1>4. RequestInv' /\ SnapshotInv'
  BY <1>1, SnapshotFacts DEF ZeroRecord, At, Goto, RecordReceipt, Merge, ReceiptAction,
    SnapshotOnly, RequestInv, SnapshotInv, TypeOK
<1>5. InputInv' /\ AttemptInv'
  BY <1>1, SnapshotFacts, TruthHere, TruthfulNow DEF ZeroRecord, At, Goto, RecordReceipt,
    Merge, ReceiptAction, SnapshotOnly, InputInv, AttemptInv, TypeOK, Fact
<1>6. TrueThere /\ SettledThere
  BY <1>1, TruthHere, TruthfulNow DEF ZeroRecord, At, Goto, RecordReceipt, Merge,
    ReceiptAction, TrueThere, SettledThere, SnapshotInv, AttemptInv, InputInv, TypeOK, Fact
<1> QED BY <1>1, <1>2, <1>3, <1>4, <1>5, <1>6, SnapshotStep

LEMMA FieldParkKeeps ==
  ASSUME IInv, FieldPark
  PROVE  IInv'
<1> USE DEF IInv
<1>1. active # NoCommand /\ active \in Command /\ SnapshotOnly /\ job'.step = job.step
  BY DEF FieldPark, At, SnapshotOnly, TypeOK
<1>2. job' \in JobType
  BY <1>1 DEF FieldPark, At, TypeOK, JobType, PC, Receipt, Review
<1>3. disk' \in DiskType
  BY <1>1, FactType DEF FieldPark, At, TypeOK, DiskType, SnapshotType, Status, Attempt, Fact
<1>4. RequestInv' /\ SnapshotInv'
  BY <1>1, SnapshotFacts DEF FieldPark, At, SnapshotOnly, RequestInv, SnapshotInv, TypeOK
<1>5. InputInv' /\ AttemptInv'
  BY <1>1, SnapshotFacts, TruthHere, TruthfulNow DEF FieldPark, At, SnapshotOnly, InputInv,
    AttemptInv, TypeOK, Fact
<1>6. TrueThere /\ SettledThere
  BY <1>1, TruthHere, TruthfulNow DEF FieldPark, At, TrueThere, SettledThere, SnapshotInv,
    AttemptInv, InputInv, TypeOK, Fact
<1> QED BY <1>1, <1>2, <1>3, <1>4, <1>5, <1>6, SnapshotStep

LEMMA EndCommandKeeps ==
  ASSUME IInv, EndCommand
  PROVE  IInv'
<1> USE DEF IInv
<1>1. active # NoCommand /\ active \in Command /\ SnapshotOnly /\ job'.step = job.step
  BY DEF EndCommand, At, Progress, Judged, SnapshotOnly, TypeOK
<1>2. job' \in JobType
  <2>1. PICK o \in Judged(job.receipt) : job' = [job EXCEPT !.pc = "result", !.receipt = o]
    BY DEF EndCommand
  <2>2. o \in Receipt
    BY <2>1 DEF Judged, TypeOK, Receipt
  <2> QED BY <2>1, <2>2 DEF TypeOK, JobType, PC
<1>3. disk' \in DiskType
  <2>1. CASE job.kind = "sequence"
    <3>1. PICK o : disk' = [disk EXCEPT ![active].executed = Merge(disk[active].executed, ReceiptAction(o))]
      BY <2>1 DEF EndCommand, Progress
    <3>2. Merge(disk[active].executed, ReceiptAction(o)) \in Fact
      BY <1>1, FactType DEF TypeOK, Status, Attempt
    <3> QED BY <1>1, <3>1, <3>2, WriteProgress
  <2>2. CASE job.kind # "sequence"
    BY <2>2 DEF EndCommand, TypeOK, DiskType, SnapshotType
  <2> QED BY <2>1, <2>2
<1>4. RequestInv' /\ SnapshotInv'
  BY <1>1, SnapshotFacts DEF EndCommand, At, Progress, Judged, Merge, ReceiptAction,
    SnapshotOnly, RequestInv, SnapshotInv, TypeOK
<1>5. InputInv' /\ AttemptInv'
  BY <1>1, SnapshotFacts, TruthHere, TruthfulNow DEF EndCommand, At, Progress, Judged, Merge,
    ReceiptAction, SnapshotOnly, InputInv, AttemptInv, TypeOK, Fact
<1>6. TrueThere /\ SettledThere
  BY <1>1, TruthHere, TruthfulNow DEF EndCommand, At, Progress, Judged, Merge, ReceiptAction,
    TrueThere, SettledThere, SnapshotInv, AttemptInv, InputInv, TypeOK, Fact
<1> QED BY <1>1, <1>2, <1>3, <1>4, <1>5, <1>6, SnapshotStep

LEMMA RunResultKeeps ==
  ASSUME IInv, RunResult
  PROVE  IInv'
<1> USE DEF IInv
<1>1. active # NoCommand /\ active \in Command /\ SnapshotOnly /\ job'.step = job.step
  BY DEF RunResult, At, Goto, FinalStatus, SnapshotOnly, TypeOK
<1>2. job' \in JobType
  BY <1>1 DEF RunResult, At, Goto, FinalStatus, TypeOK, JobType, PC, Receipt, Review
<1>3. disk' \in DiskType
  <2>1. FinalStatus(IF job.receipt \in {"done", "satisfied"} THEN "completed" ELSE "failed") \in Status
    BY DEF FinalStatus, Status
  <2>2. Merge(disk[active].executed, ReceiptAction(job.receipt)) \in Fact
    BY <1>1, FactType DEF TypeOK, Attempt
  <2> QED BY <1>1, <2>1, <2>2, WriteEnd DEF RunResult
<1>4. RequestInv' /\ SnapshotInv'
  BY <1>1, SnapshotFacts DEF RunResult, At, Goto, FinalStatus, Merge, ReceiptAction,
    SnapshotOnly, RequestInv, SnapshotInv, TypeOK
<1>5. InputInv' /\ AttemptInv'
  BY <1>1, SnapshotFacts, TruthHere, TruthfulNow DEF RunResult, At, Goto, FinalStatus, Merge,
    ReceiptAction, SnapshotOnly, InputInv, AttemptInv, TypeOK, Fact
<1>6. TrueThere /\ SettledThere
  BY <1>1, TruthHere, TruthfulNow DEF RunResult, At, Goto, FinalStatus, Merge, ReceiptAction,
    TrueThere, SettledThere, SnapshotInv, AttemptInv, InputInv, TypeOK, Fact
<1> QED BY <1>1, <1>2, <1>3, <1>4, <1>5, <1>6, SnapshotStep

LEMMA RunRaiseKeeps ==
  ASSUME IInv, RunRaise
  PROVE  IInv'
<1> USE DEF IInv
<1>1. active # NoCommand /\ active \in Command /\ SnapshotOnly /\ job'.step = job.step
  BY DEF RunRaise, At, Goto, FinalStatus, SnapshotOnly, TypeOK
<1>2. job' \in JobType
  BY <1>1 DEF RunRaise, At, Goto, FinalStatus, TypeOK, JobType, PC, Receipt, Review
<1>3. disk' \in DiskType
  BY <1>1, FactType DEF RunRaise, At, Goto, FinalStatus, TypeOK, DiskType, SnapshotType,
    Status, Attempt, Fact
<1>4. RequestInv' /\ SnapshotInv'
  BY <1>1, SnapshotFacts DEF RunRaise, At, Goto, FinalStatus, SnapshotOnly, RequestInv,
    SnapshotInv, TypeOK
<1>5. InputInv' /\ AttemptInv'
  BY <1>1, SnapshotFacts, TruthHere, TruthfulNow DEF RunRaise, At, Goto, FinalStatus,
    SnapshotOnly, InputInv, AttemptInv, TypeOK, Fact
<1>6. TrueThere /\ SettledThere
  BY <1>1, TruthHere, TruthfulNow DEF RunRaise, At, Goto, FinalStatus, TrueThere, SettledThere,
    SnapshotInv, AttemptInv, InputInv, TypeOK, Fact
<1> QED BY <1>1, <1>2, <1>3, <1>4, <1>5, <1>6, SnapshotStep

LEMMA ContinuePreActionKeeps ==
  ASSUME IInv, ContinuePreAction
  PROVE  IInv'
<1> USE DEF IInv
<1>1. active # NoCommand /\ active \in Command /\ SnapshotOnly /\ job'.step = job.step
  BY DEF ContinuePreAction, At, SnapshotOnly, TypeOK
<1>2. job' \in JobType
  BY <1>1 DEF ContinuePreAction, At, TypeOK, JobType, PC, Receipt, Review
<1>3. disk' \in DiskType
  <2>1. "running" \in Status
    BY DEF Status
  <2> QED BY <1>1, <2>1, WriteStatus DEF ContinuePreAction
<1>4. RequestInv' /\ SnapshotInv'
  BY <1>1, SnapshotFacts DEF ContinuePreAction, At, SnapshotOnly, RequestInv, SnapshotInv,
    TypeOK
<1>5. InputInv' /\ AttemptInv'
  BY <1>1, SnapshotFacts, TruthHere, TruthfulNow DEF ContinuePreAction, At, SnapshotOnly,
    InputInv, AttemptInv, TypeOK, Fact
<1>6. TrueThere /\ SettledThere
  BY <1>1, TruthHere, TruthfulNow DEF ContinuePreAction, At, TrueThere, SettledThere,
    SnapshotInv, AttemptInv, InputInv, TypeOK, Fact
<1> QED BY <1>1, <1>2, <1>3, <1>4, <1>5, <1>6, SnapshotStep

LEMMA ContinueFieldKeeps ==
  ASSUME IInv, ContinueField
  PROVE  IInv'
<1> USE DEF IInv
<1>1. active # NoCommand /\ active \in Command /\ SnapshotOnly /\ job'.step = job.step
  BY DEF ContinueField, At, SnapshotOnly, TypeOK
<1>2. job' \in JobType
  BY <1>1 DEF ContinueField, At, TypeOK, JobType, PC, Receipt, Review
<1>3. disk' \in DiskType
  <2>1. "running" \in Status
    BY DEF Status
  <2> QED BY <1>1, <2>1, WriteStatus DEF ContinueField
<1>4. RequestInv' /\ SnapshotInv'
  BY <1>1, SnapshotFacts DEF ContinueField, At, SnapshotOnly, RequestInv, SnapshotInv, TypeOK
<1>5. InputInv' /\ AttemptInv'
  BY <1>1, SnapshotFacts, TruthHere, TruthfulNow DEF ContinueField, At, SnapshotOnly, InputInv,
    AttemptInv, TypeOK, Fact
<1>6. TrueThere /\ SettledThere
  BY <1>1, TruthHere, TruthfulNow DEF ContinueField, At, TrueThere, SettledThere, SnapshotInv,
    AttemptInv, InputInv, TypeOK, Fact
<1> QED BY <1>1, <1>2, <1>3, <1>4, <1>5, <1>6, SnapshotStep

-----------------------------------------------------------------------------
(***************************************************************************)
(* Steps that write the record of the current request.                     *)
(***************************************************************************)
StoreType == [Request -> [phase : Phase, owner : Nat, attempted : BOOLEAN]]

\* The record of r is now in phase p; no other record changed.
Rephased(r, p) ==
  /\ store' \in StoreType
  /\ \A q \in Request : q # r => store'[q] = store[q]
  /\ store'[r].phase = p /\ store'[r].owner = store[r].owner

LEMMA SetPhaseFacts ==
  ASSUME TypeOK, NEW r \in Request, NEW p \in Phase, SetPhase(r, p)
  PROVE  Rephased(r, p)
  BY DEF TypeOK, SetPhase, Rephased, StoreType

LEMMA ReadFacts ==
  ASSUME TypeOK, NEW r \in Request
  PROVE  /\ Read(r) \in Phase
         /\ store[r].phase \in Unclaimed => Read(r) \in Unclaimed
         /\ Read(r) # store[r].phase => store[r].phase \in Expirable /\ Read(r) = "expired"
  BY DEF TypeOK, Read, Phase, Unclaimed, Expirable

LEMMA WithdrawFacts ==
  ASSUME TypeOK, NEW r \in Request, Withdraw(r)
  PROVE  \E p \in {"cancelled", "expired"} : Rephased(r, p)
<1>1. PICK p \in {"cancelled", "expired"} : SetPhase(r, p)
  BY DEF Withdraw
<1>2. p \in Phase
  BY DEF Phase
<1> QED BY <1>1, <1>2, SetPhaseFacts

LEMMA FinishFacts ==
  ASSUME TypeOK, NEW r \in Request, NEW b \in BOOLEAN, FinishExecution(r, b)
  PROVE  Rephased(r, "completed") /\ store[r].phase = "executing" /\ store'[r].attempted = b
<1>1. "completed" \in Phase
  BY DEF Phase
<1> QED BY <1>1 DEF TypeOK, FinishExecution, Rephased, StoreType

RequestOnly ==
  /\ UNCHANGED <<epoch, up, closed, active, disk, stale, hits>>
  /\ \A r \in Request : r # Current => store'[r] = store[r]

\* The written record has an owner, and is claimed if there was input.
OwnedThere ==
  store'[Current].owner \in {store[Current].owner, epoch} /\ store'[Current].phase # "none"

ClaimedThere ==
  hits[Current] > 0 => /\ store'[Current].phase \in Claimed
                       /\ store'[Current].phase = "completed" => store'[Current].attempted

LEMMA RequestStep ==
  ASSUME IInv, active # NoCommand, RequestOnly, job' \in JobType, job'.step = job.step, store' \in StoreType,
         RequestInv', SnapshotInv', InputInv', AttemptInv',
         OwnedThere, ClaimedThere
  PROVE  IInv'
<1> USE DEF IInv
<1>1. Local
  BY DEF Local, RequestOnly
<1>2. TypeOK'
  BY DEF RequestOnly, TypeOK, JobType, StoreType
<1>3. active \in Command /\ Current \in Request
  BY CurrentRequest
<1>4. RequestKept
  BY <1>3 DEF RequestKept, RequestOnly, OneInputPerStep, OwnedThere, ClaimedThere
<1>5. Truthful(active)'
  BY <1>1, <1>3, TruthHere, TruthThere, TruthfulNow DEF RequestOnly
<1>6. disk'[active].status \in Terminal => disk'[active].attempt \notin {"started", "paused_before_input"}
  BY <1>3 DEF AttemptSettledAtEnd, RequestOnly
<1> QED BY <1>1, <1>2, <1>4, <1>5, <1>6, LocalStep

LEMMA RequestFacts ==
  ASSUME TypeOK, active # NoCommand, RequestOnly, job'.step = job.step
  PROVE  /\ active \in Command /\ active' = active /\ Current \in Request /\ Current' = Current
         /\ ApiGrounder' = ApiGrounder /\ Earlier' = Earlier
<1>1. Local
  BY DEF Local, RequestOnly
<1> QED BY <1>1, LocalFacts

LEMMA ExecutingPhase == "executing" \in Phase
  BY DEF Phase

LEMMA ApiRefusedKeeps ==
  ASSUME IInv, ApiRefused
  PROVE  IInv'
<1> USE DEF IInv
<1>1. active # NoCommand /\ Current \in Request /\ job' \in JobType /\ job'.step = job.step
  BY CurrentRequest DEF ApiRefused, At, Goto, TypeOK, JobType, PC, Receipt
<1>2. \E p \in Unclaimed : Rephased(Current, p)
  BY <1>1, ReadFacts, SetPhaseFacts DEF ApiRefused, At, Goto, TypeOK, RequestInv
<1>3. RequestOnly /\ store' \in StoreType
  BY <1>2 DEF ApiRefused, At, Goto, RequestOnly, Rephased
<1>4. RequestInv' /\ SnapshotInv'
  BY <1>1, <1>2, <1>3, RequestFacts DEF ApiRefused, At, Goto, Rephased, RequestOnly,
    RequestInv, SnapshotInv, TypeOK
<1>5. InputInv' /\ AttemptInv'
  BY <1>1, <1>3, RequestFacts DEF ApiRefused, At, Goto, RequestOnly, InputInv, AttemptInv,
    TypeOK
<1>6. OwnedThere /\ ClaimedThere
  BY <1>1, <1>2 DEF ApiRefused, At, Goto, OwnedThere, ClaimedThere, Rephased, InputInv,
    RequestInv, StoreTellsTheTruth, TypeOK
<1> QED BY <1>1, <1>3, <1>4, <1>5, <1>6, RequestStep

LEMMA ApiAnsweredKeeps ==
  ASSUME IInv, NEW v \in NotFound \cup {"grounding_ready"}, ApiAnswered(v)
  PROVE  IInv'
<1> USE DEF IInv
<1>1. active # NoCommand /\ Current \in Request /\ job' \in JobType /\ job'.step = job.step
  BY CurrentRequest DEF ApiAnswered, At, Goto, NotFound, Phase, TypeOK, JobType, PC, Receipt
<1>2. \E p \in Unclaimed : Rephased(Current, p)
  BY <1>1, SetPhaseFacts DEF ApiAnswered, At, Goto, NotFound, Phase, TypeOK, RequestInv
<1>3. RequestOnly /\ store' \in StoreType
  BY <1>2 DEF ApiAnswered, At, Goto, NotFound, Phase, RequestOnly, Rephased
<1>4. RequestInv' /\ SnapshotInv'
  BY <1>1, <1>2, <1>3, RequestFacts DEF ApiAnswered, At, Goto, NotFound, Phase, Rephased,
    RequestOnly, RequestInv, SnapshotInv, TypeOK
<1>5. InputInv' /\ AttemptInv'
  BY <1>1, <1>3, RequestFacts DEF ApiAnswered, At, Goto, NotFound, Phase, RequestOnly,
    InputInv, AttemptInv, TypeOK
<1>6. OwnedThere /\ ClaimedThere
  BY <1>1, <1>2 DEF ApiAnswered, At, Goto, NotFound, Phase, OwnedThere, ClaimedThere, Rephased,
    InputInv, RequestInv, StoreTellsTheTruth, TypeOK
<1> QED BY <1>1, <1>3, <1>4, <1>5, <1>6, RequestStep

LEMMA ApiFailKeeps ==
  ASSUME IInv, ApiFail
  PROVE  IInv'
<1> USE DEF IInv
<1>1. active # NoCommand /\ Current \in Request /\ job.pc = "apifail" /\ Withdraw(Current)
  BY CurrentRequest DEF ApiFail, At
<1>2. PICK b \in BOOLEAN, e \in {"cancelled", "error"} :
        job' = [job EXCEPT !.pc = "raise", !.failed = b, !.error = e]
  BY DEF ApiFail, TypeOK
<1>3. job' \in JobType /\ job'.step = job.step
  BY <1>2 DEF TypeOK, JobType, PC
<1>4. PICK p \in {"cancelled", "expired"} : Rephased(Current, p)
  BY <1>1, WithdrawFacts
<1>5. RequestOnly /\ store' \in StoreType
  BY <1>4 DEF ApiFail, RequestOnly, Rephased
<1>6. RequestInv' /\ SnapshotInv'
  BY <1>1, <1>2, <1>3, <1>4, <1>5, RequestFacts DEF Rephased, RequestOnly, RequestInv,
    SnapshotInv, TypeOK
<1>7. InputInv' /\ AttemptInv'
  BY <1>1, <1>2, <1>3, <1>5, RequestFacts DEF RequestOnly, InputInv, AttemptInv, TypeOK
<1>8. OwnedThere /\ ClaimedThere
  BY <1>1, <1>4 DEF OwnedThere, ClaimedThere, Rephased, InputInv
<1> QED BY <1>1, <1>3, <1>5, <1>6, <1>7, <1>8, RequestStep

LEMMA GroundingLostKeeps ==
  ASSUME IInv, GroundingLost
  PROVE  IInv'
<1> USE DEF IInv
<1>1. active # NoCommand /\ Current \in Request /\ job' \in JobType /\ job'.step = job.step
  BY CurrentRequest DEF GroundingLost, At, TypeOK, JobType, PC, Receipt
<1>2. \E p \in {"cancelled", "expired"} : Rephased(Current, p)
  BY <1>1, WithdrawFacts DEF GroundingLost, At, TypeOK, RequestInv
<1>3. RequestOnly /\ store' \in StoreType
  BY <1>2 DEF GroundingLost, At, RequestOnly, Rephased
<1>4. RequestInv' /\ SnapshotInv'
  BY <1>1, <1>2, <1>3, RequestFacts DEF GroundingLost, At, Rephased, RequestOnly, RequestInv,
    SnapshotInv, TypeOK
<1>5. InputInv' /\ AttemptInv'
  BY <1>1, <1>3, RequestFacts DEF GroundingLost, At, RequestOnly, InputInv, AttemptInv, TypeOK
<1>6. OwnedThere /\ ClaimedThere
  BY <1>1, <1>2 DEF GroundingLost, At, OwnedThere, ClaimedThere, Rephased, InputInv,
    RequestInv, StoreTellsTheTruth, TypeOK
<1> QED BY <1>1, <1>3, <1>4, <1>5, <1>6, RequestStep

LEMMA GroundingOverdueKeeps ==
  ASSUME IInv, GroundingOverdue
  PROVE  IInv'
<1> USE DEF IInv
<1>1. active # NoCommand /\ Current \in Request /\ job' \in JobType /\ job'.step = job.step
  BY CurrentRequest DEF GroundingOverdue, At, Raise, TypeOK, JobType, PC, Receipt
<1>2. \E p \in {"cancelled", "expired"} : Rephased(Current, p)
  BY <1>1, WithdrawFacts DEF GroundingOverdue, At, Raise, TypeOK, RequestInv
<1>3. RequestOnly /\ store' \in StoreType
  BY <1>2 DEF GroundingOverdue, At, Raise, RequestOnly, Rephased
<1>4. RequestInv' /\ SnapshotInv'
  BY <1>1, <1>2, <1>3, RequestFacts DEF GroundingOverdue, At, Raise, Rephased, RequestOnly,
    RequestInv, SnapshotInv, TypeOK
<1>5. InputInv' /\ AttemptInv'
  BY <1>1, <1>3, RequestFacts DEF GroundingOverdue, At, Raise, RequestOnly, InputInv,
    AttemptInv, TypeOK
<1>6. OwnedThere /\ ClaimedThere
  BY <1>1, <1>2 DEF GroundingOverdue, At, Raise, OwnedThere, ClaimedThere, Rephased, InputInv,
    RequestInv, StoreTellsTheTruth, TypeOK
<1> QED BY <1>1, <1>3, <1>4, <1>5, <1>6, RequestStep

LEMMA GroundedCancelledKeeps ==
  ASSUME IInv, GroundedCancelled
  PROVE  IInv'
<1> USE DEF IInv
<1>1. active # NoCommand /\ Current \in Request /\ job' \in JobType /\ job'.step = job.step
  BY CurrentRequest DEF GroundedCancelled, At, Raise, TypeOK, JobType, PC, Receipt
<1>2. Rephased(Current, "completed") /\ store[Current].phase = "executing" /\ store'[Current].attempted = FALSE
  BY <1>1, FinishFacts DEF GroundedCancelled, At, Raise, TypeOK, RequestInv
<1>3. RequestOnly /\ store' \in StoreType
  BY <1>2 DEF GroundedCancelled, At, Raise, RequestOnly, Rephased
<1>4. RequestInv' /\ SnapshotInv'
  BY <1>1, <1>2, <1>3, RequestFacts DEF GroundedCancelled, At, Raise, Rephased, RequestOnly,
    RequestInv, SnapshotInv, TypeOK
<1>5. InputInv' /\ AttemptInv'
  BY <1>1, <1>3, RequestFacts DEF GroundedCancelled, At, Raise, RequestOnly, InputInv,
    AttemptInv, TypeOK
<1>6. OwnedThere /\ ClaimedThere
  BY <1>1, <1>2 DEF GroundedCancelled, At, Raise, OwnedThere, ClaimedThere, Rephased, InputInv,
    RequestInv, StoreTellsTheTruth, TypeOK
<1> QED BY <1>1, <1>3, <1>4, <1>5, <1>6, RequestStep

LEMMA GroundedRefusedKeeps ==
  ASSUME IInv, GroundedRefused
  PROVE  IInv'
<1> USE DEF IInv
<1>1. active # NoCommand /\ Current \in Request /\ job' \in JobType /\ job'.step = job.step
  BY CurrentRequest DEF GroundedRefused, At, Raise, TypeOK, JobType, PC, Receipt
<1>2. Rephased(Current, "completed") /\ store[Current].phase = "executing" /\ store'[Current].attempted = FALSE
  BY <1>1, FinishFacts DEF GroundedRefused, At, Raise, TypeOK, RequestInv
<1>3. RequestOnly /\ store' \in StoreType
  BY <1>2 DEF GroundedRefused, At, Raise, RequestOnly, Rephased
<1>4. RequestInv' /\ SnapshotInv'
  BY <1>1, <1>2, <1>3, RequestFacts DEF GroundedRefused, At, Raise, Rephased, RequestOnly,
    RequestInv, SnapshotInv, TypeOK
<1>5. InputInv' /\ AttemptInv'
  BY <1>1, <1>3, RequestFacts DEF GroundedRefused, At, Raise, RequestOnly, InputInv,
    AttemptInv, TypeOK
<1>6. OwnedThere /\ ClaimedThere
  BY <1>1, <1>2 DEF GroundedRefused, At, Raise, OwnedThere, ClaimedThere, Rephased, InputInv,
    RequestInv, StoreTellsTheTruth, TypeOK
<1> QED BY <1>1, <1>3, <1>4, <1>5, <1>6, RequestStep

LEMMA UnknownFinishKeeps ==
  ASSUME IInv, UnknownFinish
  PROVE  IInv'
<1> USE DEF IInv
<1>1. active # NoCommand /\ Current \in Request /\ job' \in JobType /\ job'.step = job.step
  BY CurrentRequest DEF UnknownFinish, At, Goto, TypeOK, JobType, PC, Receipt
<1>2. Rephased(Current, "completed") /\ store[Current].phase = "executing" /\ store'[Current].attempted = TRUE
  BY <1>1, FinishFacts DEF UnknownFinish, At, Goto, TypeOK, RequestInv
<1>3. RequestOnly /\ store' \in StoreType
  BY <1>2 DEF UnknownFinish, At, Goto, RequestOnly, Rephased
<1>4. RequestInv' /\ SnapshotInv'
  BY <1>1, <1>2, <1>3, RequestFacts DEF UnknownFinish, At, Goto, Rephased, RequestOnly,
    RequestInv, SnapshotInv, TypeOK
<1>5. InputInv' /\ AttemptInv'
  BY <1>1, <1>3, RequestFacts DEF UnknownFinish, At, Goto, RequestOnly, InputInv, AttemptInv,
    TypeOK
<1>6. OwnedThere /\ ClaimedThere
  BY <1>1, <1>2 DEF UnknownFinish, At, Goto, OwnedThere, ClaimedThere, Rephased, InputInv,
    RequestInv, StoreTellsTheTruth, TypeOK
<1> QED BY <1>1, <1>3, <1>4, <1>5, <1>6, RequestStep

LEMMA FinishKeeps ==
  ASSUME IInv, Finish
  PROVE  IInv'
<1> USE DEF IInv
<1>1. active # NoCommand /\ Current \in Request /\ job' \in JobType /\ job'.step = job.step
  BY CurrentRequest DEF Finish, At, Goto, TypeOK, JobType, PC, Receipt
<1>2. Rephased(Current, "completed") /\ store[Current].phase = "executing" /\ store'[Current].attempted = job.claimed
  BY <1>1, FinishFacts DEF Finish, At, Goto, TypeOK, RequestInv
<1>3. RequestOnly /\ store' \in StoreType
  BY <1>2 DEF Finish, At, Goto, RequestOnly, Rephased
<1>4. RequestInv' /\ SnapshotInv'
  BY <1>1, <1>2, <1>3, RequestFacts DEF Finish, At, Goto, Rephased, RequestOnly, RequestInv,
    SnapshotInv, TypeOK
<1>5. InputInv' /\ AttemptInv'
  BY <1>1, <1>3, RequestFacts DEF Finish, At, Goto, RequestOnly, InputInv, AttemptInv, TypeOK
<1>6. OwnedThere /\ ClaimedThere
  BY <1>1, <1>2 DEF Finish, At, Goto, OwnedThere, ClaimedThere, Rephased, InputInv, RequestInv,
    StoreTellsTheTruth, TypeOK
<1> QED BY <1>1, <1>3, <1>4, <1>5, <1>6, RequestStep

LEMMA ZeroFinishKeeps ==
  ASSUME IInv, ZeroFinish
  PROVE  IInv'
<1> USE DEF IInv
<1>1. active # NoCommand /\ Current \in Request /\ job' \in JobType /\ job'.step = job.step
  BY CurrentRequest DEF ZeroFinish, At, TypeOK, JobType, PC, Receipt
<1>2. Rephased(Current, "completed") /\ store[Current].phase = "executing" /\ store'[Current].attempted = FALSE
  BY <1>1, FinishFacts DEF ZeroFinish, At, TypeOK, RequestInv
<1>3. RequestOnly /\ store' \in StoreType
  BY <1>2 DEF ZeroFinish, At, RequestOnly, Rephased
<1>4. RequestInv' /\ SnapshotInv'
  BY <1>1, <1>2, <1>3, RequestFacts DEF ZeroFinish, At, Rephased, RequestOnly, RequestInv,
    SnapshotInv, TypeOK
<1>5. InputInv' /\ AttemptInv'
  BY <1>1, <1>3, RequestFacts DEF ZeroFinish, At, RequestOnly, InputInv, AttemptInv, TypeOK
<1>6. OwnedThere /\ ClaimedThere
  BY <1>1, <1>2 DEF ZeroFinish, At, OwnedThere, ClaimedThere, Rephased, InputInv, RequestInv,
    StoreTellsTheTruth, TypeOK
<1> QED BY <1>1, <1>3, <1>4, <1>5, <1>6, RequestStep

LEMMA PrepareKeeps ==
  ASSUME IInv, Prepare
  PROVE  IInv'
<1> USE DEF IInv
<1>1. active # NoCommand /\ Current \in Request /\ job.pc = "capture" /\ job'.step = job.step
  BY CurrentRequest DEF Prepare, At, Goto, TypeOK
<1>2. /\ store'[Current] = [phase |-> "awaiting_grounding", owner |-> epoch, attempted |-> FALSE]
      /\ RequestOnly /\ store' \in StoreType
  <2>1. [phase |-> "awaiting_grounding", owner |-> epoch, attempted |-> FALSE]
           \in [phase : Phase, owner : Nat, attempted : BOOLEAN]
    BY DEF TypeOK, Phase
  <2> QED BY <1>1, <2>1 DEF Prepare, TypeOK, RequestOnly, StoreType
<1>3. job' \in JobType
  BY <1>1 DEF Prepare, Goto, TypeOK, JobType, PC
<1>4. Local
  BY <1>1, <1>2 DEF Local, RequestOnly
<1>5. job'.pc = (IF ApiGrounder THEN "apibegin" ELSE "prepared") /\ job'.pending = job.pending
  BY DEF Prepare, Goto, TypeOK
<1>6. RequestInv'
  BY <1>1, <1>2, <1>4, <1>5, LocalFacts DEF RequestInv
<1>7. SnapshotInv'
  BY <1>1, <1>2, <1>4, <1>5, LocalFacts DEF RequestOnly, SnapshotInv
<1>8. InputInv'
  BY <1>1, <1>2, <1>4, <1>5, LocalFacts DEF RequestOnly, InputInv
<1>9. AttemptInv'
  BY <1>1, <1>2, <1>4, <1>5, LocalFacts DEF RequestOnly, AttemptInv
<1>10. hits[Current] = 0
  BY <1>1 DEF InputInv
<1>11. OwnedThere /\ ClaimedThere
  BY <1>2, <1>10 DEF OwnedThere, ClaimedThere
<1> QED BY <1>1, <1>2, <1>3, <1>6, <1>7, <1>8, <1>9, <1>11, RequestStep

\* A call of the host leaves the current request open, or closes it unclaimed.
LEMMA RephaseKeeps ==
  ASSUME IInv, active # NoCommand, UNCHANGED <<epoch, up, closed, active, disk, stale, job, hits>>,
         store[Current].phase \in Unclaimed \ Settled, NEW p \in Unclaimed, Rephased(Current, p)
  PROVE  IInv'
<1> USE DEF IInv
<1>1. RequestOnly /\ Local /\ store' \in StoreType /\ job' \in JobType
  BY DEF RequestOnly, Rephased, Local, TypeOK, JobType
<1>2. RequestInv'
  BY <1>1, LocalFacts DEF Rephased, RequestInv, TypeOK
<1>3. SnapshotInv' /\ InputInv' /\ AttemptInv'
  BY <1>1, LocalFacts DEF SnapshotInv, InputInv, AttemptInv
<1>4. hits[Current] = 0
  BY <1>1, LocalFacts DEF StoreTellsTheTruth, TypeOK
<1>5. OwnedThere /\ ClaimedThere
  BY <1>4 DEF OwnedThere, ClaimedThere, Rephased
<1> QED BY <1>1, <1>2, <1>3, <1>5, RequestStep

\* In a live host only the running command has an open request: the current one.
LEMMA OpenIsCurrent ==
  ASSUME IInv, up, NEW r \in Request, store[r].owner = epoch, store[r].phase \notin Settled
  PROVE  active # NoCommand /\ r = Current
<1> USE DEF IInv
<1>1. r[1] \in Command /\ r[2] \in Nat /\ job.step \in Nat /\ epoch # 0
  BY DEF Request, TypeOK
<1>2. r[1] = active /\ active # NoCommand
  BY <1>1, CommandAssumption DEF RequestsSettle
<1>3. store[r].phase # "none"
  BY <1>1 DEF ElsewhereInv
<1>4. r[2] = job.step
  BY <1>1, <1>2, <1>3 DEF ElsewhereInv
<1> QED BY <1>2, <1>4, CurrentRequest

LEMMA ResolveKeeps ==
  ASSUME IInv, NEW r \in Request, NEW v \in NotFound \cup {"grounding_ready"}, Resolve(r, v)
  PROVE  IInv'
<1>1. store[r].phase = "awaiting_grounding"
  BY DEF Resolve, Read
<1>2. active # NoCommand /\ r = Current
  BY <1>1, OpenIsCurrent DEF Resolve
<1>3. v \in Unclaimed /\ v \in Phase
  BY DEF NotFound, Phase
<1>4. Rephased(Current, v)
  BY <1>2, <1>3, SetPhaseFacts DEF Resolve, IInv
<1> QED BY <1>1, <1>2, <1>3, <1>4, RephaseKeeps DEF Resolve

LEMMA CancelRequestKeeps ==
  ASSUME IInv, NEW r \in Request, CancelRequest(r)
  PROVE  IInv'
<1>1. store[r].phase \in Unclaimed \ Settled
  BY DEF CancelRequest, IInv, TypeOK, Phase
<1>2. active # NoCommand /\ r = Current
  BY <1>1, OpenIsCurrent DEF CancelRequest
<1>3. PICK p \in {"cancelled", "expired"} : Rephased(Current, p)
  BY <1>2, WithdrawFacts DEF CancelRequest, IInv
<1>4. p \in Unclaimed
  OBVIOUS
<1> QED BY <1>1, <1>2, <1>3, <1>4, RephaseKeeps DEF CancelRequest

LEMMA GetRequestKeeps ==
  ASSUME IInv, NEW r \in Request, GetRequest(r)
  PROVE  IInv'
<1>1. store[r].phase \in Unclaimed \ Settled
  BY ReadFacts DEF GetRequest, IInv
<1>2. active # NoCommand /\ r = Current
  BY <1>1, OpenIsCurrent DEF GetRequest
<1>3. Rephased(Current, "expired") /\ "expired" \in Unclaimed
  BY <1>2, SetPhaseFacts DEF GetRequest, IInv, Phase
<1> QED BY <1>1, <1>2, <1>3, RephaseKeeps DEF GetRequest

LEMMA ApiBeginCancelled ==
  ASSUME IInv, ApiBegin, job.cancelled
  PROVE  IInv'
<1> USE DEF IInv
<1>1. /\ active # NoCommand /\ Current \in Request /\ job.pc = "apibegin"
      /\ job' = [job EXCEPT !.pc = "raise", !.error = "cancelled"]
  BY CurrentRequest DEF ApiBegin, At, Raise
<1>2. \E p \in {"cancelled", "expired"} : Rephased(Current, p)
  BY <1>1, WithdrawFacts DEF ApiBegin, At, Raise, RequestInv, TypeOK
<1>3. RequestOnly /\ store' \in StoreType
  BY <1>2 DEF ApiBegin, At, Raise, RequestOnly, Rephased
<1>4. job' \in JobType /\ job'.step = job.step
  BY <1>1 DEF TypeOK, JobType, PC
<1>5. RequestInv' /\ SnapshotInv'
  BY <1>1, <1>2, <1>3, <1>4, RequestFacts DEF Rephased, RequestOnly, RequestInv, SnapshotInv,
    TypeOK
<1>6. InputInv' /\ AttemptInv'
  BY <1>1, <1>3, <1>4, RequestFacts DEF RequestOnly, InputInv, AttemptInv, TypeOK
<1>7. OwnedThere /\ ClaimedThere
  BY <1>1, <1>2 DEF OwnedThere, ClaimedThere, Rephased, InputInv
<1> QED BY <1>1, <1>3, <1>4, <1>5, <1>6, <1>7, RequestStep

LEMMA ApiBegun ==
  ASSUME IInv, ApiBegin, ~job.cancelled
  PROVE  IInv'
<1> USE DEF IInv
<1>1. /\ active # NoCommand /\ Untouched /\ job.pc = "apibegin"
      /\ job' = [job EXCEPT !.pc = "http", !.pending = TRUE, !.resumed = FALSE]
  BY DEF ApiBegin, At, Untouched
<1>2. job' \in JobType /\ job'.step = job.step
  BY <1>1 DEF TypeOK, JobType, PC
<1>3. RequestInv' /\ SnapshotInv'
  BY <1>1, <1>2, ThreadFacts DEF Untouched, RequestInv, SnapshotInv, TypeOK
<1>4. InputInv' /\ AttemptInv'
  BY <1>1, <1>2, ThreadFacts DEF Untouched, InputInv, AttemptInv, TypeOK
<1> QED BY <1>1, <1>2, <1>3, <1>4, ThreadStep

LEMMA ApiBeginKeeps == IInv /\ ApiBegin => IInv'
  BY ApiBeginCancelled, ApiBegun

LEMMA ApiClaimed ==
  ASSUME IInv, ApiClaim, Read(Current) = "grounding_ready"
  PROVE  IInv'
<1> USE DEF IInv
<1>1. /\ active # NoCommand /\ Current \in Request /\ job.pc = "apiclaim"
      /\ job' = [job EXCEPT !.pc = "prepared", !.resumed = TRUE]
  BY CurrentRequest DEF ApiClaim, At
<1>2. Rephased(Current, "executing")
  BY <1>1, SetPhaseFacts, ExecutingPhase DEF ApiClaim, At, RequestInv, TypeOK
<1>3. RequestOnly /\ store' \in StoreType
  BY <1>2 DEF ApiClaim, At, RequestOnly, Rephased
<1>4. job' \in JobType /\ job'.step = job.step
  BY <1>1 DEF TypeOK, JobType, PC
<1>5. RequestInv' /\ SnapshotInv'
  BY <1>1, <1>2, <1>3, <1>4, RequestFacts DEF Rephased, RequestOnly, RequestInv, SnapshotInv,
    TypeOK
<1>6. InputInv' /\ AttemptInv'
  BY <1>1, <1>3, <1>4, RequestFacts DEF RequestOnly, InputInv, AttemptInv, TypeOK
<1>7. OwnedThere /\ ClaimedThere
  BY <1>1, <1>2 DEF OwnedThere, ClaimedThere, Rephased, InputInv
<1> QED BY <1>1, <1>3, <1>4, <1>5, <1>6, <1>7, RequestStep

LEMMA ApiClaimLost ==
  ASSUME IInv, ApiClaim, Read(Current) # "grounding_ready"
  PROVE  IInv'
<1> USE DEF IInv
<1>1. /\ active # NoCommand /\ Current \in Request /\ job.pc = "apiclaim"
      /\ job' = [job EXCEPT !.pc = "apifail"]
  BY CurrentRequest DEF ApiClaim, At, Goto
<1>2. \E p \in Unclaimed : Rephased(Current, p)
  BY <1>1, SetPhaseFacts, ReadFacts DEF ApiClaim, At, Goto, RequestInv, TypeOK
<1>3. RequestOnly /\ store' \in StoreType
  BY <1>2 DEF ApiClaim, At, Goto, RequestOnly, Rephased
<1>4. job' \in JobType /\ job'.step = job.step
  BY <1>1 DEF TypeOK, JobType, PC
<1>5. RequestInv' /\ SnapshotInv'
  BY <1>1, <1>2, <1>3, <1>4, RequestFacts DEF Rephased, RequestOnly, RequestInv, SnapshotInv,
    TypeOK
<1>6. InputInv' /\ AttemptInv'
  BY <1>1, <1>3, <1>4, RequestFacts DEF RequestOnly, InputInv, AttemptInv, TypeOK
<1>7. OwnedThere /\ ClaimedThere
  BY <1>1, <1>2 DEF OwnedThere, ClaimedThere, Rephased, InputInv
<1> QED BY <1>1, <1>3, <1>4, <1>5, <1>6, <1>7, RequestStep

LEMMA ApiClaimKeeps == IInv /\ ApiClaim => IInv'
  BY ApiClaimed, ApiClaimLost

LEMMA AbandonedClaim ==
  ASSUME IInv, GroundingAbandoned, job.resumed
  PROVE  IInv'
<1> USE DEF IInv
<1>1. /\ active # NoCommand /\ Current \in Request /\ job.pc = "waiting"
      /\ job' = [job EXCEPT !.pc = "raise", !.error = "cancelled"]
  BY CurrentRequest DEF GroundingAbandoned, AbandonGrounding, At, Raise
<1>2. Rephased(Current, "completed")
  BY <1>1, FinishFacts DEF GroundingAbandoned, AbandonGrounding, At, Raise, RequestInv, TypeOK
<1>3. RequestOnly /\ store' \in StoreType
  BY <1>2 DEF GroundingAbandoned, AbandonGrounding, At, Raise, RequestOnly, Rephased
<1>4. job' \in JobType /\ job'.step = job.step
  BY <1>1 DEF TypeOK, JobType, PC
<1>5. RequestInv' /\ SnapshotInv'
  BY <1>1, <1>2, <1>3, <1>4, RequestFacts DEF Rephased, RequestOnly, RequestInv, SnapshotInv,
    TypeOK
<1>6. InputInv' /\ AttemptInv'
  BY <1>1, <1>3, <1>4, RequestFacts DEF RequestOnly, InputInv, AttemptInv, TypeOK
<1>7. OwnedThere /\ ClaimedThere
  BY <1>1, <1>2 DEF OwnedThere, ClaimedThere, Rephased, InputInv
<1> QED BY <1>1, <1>3, <1>4, <1>5, <1>6, <1>7, RequestStep

LEMMA AbandonedOpen ==
  ASSUME IInv, GroundingAbandoned, ~job.resumed
  PROVE  IInv'
<1> USE DEF IInv
<1>1. /\ active # NoCommand /\ Current \in Request /\ job.pc = "waiting"
      /\ job' = [job EXCEPT !.pc = "raise", !.error = "cancelled"]
  BY CurrentRequest DEF GroundingAbandoned, AbandonGrounding, At, Raise
<1>2. \E p \in {"cancelled", "expired"} : Rephased(Current, p)
  BY <1>1, WithdrawFacts DEF GroundingAbandoned, AbandonGrounding, At, Raise, RequestInv, TypeOK
<1>3. RequestOnly /\ store' \in StoreType
  BY <1>2 DEF GroundingAbandoned, AbandonGrounding, At, Raise, RequestOnly, Rephased
<1>4. job' \in JobType /\ job'.step = job.step
  BY <1>1 DEF TypeOK, JobType, PC
<1>5. RequestInv' /\ SnapshotInv'
  BY <1>1, <1>2, <1>3, <1>4, RequestFacts DEF Rephased, RequestOnly, RequestInv, SnapshotInv,
    TypeOK
<1>6. InputInv' /\ AttemptInv'
  BY <1>1, <1>3, <1>4, RequestFacts DEF RequestOnly, InputInv, AttemptInv, TypeOK
<1>7. OwnedThere /\ ClaimedThere
  BY <1>1, <1>2 DEF OwnedThere, ClaimedThere, Rephased, InputInv
<1> QED BY <1>1, <1>3, <1>4, <1>5, <1>6, <1>7, RequestStep

LEMMA GroundingAbandonedKeeps == IInv /\ GroundingAbandoned => IInv'
  BY AbandonedClaim, AbandonedOpen

LEMMA AwaitCancelledApi ==
  ASSUME IInv, AwaitGrounding, job.cancelled, ApiGrounder
  PROVE  IInv'
<1> USE DEF IInv
<1>1. /\ active # NoCommand /\ Current \in Request /\ job.pc = "prepared"
      /\ job' = [job EXCEPT !.pc = "raise", !.error = "cancelled"]
  BY CurrentRequest DEF AwaitGrounding, At, Raise
<1>2. Rephased(Current, "completed")
  BY <1>1, FinishFacts DEF AwaitGrounding, At, Raise, RequestInv, TypeOK
<1>3. RequestOnly /\ store' \in StoreType
  BY <1>2 DEF AwaitGrounding, At, Raise, RequestOnly, Rephased
<1>4. job' \in JobType /\ job'.step = job.step
  BY <1>1 DEF TypeOK, JobType, PC
<1>5. RequestInv' /\ SnapshotInv'
  BY <1>1, <1>2, <1>3, <1>4, RequestFacts DEF Rephased, RequestOnly, RequestInv, SnapshotInv,
    TypeOK
<1>6. InputInv' /\ AttemptInv'
  BY <1>1, <1>3, <1>4, RequestFacts DEF RequestOnly, InputInv, AttemptInv, TypeOK
<1>7. OwnedThere /\ ClaimedThere
  BY <1>1, <1>2 DEF OwnedThere, ClaimedThere, Rephased, InputInv
<1> QED BY <1>1, <1>3, <1>4, <1>5, <1>6, <1>7, RequestStep

LEMMA AwaitCancelled ==
  ASSUME IInv, AwaitGrounding, job.cancelled, ~ApiGrounder
  PROVE  IInv'
<1> USE DEF IInv
<1>1. /\ active # NoCommand /\ Current \in Request /\ job.pc = "prepared"
      /\ job' = [job EXCEPT !.pc = "raise", !.error = "cancelled"]
  BY CurrentRequest DEF AwaitGrounding, At, Raise
<1>2. \E p \in {"cancelled", "expired"} : Rephased(Current, p)
  BY <1>1, WithdrawFacts DEF AwaitGrounding, At, Raise, RequestInv, TypeOK
<1>3. RequestOnly /\ store' \in StoreType
  BY <1>2 DEF AwaitGrounding, At, Raise, RequestOnly, Rephased
<1>4. job' \in JobType /\ job'.step = job.step
  BY <1>1 DEF TypeOK, JobType, PC
<1>5. RequestInv' /\ SnapshotInv'
  BY <1>1, <1>2, <1>3, <1>4, RequestFacts DEF Rephased, RequestOnly, RequestInv, SnapshotInv,
    TypeOK
<1>6. InputInv' /\ AttemptInv'
  BY <1>1, <1>3, <1>4, RequestFacts DEF RequestOnly, InputInv, AttemptInv, TypeOK
<1>7. OwnedThere /\ ClaimedThere
  BY <1>1, <1>2 DEF OwnedThere, ClaimedThere, Rephased, InputInv
<1> QED BY <1>1, <1>3, <1>4, <1>5, <1>6, <1>7, RequestStep

LEMMA AwaitGrounded ==
  ASSUME IInv, AwaitGrounding, ~job.cancelled, ApiGrounder
  PROVE  IInv'
<1> USE DEF IInv
<1>1. /\ active # NoCommand /\ active \in Command /\ job.pc = "prepared" /\ SnapshotOnly
      /\ job' = [job EXCEPT !.pc = "grounded", !.pending = FALSE]
      /\ disk' = [disk EXCEPT ![active].status = "running"]
  BY DEF AwaitGrounding, At, SnapshotOnly, TypeOK
<1>2. job' \in JobType /\ job'.step = job.step /\ job'.pc = "grounded"
  BY <1>1 DEF TypeOK, JobType, PC
<1>3. /\ disk' \in DiskType
      /\ disk'[active].status = "running" /\ disk'[active].attempt = disk[active].attempt
      /\ disk'[active].executed = disk[active].executed
  BY <1>1 DEF TypeOK, DiskType, SnapshotType, Status
<1>4. RequestInv'
  BY <1>1, <1>2, SnapshotFacts DEF AwaitGrounding, At, SnapshotOnly, RequestInv, TypeOK
<1>5. SnapshotInv'
  BY <1>1, <1>2, <1>3, SnapshotFacts DEF SnapshotInv
<1>6. InputInv' /\ AttemptInv'
  BY <1>1, <1>2, SnapshotFacts DEF SnapshotOnly, InputInv, AttemptInv, TypeOK
<1>7. TrueThere /\ SettledThere
  BY <1>1, <1>3, TruthHere, TruthfulNow DEF TrueThere, SettledThere
<1> QED BY <1>1, <1>2, <1>3, <1>4, <1>5, <1>6, <1>7, SnapshotStep

LEMMA AwaitBegun ==
  ASSUME IInv, AwaitGrounding, ~job.cancelled, ~ApiGrounder
  PROVE  IInv'
<1> USE DEF IInv
<1>1. /\ active # NoCommand /\ active \in Command /\ job.pc = "prepared" /\ SnapshotOnly
      /\ job' = [job EXCEPT !.pc = "waiting", !.pending = TRUE, !.resumed = FALSE]
      /\ disk' = [disk EXCEPT ![active].status = "awaiting_grounding"]
  BY DEF AwaitGrounding, At, SnapshotOnly, TypeOK
<1>2. job' \in JobType /\ job'.step = job.step /\ job'.pc = "waiting"
  BY <1>1 DEF TypeOK, JobType, PC
<1>3. /\ disk' \in DiskType
      /\ disk'[active].status = "awaiting_grounding" /\ disk'[active].attempt = disk[active].attempt
      /\ disk'[active].executed = disk[active].executed
  BY <1>1 DEF TypeOK, DiskType, SnapshotType, Status
<1>4. RequestInv'
  BY <1>1, <1>2, SnapshotFacts DEF AwaitGrounding, At, SnapshotOnly, RequestInv, TypeOK
<1>5. SnapshotInv'
  BY <1>1, <1>2, <1>3, SnapshotFacts DEF SnapshotInv
<1>6. InputInv' /\ AttemptInv'
  BY <1>1, <1>2, SnapshotFacts DEF SnapshotOnly, InputInv, AttemptInv, TypeOK
<1>7. TrueThere /\ SettledThere
  BY <1>1, <1>3, TruthHere, TruthfulNow DEF TrueThere, SettledThere
<1> QED BY <1>1, <1>2, <1>3, <1>4, <1>5, <1>6, <1>7, SnapshotStep

LEMMA AwaitGroundingKeeps == IInv /\ AwaitGrounding => IInv'
  BY AwaitCancelledApi, AwaitCancelled, AwaitGrounded, AwaitBegun


\* The resumed request is claimed while the worker waits for it.
LEMMA ResumeKeeps ==
  ASSUME IInv, Resume
  PROVE  IInv'
<1> USE DEF IInv
<1>1. /\ active # NoCommand /\ active \in Command /\ Current \in Request
      /\ store[Current].phase = "grounding_ready" /\ disk[active].status = "awaiting_grounding"
      /\ ~job.resumed /\ ~ApiGrounder
  BY CurrentRequest DEF Resume, Read
<1>2. job.pc = "waiting"
  BY <1>1 DEF RequestInv, SnapshotInv
<1>3. Rephased(Current, "executing")
  BY <1>1, SetPhaseFacts, ExecutingPhase DEF Resume
<1>4. job' = [job EXCEPT !.resumed = TRUE] /\ disk' = [disk EXCEPT ![active].status = "running"]
  BY DEF Resume
<1>5. Local
  BY <1>1, <1>3, <1>4 DEF Local, Resume, Rephased, TypeOK
<1>6. /\ job'.pc = "waiting" /\ job'.resumed /\ job'.acted = job.acted
      /\ disk'[active].status = "running" /\ disk'[active].attempt = disk[active].attempt
      /\ disk'[active].executed = disk[active].executed /\ disk'[active].previous = disk[active].previous
      /\ hits' = hits
  BY <1>1, <1>2, <1>4 DEF TypeOK, Resume
<1>7. TypeOK'
  <2>1. job' \in JobType
    BY <1>4 DEF TypeOK, JobType
  <2>2. disk' \in DiskType
    BY <1>1, <1>4 DEF TypeOK, DiskType, SnapshotType, Status
  <2> QED BY <1>3, <2>1, <2>2 DEF Resume, Rephased, TypeOK, JobType, DiskType, SnapshotType,
    StoreType
<1>8. RequestInv'
  BY <1>3, <1>5, <1>6, LocalFacts DEF Rephased, RequestInv
<1>9. SnapshotInv'
  BY <1>2, <1>5, <1>6, LocalFacts DEF SnapshotInv
<1>10. InputInv'
  BY <1>2, <1>5, <1>6, LocalFacts DEF InputInv
<1>11. AttemptInv'
  BY <1>2, <1>5, <1>6, LocalFacts DEF AttemptInv
<1>12. RequestKept
  BY <1>1, <1>2, <1>3, <1>6 DEF RequestKept, Rephased, InputInv
<1>13. Truthful(active)'
  BY <1>1, <1>5, <1>6, TruthHere, TruthThere, TruthfulNow
<1>14. disk'[active].status \notin Terminal
  BY <1>6
<1> QED BY <1>5, <1>7, <1>8, <1>9, <1>10, <1>11, <1>12, <1>13, <1>14, LocalStep

\* A cancel withdraws a pending request that nobody has claimed; otherwise it
\* only leaves its mark.
LEMMA CancelFacts ==
  ASSUME IInv, Cancel
  PROVE  /\ active # NoCommand /\ active \in Command /\ Current \in Request /\ Local
         /\ \/ store' = store
            \/ /\ job.pending /\ ~job.resumed
               /\ \E p \in {"cancelled", "expired"} : Rephased(Current, p)
         /\ job' \in JobType /\ job'.pc = job.pc /\ job'.acted = job.acted /\ job'.claimed = job.claimed
         /\ job'.receipt = job.receipt /\ job'.pending = job.pending /\ job'.resumed = job.resumed
         /\ disk' \in DiskType
         /\ disk'[active].status = disk[active].status /\ disk'[active].attempt = disk[active].attempt
         /\ disk'[active].executed = disk[active].executed /\ disk'[active].previous = disk[active].previous
         /\ hits' = hits /\ UNCHANGED <<epoch, up, closed, active, stale>>
<1> USE DEF IInv
<1>1. active # NoCommand /\ active \in Command /\ Current \in Request
      /\ hits' = hits /\ UNCHANGED <<epoch, up, closed, active, stale>>
  BY CurrentRequest DEF Cancel
<1>2. \/ store' = store
      \/ /\ job.pending /\ ~job.resumed
         /\ \E p \in {"cancelled", "expired"} : Rephased(Current, p)
  BY <1>1, WithdrawFacts DEF Cancel
<1>3. PICK b \in BOOLEAN : job' = [job EXCEPT !.cancelled = TRUE, !.asleep = b]
  <2>1. PICK q : job' = [job EXCEPT !.cancelled = TRUE, !.asleep = job.asleep /\ q]
    BY DEF Cancel
  <2>2. (job.asleep /\ q) \in BOOLEAN
    OBVIOUS
  <2> QED BY <2>1, <2>2
<1>4. /\ job' \in JobType /\ job'.pc = job.pc /\ job'.acted = job.acted /\ job'.claimed = job.claimed
      /\ job'.receipt = job.receipt /\ job'.pending = job.pending /\ job'.resumed = job.resumed
      /\ job'.step = job.step
  BY <1>3 DEF TypeOK, JobType
<1>5. disk' = disk \/ disk' = [disk EXCEPT ![active].cancelRequested = TRUE]
  BY DEF Cancel
<1>6. /\ disk' \in DiskType
      /\ \A c \in Command : c # active => disk'[c] = disk[c]
      /\ disk'[active].status = disk[active].status /\ disk'[active].attempt = disk[active].attempt
      /\ disk'[active].executed = disk[active].executed /\ disk'[active].previous = disk[active].previous
  <2>1. disk \in DiskType
    BY DEF TypeOK, DiskType, SnapshotType
  <2>2. [disk[active] EXCEPT !.cancelRequested = TRUE] \in SnapshotType
    BY <1>1, <2>1 DEF DiskType, SnapshotType
  <2>3. disk' = disk \/ disk' = [disk EXCEPT ![active] = [disk[active] EXCEPT !.cancelRequested = TRUE]]
    BY <1>1, <1>5, <2>1 DEF DiskType, SnapshotType
  <2> QED BY <1>1, <2>1, <2>2, <2>3 DEF DiskType, SnapshotType
<1>7. Local
  BY <1>1, <1>2, <1>4, <1>6 DEF Local, Rephased
<1> QED BY <1>1, <1>2, <1>4, <1>6, <1>7

LEMMA CancelKeeps ==
  ASSUME IInv, Cancel
  PROVE  IInv'
<1> USE DEF IInv
<1>1. store' \in StoreType
  BY CancelFacts DEF Rephased, TypeOK, StoreType
<1>2. TypeOK'
  BY <1>1, CancelFacts DEF TypeOK, JobType, DiskType, SnapshotType, StoreType
<1>3. RequestInv'
  BY CancelFacts, LocalFacts DEF Rephased, RequestInv, TypeOK
<1>4. SnapshotInv'
  BY CancelFacts, LocalFacts DEF SnapshotInv
<1>5. InputInv'
  BY CancelFacts, LocalFacts DEF InputInv
<1>6. AttemptInv'
  BY CancelFacts, LocalFacts DEF AttemptInv
<1>7. RequestKept
  <2>1. CASE store' = store
    BY <2>1, CancelFacts DEF RequestKept, ElsewhereInv, OneInputPerStep, StoreTellsTheTruth
  <2>2. CASE job.pending /\ ~job.resumed /\ \E p \in {"cancelled", "expired"} : Rephased(Current, p)
    <3>1. hits[Current] = 0
      <4>1. store[Current].phase \notin Claimed \cup {"none"}
        BY <2>2, CancelFacts DEF RequestInv
      <4>2. hits[Current] \in Nat
        BY CancelFacts DEF TypeOK
      <4> QED BY <4>1, <4>2, CancelFacts DEF StoreTellsTheTruth
    <3> QED BY <2>2, <3>1, CancelFacts DEF RequestKept, Rephased
  <2> QED BY <2>1, <2>2, CancelFacts
<1>8. Truthful(active)'
  BY CancelFacts, TruthHere, TruthThere, TruthfulNow
<1>9. disk'[active].status \in Terminal => disk'[active].attempt \notin {"started", "paused_before_input"}
  BY CancelFacts DEF AttemptSettledAtEnd
<1> QED BY CancelFacts, <1>2, <1>3, <1>4, <1>5, <1>6, <1>7, <1>8, <1>9, LocalStep

-----------------------------------------------------------------------------
(***************************************************************************)
(* The input itself, the next step of a sequence, and the steps that begin *)
(* or end a command, or the host.                                          *)
(***************************************************************************)
LEMMA NativeInputKeeps ==
  ASSUME IInv, NativeInput
  PROVE  IInv'
<1> USE DEF IInv
<1>1. /\ active # NoCommand /\ active \in Command /\ Current \in Request
      /\ job.pc \in Native /\ ~job.acted /\ (job.pc # "direct" => job.claimed)
      /\ UNCHANGED <<epoch, up, closed, active, disk, store, stale>>
  BY CurrentRequest DEF NativeInput, At
<1>2. hits[Current] = 0
  BY <1>1 DEF InputInv
<1>3. /\ job' \in JobType /\ job'.pc = job.pc /\ job'.acted /\ job'.claimed = job.claimed
      /\ job'.step = job.step /\ job'.pending = job.pending /\ job'.resumed = job.resumed
  BY DEF NativeInput, TypeOK, JobType
<1>4. /\ hits' \in [Request -> Nat] /\ hits'[Current] = 1
      /\ \A r \in Request : r # Current => hits'[r] = hits[r]
  BY <1>1, <1>2 DEF NativeInput, TypeOK
<1>5. Local
  BY <1>1, <1>3, <1>4 DEF Local
<1>6. TypeOK'
  BY <1>1, <1>3, <1>4 DEF TypeOK, JobType
<1>7. RequestInv'
  BY <1>1, <1>3, <1>5, LocalFacts DEF RequestInv
<1>8. SnapshotInv'
  BY <1>1, <1>3, <1>5, LocalFacts DEF SnapshotInv
<1>9. InputInv'
  BY <1>1, <1>3, <1>4, <1>5, LocalFacts DEF InputInv
<1>10. AttemptInv'
  BY <1>1, <1>3, <1>5, LocalFacts DEF AttemptInv
<1>11. store[Current].phase \in {"none", "executing"}
  BY <1>1 DEF RequestInv
<1>12. RequestKept
  BY <1>1, <1>4, <1>11 DEF RequestKept, ElsewhereInv
<1>13. disk[active].executed # "no"
  BY <1>1 DEF AttemptInv
<1>14. Truthful(active)'
  BY <1>1, <1>4, <1>5, <1>13, TruthThere
<1>15. disk'[active].status \in Terminal => disk'[active].attempt \notin {"started", "paused_before_input"}
  BY <1>1 DEF AttemptSettledAtEnd
<1> QED BY <1>5, <1>6, <1>7, <1>8, <1>9, <1>10, <1>12, <1>14, <1>15, LocalStep

\* A sequence goes on to a step that has no request and no input yet.
LEMMA NextStepKeeps ==
  ASSUME IInv, NextStep
  PROVE  IInv'
<1> USE DEF IInv
<1>1. /\ active # NoCommand /\ active \in Command /\ Current \in Request /\ active' = active
      /\ job.pc = "stepdone" /\ job.receipt = "done" /\ job.step < MaxSteps
      /\ UNCHANGED <<epoch, up, closed, store, stale, hits>>
  BY CurrentRequest DEF NextStep, At
<1>2. /\ job' \in JobType /\ job'.pc = "step" /\ job'.step = job.step + 1
      /\ job'.pending = job.pending /\ job'.resumed = job.resumed
  <2>1. job \in JobType /\ job.step + 1 \in 1..MaxSteps /\ "step" \in PC
    BY <1>1, BoundAssumption DEF TypeOK, JobType, PC
  <2>2. job' = [job EXCEPT !.pc = "step", !.step = job.step + 1]
    BY DEF NextStep
  <2> QED BY <2>1, <2>2 DEF JobType
<1>3. /\ disk' \in DiskType
      /\ \A c \in Command : c # active => disk'[c] = disk[c]
      /\ disk'[active].status = disk[active].status /\ disk'[active].attempt = disk[active].attempt
      /\ disk'[active].executed = "yes"
  <2>1. disk' = [disk EXCEPT ![active].executed = "yes"]
    BY DEF NextStep, Progress, Merge, ReceiptAction
  <2>2. "yes" \in Fact
    BY DEF Fact
  <2>3. disk' \in DiskType
    BY <1>1, <2>1, <2>2, WriteProgress
  <2> QED BY <1>1, <2>1, <2>3 DEF TypeOK
<1>4. TypeOK'
  BY <1>1, <1>2, <1>3 DEF TypeOK, JobType, DiskType, SnapshotType
<1>5. hits[Current] > 0
  BY <1>1 DEF InputInv
<1>6. /\ Current' \in Request /\ Current'[1] = active /\ Current'[2] = job.step + 1
      /\ store[Current'].phase = "none" /\ hits[Current'] = 0
  <2>1. Current' = <<active, job.step + 1>> /\ job.step \in Nat /\ job.step + 1 \in 1..MaxSteps
    BY <1>1, <1>2, BoundAssumption DEF Current, TypeOK
  <2>2. Current' \in Request /\ Current'[1] = active /\ Current'[2] = job.step + 1
    BY <1>1, <2>1 DEF Request
  <2> QED BY <2>1, <2>2 DEF ElsewhereInv
<1>7. store[Current].phase \in Settled \cup {"none"} /\ ~job.pending
  BY <1>1 DEF RequestInv
<1>8. RequestInv'
  BY <1>1, <1>2, <1>6, <1>7 DEF RequestInv
<1>9. SnapshotInv'
  BY <1>1, <1>2, <1>3 DEF SnapshotInv
<1>10. InputInv'
  BY <1>1, <1>2, <1>6 DEF InputInv
<1>11. AttemptInv'
  BY <1>1, <1>2 DEF AttemptInv
<1>12. ElsewhereInv'
  <2>1. job.step \in Nat /\ \A r \in Request : r[1] \in Command /\ r[2] \in Nat
    BY DEF TypeOK, Request
  <2>2. \A r \in Request : r[1] = active /\ r[2] = job.step => r = Current
    BY <1>1, CurrentRequest
  <2>3. ASSUME NEW r \in Request
        PROVE  /\ r[1] = active /\ r[2] > job.step + 1 => store[r].phase = "none" /\ hits[r] = 0
               /\ r[1] = active /\ r[2] < job.step + 1 => store[r].phase \in Settled \cup {"none"}
    <3>1. r[2] < job.step + 1 => r[2] < job.step \/ r[2] = job.step
      BY <2>1
    <3>2. r[2] > job.step + 1 => r[2] > job.step
      BY <2>1
    <3> QED BY <3>1, <3>2, <2>2, <1>7 DEF ElsewhereInv
  <2>4. \A c \in Command : disk'[c].status = disk[c].status /\ disk'[c].attempt = disk[c].attempt
    BY <1>3
  <2> QED BY <1>1, <1>2, <2>1, <2>3, <2>4 DEF ElsewhereInv
<1>13. DiskTellsTheTruth'
  <2>1. ASSUME NEW c \in Command, c # active PROVE Truthful(c)'
    BY <1>1, <1>3, <2>1, TruthfulNow DEF Truthful
  <2>2. Truthful(active)'
    BY <1>1, <1>3, <1>5, CurrentRequest DEF Truthful
  <2> QED BY <1>1, <2>1, <2>2, TruthfulNext
<1>14. OneInputPerStep' /\ StoreTellsTheTruth' /\ RequestsSettle'
  BY <1>1 DEF OneInputPerStep, StoreTellsTheTruth, RequestsSettle
<1>15. AttemptSettledAtEnd'
  BY <1>1, <1>3 DEF AttemptSettledAtEnd
<1> QED BY <1>4, <1>8, <1>9, <1>10, <1>11, <1>12, <1>13, <1>14, <1>15

\* A command never seen before has no request and no input.
LEMMA StartKeeps ==
  ASSUME IInv, NEW c \in Command, NEW k \in Kind, Start(c, k)
  PROVE  IInv'
<1> USE DEF IInv
<1>1. /\ up /\ active = NoCommand /\ active' = c /\ c # NoCommand
      /\ disk[c].status = "absent" /\ disk[c].attempt = "none"
      /\ UNCHANGED <<epoch, up, closed, store, stale, hits>>
  BY CommandAssumption DEF Start, ElsewhereInv
<1>2. job' \in JobType /\ job'.pc = "step" /\ job'.step = 1 /\ ~job'.pending
  BY NewJobType DEF Start, JobType, NewJob
<1>3. /\ disk' \in DiskType /\ disk'[c].status = "running"
      /\ \A d \in Command : d # c => disk'[d] = disk[d]
      /\ \A d \in Command : disk'[d].attempt = disk[d].attempt /\ disk'[d].executed = disk[d].executed
  BY DEF Start, TypeOK, DiskType, SnapshotType, Status
<1>4. TypeOK'
  BY <1>1, <1>2, <1>3 DEF TypeOK, JobType, DiskType, SnapshotType
<1>5. /\ Current' \in Request /\ Current'[1] = c
      /\ \A r \in Request : r[1] = c => store[r].phase = "none" /\ hits[r] = 0
  <2>1. Current' = <<c, 1>>
    BY <1>1, <1>2 DEF Current
  <2> QED BY <1>1, <2>1, BoundAssumption DEF ElsewhereInv, Request
<1>6. RequestInv'
  BY <1>1, <1>2, <1>5 DEF RequestInv
<1>7. SnapshotInv'
  BY <1>1, <1>2, <1>3 DEF SnapshotInv
<1>8. InputInv'
  BY <1>1, <1>2, <1>5 DEF InputInv
<1>9. AttemptInv'
  BY <1>1, <1>2 DEF AttemptInv
<1>10. ElsewhereInv'
  <2>1. \A r \in Request : r[1] \in Command /\ r[2] \in Nat /\ ~(r[2] < 1)
    BY DEF Request
  <2>2. \A d \in Command : disk'[d].status = "absent" => disk[d].status = "absent"
    BY <1>3
  <2> QED BY <1>1, <1>2, <1>3, <1>5, <2>1, <2>2 DEF ElsewhereInv
<1>11. DiskTellsTheTruth'
  BY <1>1, <1>3, TruthfulNow, TruthfulNext DEF Truthful
<1>12. OneInputPerStep' /\ StoreTellsTheTruth' /\ RequestsSettle'
  <2>1. \A r \in Request : r[1] # active
    BY <1>1, CommandAssumption DEF Request
  <2> QED BY <1>1, <2>1 DEF OneInputPerStep, StoreTellsTheTruth, RequestsSettle
<1>13. AttemptSettledAtEnd'
  BY <1>1, <1>3 DEF AttemptSettledAtEnd
<1> QED BY <1>4, <1>6, <1>7, <1>8, <1>9, <1>10, <1>11, <1>12, <1>13

\* No command runs afterwards: what remains is what the records say.
LEMMA IdleStep ==
  ASSUME IInv, active' = NoCommand, UNCHANGED <<disk, store, hits>>, TypeOK', epoch <= epoch', RequestsSettle'
  PROVE  IInv'
<1> USE DEF IInv
<1>1. RequestInv' /\ SnapshotInv' /\ InputInv' /\ AttemptInv'
  BY DEF RequestInv, SnapshotInv, InputInv, AttemptInv
<1>2. ElsewhereInv'
  <2>1. \A r \in Request : r[1] # NoCommand /\ store[r].owner \in Nat
    BY CommandAssumption DEF Request, TypeOK
  <2>2. epoch \in Nat /\ epoch' \in Nat
    BY DEF TypeOK
  <2> QED BY <2>1, <2>2 DEF ElsewhereInv
<1>3. DiskTellsTheTruth' /\ OneInputPerStep' /\ StoreTellsTheTruth' /\ AttemptSettledAtEnd'
  BY DEF DiskTellsTheTruth, OneInputPerStep, StoreTellsTheTruth, AttemptSettledAtEnd
<1> QED BY <1>1, <1>2, <1>3

LEMMA RunExitKeeps ==
  ASSUME IInv, RunExit
  PROVE  IInv'
<1> USE DEF IInv
<1>1. /\ active # NoCommand /\ active \in Command /\ job.pc = "exit" /\ active' = NoCommand
      /\ UNCHANGED <<epoch, up, closed, disk, store, stale, hits>> /\ job' = NewJob
  BY CurrentRequest DEF RunExit, At
<1>2. TypeOK'
  BY <1>1, NewJobType DEF TypeOK, JobType
<1>3. ASSUME NEW r \in Request, r[1] = active, store[r].owner = epoch PROVE store[r].phase \in Settled
  <2>1. epoch # 0 /\ r[2] \in Nat /\ job.step \in Nat
    BY DEF TypeOK, Request
  <2>2. store[r].phase # "none"
    BY <1>3, <2>1 DEF ElsewhereInv
  <2>3. r = Current => store[r].phase \in Settled
    BY <1>1, <2>2 DEF RequestInv
  <2>4. r # Current => r[2] < job.step \/ r[2] > job.step
    BY <1>1, <1>3, <2>1, CurrentRequest
  <2> QED BY <1>3, <2>2, <2>3, <2>4 DEF ElsewhereInv
<1>4. RequestsSettle'
  BY <1>1, <1>3 DEF RequestsSettle
<1>5. epoch <= epoch'
  BY <1>1 DEF TypeOK
<1> QED BY <1>1, <1>2, <1>4, <1>5, IdleStep

LEMMA CrashKeeps ==
  ASSUME IInv, Crash
  PROVE  IInv'
<1> USE DEF IInv
<1>1. TypeOK'
  <2>1. /\ epoch' = epoch /\ up' \in BOOLEAN /\ active' \in Command \cup {NoCommand} /\ job' \in JobType
        /\ UNCHANGED <<closed, disk, store, stale, hits>>
    BY NewJobType DEF Crash
  <2> QED BY <2>1 DEF TypeOK, JobType
<1>3. epoch <= epoch'
  BY DEF Crash, TypeOK
<1>2. RequestsSettle'
  BY DEF Crash, RequestsSettle
<1> QED BY <1>1, <1>2, <1>3, IdleStep DEF Crash

\* The successor owns none of the requests it finds.
LEMMA RestartKeeps ==
  ASSUME IInv, Restart
  PROVE  IInv'
<1> USE DEF IInv
<1>1. active = NoCommand /\ active' = NoCommand /\ UNCHANGED <<disk, store, stale, job, hits>>
  BY DEF Restart, ElsewhereInv
<1>2. epoch \in Nat /\ epoch' = epoch + 1 /\ epoch' \in 1..MaxEpoch
  BY BoundAssumption DEF Restart, TypeOK
<1>3. TypeOK'
  BY <1>1, <1>2 DEF Restart, TypeOK
<1>4. \A r \in Request : store[r].owner # epoch'
  BY <1>2 DEF ElsewhereInv, TypeOK
<1>5. RequestsSettle'
  BY <1>1, <1>4 DEF RequestsSettle
<1> QED BY <1>1, <1>2, <1>3, <1>5, IdleStep

LEMMA CloseJoinedKeeps ==
  ASSUME IInv, CloseJoined
  PROVE  IInv'
<1> USE DEF IInv
<1>1. TypeOK'
  <2>1. up' \in BOOLEAN /\ UNCHANGED <<epoch, closed, active, disk, store, stale, job, hits>>
    BY DEF CloseJoined
  <2> QED BY <2>1 DEF TypeOK
<1>3. epoch <= epoch'
  BY DEF CloseJoined, TypeOK
<1>2. RequestsSettle'
  BY DEF CloseJoined, RequestsSettle
<1> QED BY <1>1, <1>2, <1>3, IdleStep DEF CloseJoined

\* The flag of close, and the clock of a request, are nothing the invariant
\* speaks of.
LEMMA FlagKeeps ==
  ASSUME IInv, UNCHANGED <<epoch, up, active, disk, store, job, hits>>, TypeOK'
  PROVE  IInv'
<1>1. Current' = Current /\ ApiGrounder' = ApiGrounder /\ Earlier' = Earlier
  BY DEF Current, ApiGrounder, Earlier
<1> QED BY <1>1 DEF IInv, RequestInv, SnapshotInv, InputInv, AttemptInv, ElsewhereInv,
  OneInputPerStep, DiskTellsTheTruth, StoreTellsTheTruth, RequestsSettle, AttemptSettledAtEnd

LEMMA CloseKeeps ==
  ASSUME IInv, Close
  PROVE  IInv'
<1>1. TypeOK'
  BY DEF IInv, Close, TypeOK
<1> QED BY <1>1, FlagKeeps DEF Close

LEMMA RequestExpiresKeeps ==
  ASSUME IInv, NEW r \in Request, RequestExpires(r)
  PROVE  IInv'
<1>1. TypeOK'
  BY DEF IInv, RequestExpires, TypeOK
<1> QED BY <1>1, FlagKeeps DEF RequestExpires

LEMMA StutterKeeps ==
  ASSUME IInv, UNCHANGED vars
  PROVE  IInv'
<1>1. TypeOK'
  BY DEF IInv, vars, TypeOK
<1> QED BY <1>1, FlagKeeps DEF vars

HIDE DEF Unasked, Asking, Holding, Leaving, Unclaimed, Settled, Claimed, Expirable, Terminal, Native,
         Undispatched, Returned, Unknowing, Started, Zeroing, Attempting

-----------------------------------------------------------------------------
(***************************************************************************)
(* The invariant of the specification.                                     *)
(***************************************************************************)
LEMMA GroundingKeeps == IInv /\ Grounding => IInv'
  BY PrepareKeeps, ApiBeginKeeps, ApiRefusedKeeps, ApiClaimKeeps, ApiFailKeeps,
    ApiAnsweredKeeps,
     AwaitGroundingKeeps, GroundingLostKeeps, GroundingAbandonedKeeps, GroundingResumedKeeps
     DEF Grounding

LEMMA DispatchKeeps == IInv /\ Dispatch => IInv'
  BY GroundedCancelledKeeps, GroundedDispatchKeeps, NativeClaimKeeps, NativeInputKeeps,
    NativeRaiseKeeps,
     NativeReturnKeeps, DirectReturnedKeeps, NativeReturnedKeeps, UnknownFinishKeeps, RecordUnknownKeeps,
     FinishKeeps
     DEF Dispatch, NativeStep

LEMMA ParkingKeeps == IInv /\ Parking => IInv'
  BY ParkKeeps, SkipReviewKeeps, ReviewEndedKeeps, ReviewRejectedKeeps, ReviewApprovedKeeps,
    ResumeDispatchKeeps,
     ResumeReturnedKeeps, ZeroReopenKeeps, ZeroRecordKeeps, ZeroFinishKeeps
     DEF Parking

LEMMA SteppingKeeps == IInv /\ Stepping => IInv'
  BY StepCancelledKeeps, DirectDispatchKeeps, SelectionSatisfiedKeeps, VisualStepKeeps,
    NextStepKeeps,
     FieldParkKeeps, FieldWakeKeeps, EndCommandKeeps, InterruptedKeeps, RunResultKeeps, RunRaiseKeeps, RunExitKeeps
     DEF Stepping

LEMMA RefusalsKeep == IInv /\ Refusals => IInv'
  BY StepRefusedKeeps, CaptureRefusedKeeps, GroundingOverdueKeeps, GroundedRefusedKeeps,
    ReviewBrokenKeeps
     DEF Refusals

LEMMA HostKeeps == IInv /\ Host => IInv'
  BY StartKeeps, ResolveKeeps, CancelRequestKeeps, GetRequestKeeps, ReviewPreActionKeeps,
    ReviewFieldKeeps,
     ResumeKeeps, ContinuePreActionKeeps, ContinueFieldKeeps, CancelKeeps, CloseKeeps, CloseJoinedKeeps
     DEF Host, CloseCancel

LEMMA EnvironmentKeeps == IInv /\ Environment => IInv'
  BY RequestExpiresKeeps, ReviewExpiresKeeps, CrashKeeps, RestartKeeps, StutterKeeps
     DEF Environment, SessionOver

LEMMA InductiveStep == IInv /\ [Next]_vars => IInv'
  BY GroundingKeeps, DispatchKeeps, ParkingKeeps, SteppingKeeps, RefusalsKeep, HostKeeps,
    EnvironmentKeeps,
     StutterKeeps
     DEF Next, Worker

THEOREM InductiveInvariant == Spec => []IInv
  BY InitInv, InductiveStep, PTL DEF Spec

\* However often a step is invoked and a command submitted, to this host or to
\* a later one, a step makes native input at most once.
THEOREM InputOnce == Spec => []OneInputPerStep
<1>1. IInv => OneInputPerStep
  BY DEF IInv
<1> QED BY <1>1, InductiveInvariant, PTL

\* Neither durable record of a step misleads about its input, wherever the
\* host dies (_begin_dispatch, finish_execution).
THEOREM RecordsAreTrue == Spec => []RecordsTellTheTruth
<1>1. IInv => RecordsTellTheTruth
  BY DEF IInv, RecordsTellTheTruth
<1> QED BY <1>1, InductiveInvariant, PTL

\* A cancel never finds its pending request already claimed: store.cancel does
\* not raise after the flag was set.
THEOREM CancelReaches == Spec => []CancelIsHeard
<1>1. IInv => CancelIsHeard
  BY DEF IInv, RequestInv, CancelIsHeard
<1> QED BY <1>1, InductiveInvariant, PTL

\* A command leaves no request and no dispatch attempt open behind it.
THEOREM NothingStaysOpen == Spec => []CommandsSettle
<1>1. IInv => CommandsSettle
  BY DEF IInv, CommandsSettle
<1> QED BY <1>1, InductiveInvariant, PTL

-----------------------------------------------------------------------------
(***************************************************************************)
(* What no step may do.                                                    *)
(***************************************************************************)
\* Only the snapshot of a command that has not ended is written.
DiskKept == \A c \in Command : disk[c].status \in Terminal => disk'[c] = disk[c]

\* A record is written while nobody has claimed it, or to complete its claim.
StoreKept ==
  \/ store' = store
  \/ \E r \in Request :
       /\ \A q \in Request : q # r => store'[q] = store[q]
       /\ \/ store[r].phase \notin Claimed
          \/ store[r].phase = "executing" /\ store'[r].phase = "completed"

\* A dispatch begins in a command that was not cancelled, or had begun before.
DispatchKept ==
  active' = active /\ active # NoCommand /\ job.cancelled /\ job.pc \notin Native => job'.pc \notin Native

LEMMA DiskWrite ==
  ASSUME IInv, active \in Command, disk[active].status \notin Terminal,
         \A c \in Command : c # active => disk'[c] = disk[c]
  PROVE  DiskKept
  BY DEF DiskKept

LEMMA RunningSnapshot ==
  ASSUME IInv, active # NoCommand, job.pc # "exit"
  PROVE  active \in Command /\ disk[active].status \notin Terminal
  BY CurrentRequest DEF IInv, SnapshotInv

LEMMA WorkerDisk ==
  ASSUME IInv, Worker \/ Refusals
  PROVE  DiskKept
<1>1. CASE disk' = disk
  BY <1>1 DEF DiskKept
<1>2. CASE \/ AwaitGrounding \/ GroundingResumed \/ GroundedDispatch \/ DirectReturned \/ NativeReturned
           \/ RecordUnknown
  <2>1. active # NoCommand /\ job.pc # "exit"
    BY <1>2 DEF AwaitGrounding, GroundingResumed, GroundedDispatch, DirectReturned,
      NativeReturned, RecordUnknown, At
  <2>2. \A c \in Command : c # active => disk'[c] = disk[c]
    BY <1>2 DEF AwaitGrounding, GroundingResumed, GroundedDispatch, DirectReturned,
      NativeReturned, RecordUnknown,
       BeginDispatch, RecordReceipt, IInv, TypeOK
  <2> QED BY <2>1, <2>2, RunningSnapshot, DiskWrite
<1>3. CASE \/ Park \/ ReviewRejected \/ ResumeDispatch \/ ResumeReturned \/ ZeroReopen \/ ZeroRecord
  <2>1. active # NoCommand /\ job.pc # "exit"
    BY <1>3 DEF Park, ReviewRejected, ResumeDispatch, ResumeReturned, ZeroReopen, ZeroRecord, At
  <2>2. \A c \in Command : c # active => disk'[c] = disk[c]
    BY <1>3 DEF Park, ReviewRejected, ResumeDispatch, ResumeReturned, ZeroReopen, ZeroRecord,
      RecordReceipt,
       IInv, TypeOK
  <2> QED BY <2>1, <2>2, RunningSnapshot, DiskWrite
<1>4. CASE \/ DirectDispatch \/ NextStep \/ FieldPark \/ EndCommand \/ RunResult \/ RunRaise
  <2>1. active # NoCommand /\ job.pc # "exit"
    BY <1>4 DEF DirectDispatch, NextStep, FieldPark, EndCommand, RunResult, RunRaise, At
  <2>2. \A c \in Command : c # active => disk'[c] = disk[c]
    BY <1>4 DEF DirectDispatch, NextStep, FieldPark, EndCommand, RunResult, RunRaise,
      BeginDispatch, Progress,
       IInv, TypeOK
  <2> QED BY <2>1, <2>2, RunningSnapshot, DiskWrite
<1>5. CASE Grounding
  BY <1>1, <1>2, <1>5 DEF Grounding, Prepare, ApiBegin, ApiRefused, ApiClaim, ApiFail,
    ApiAnswered, GroundingLost,
     GroundingAbandoned
<1>6. CASE Dispatch
  BY <1>1, <1>2, <1>6 DEF Dispatch, NativeStep, NativeClaim, NativeInput, NativeRaise,
    NativeReturn,
     GroundedCancelled, UnknownFinish, Finish
<1>7. CASE Parking
  BY <1>1, <1>3, <1>7 DEF Parking, SkipReview, ReviewEnded, ReviewApproved, ZeroFinish
<1>8. CASE Stepping
  BY <1>1, <1>4, <1>8 DEF Stepping, StepCancelled, SelectionSatisfied, VisualStep, FieldWake,
    Interrupted, RunExit
<1>9. CASE Refusals
  BY <1>1, <1>9 DEF Refusals, StepRefused, CaptureRefused, GroundingOverdue, GroundedRefused,
    ReviewBroken
<1> QED BY <1>5, <1>6, <1>7, <1>8, <1>9 DEF Worker

LEMMA NextDisk ==
  ASSUME IInv, [Next]_vars
  PROVE  DiskKept
<1>1. CASE disk' = disk
  BY <1>1 DEF DiskKept
<1>2. ASSUME NEW c \in Command, NEW k \in Kind, Start(c, k) PROVE DiskKept
  <2>1. disk[c].status \notin Terminal /\ \A d \in Command : d # c => disk'[d] = disk[d]
    BY <1>2 DEF Start, IInv, TypeOK, Terminal
  <2> QED BY <2>1 DEF DiskKept
<1>3. CASE Resume \/ ContinuePreAction \/ ContinueField \/ Cancel
  <2>1. active \in Command /\ disk[active].status \notin Terminal
    BY <1>3, CurrentRequest DEF Resume, ContinuePreAction, ContinueField, Cancel, Terminal, IInv
  <2>2. \A c \in Command : c # active => disk'[c] = disk[c]
    BY <1>3 DEF Resume, ContinuePreAction, ContinueField, Cancel, IInv, TypeOK
  <2> QED BY <2>1, <2>2, DiskWrite
<1>4. CASE Host
  BY <1>1, <1>2, <1>3, <1>4 DEF Host, Resolve, CancelRequest, GetRequest, ReviewPreAction,
    ReviewField, Close,
     CloseCancel, CloseJoined
<1>5. CASE Environment
  BY <1>1, <1>5 DEF Environment, RequestExpires, ReviewExpires, Crash, Restart, SessionOver,
    vars
<1> QED BY <1>1, <1>4, <1>5, WorkerDisk DEF Next, vars

\* The store is written at the current request, unclaimed or to complete it.
LEMMA RephasedKept ==
  ASSUME NEW r \in Request, NEW p \in Phase, Rephased(r, p),
         store[r].phase \notin Claimed \/ (store[r].phase = "executing" /\ p = "completed")
  PROVE  StoreKept
  BY DEF StoreKept, Rephased

LEMMA WithdrawKept ==
  ASSUME TypeOK, NEW r \in Request, store[r].phase \notin Claimed, Withdraw(r)
  PROVE  StoreKept
  BY WithdrawFacts, RephasedKept DEF Phase

LEMMA SetPhaseKept ==
  ASSUME TypeOK, NEW r \in Request, NEW p \in Phase, store[r].phase \notin Claimed, SetPhase(r, p)
  PROVE  StoreKept
  BY SetPhaseFacts, RephasedKept

LEMMA FinishKept ==
  ASSUME TypeOK, NEW r \in Request, NEW b \in BOOLEAN, FinishExecution(r, b)
  PROVE  StoreKept
  BY FinishFacts, RephasedKept DEF Phase

\* What the claim of the current request says at each point that writes it.
LEMMA CurrentPhase ==
  ASSUME IInv, active # NoCommand
  PROVE  /\ active \in Command /\ Current \in Request
         /\ job.pc \in Asking \cup {"capture"} => store[Current].phase \notin Claimed
         /\ job.pc = "prepared" /\ ~ApiGrounder => store[Current].phase \notin Claimed
         /\ job.pc = "waiting" /\ ~job.resumed => store[Current].phase \notin Claimed
         /\ job.pending /\ ~job.resumed => store[Current].phase \notin Claimed
  BY CurrentRequest DEF IInv, RequestInv, Asking, Unasked, Unclaimed, Claimed, Expirable

LEMMA GroundingStore ==
  ASSUME IInv, Grounding \/ GroundingOverdue
  PROVE  StoreKept
<1> USE DEF IInv
<1>1. CASE store' = store
  BY <1>1 DEF StoreKept
<1>2. CASE Prepare
  <2>1. active # NoCommand /\ job.pc = "capture"
    BY <1>2 DEF Prepare, At
  <2>2. Current \in Request /\ store[Current].phase \notin Claimed
    BY <2>1, CurrentPhase
  <2>3. \A q \in Request : q # Current => store'[q] = store[q]
    BY <1>2 DEF Prepare, TypeOK
  <2> QED BY <2>2, <2>3 DEF StoreKept
<1>3. CASE ApiBegin \/ ApiFail \/ GroundingLost \/ GroundingOverdue
  <2>1. active # NoCommand /\ (job.pc \in Asking \/ (job.pc = "waiting" /\ ~job.resumed))
    BY <1>3 DEF ApiBegin, ApiFail, GroundingLost, GroundingOverdue, At, Asking
  <2>2. Withdraw(Current) \/ store' = store
    BY <1>3 DEF ApiBegin, ApiFail, GroundingLost, GroundingOverdue
  <2> QED BY <1>1, <2>1, <2>2, CurrentPhase, WithdrawKept
<1>4. ASSUME NEW v \in NotFound \cup {"grounding_ready"}, ApiRefused \/ ApiAnswered(v) \/ ApiClaim PROVE StoreKept
  <2>1. active # NoCommand /\ job.pc \in Asking
    BY <1>4 DEF ApiRefused, ApiAnswered, ApiClaim, At, Asking
  <2>2. Current \in Request /\ store[Current].phase \notin Claimed
    BY <2>1, CurrentPhase
  <2>3. \E p \in Phase : SetPhase(Current, p)
    BY <1>4, <2>2, ReadFacts DEF ApiRefused, ApiAnswered, ApiClaim, NotFound, Phase
  <2> QED BY <2>2, <2>3, SetPhaseKept
<1>5. CASE AwaitGrounding \/ GroundingAbandoned
  <2>1. /\ active # NoCommand
        /\ \/ store' = store
           \/ FinishExecution(Current, FALSE)
           \/ Withdraw(Current) /\ job.pc = "waiting" /\ ~job.resumed
           \/ Withdraw(Current) /\ job.pc = "prepared" /\ ~(ApiGrounder /\ job.resumed)
    BY <1>5 DEF AwaitGrounding, GroundingAbandoned, AbandonGrounding, At
  <2>2. job.pc = "prepared" /\ ApiGrounder => job.resumed
    BY <2>1 DEF RequestInv
  <2> QED BY <1>1, <2>1, <2>2, CurrentPhase, WithdrawKept, FinishKept
<1>6. CASE GroundingResumed
  BY <1>1, <1>6 DEF GroundingResumed
<1> QED BY <1>2, <1>3, <1>4, <1>5, <1>6 DEF Grounding

LEMMA WorkerStore ==
  ASSUME IInv, Worker \/ Refusals
  PROVE  StoreKept
<1>1. CASE store' = store
  BY <1>1 DEF StoreKept
<1>2. CASE GroundedCancelled \/ GroundedRefused \/ UnknownFinish \/ Finish \/ ZeroFinish
  <2>1. active # NoCommand /\ \E b \in BOOLEAN : FinishExecution(Current, b)
    BY <1>2 DEF GroundedCancelled, GroundedRefused, UnknownFinish, Finish, ZeroFinish, At,
      IInv, TypeOK
  <2> QED BY <2>1, CurrentPhase, FinishKept DEF IInv
<1>3. CASE Dispatch
  BY <1>1, <1>2, <1>3 DEF Dispatch, NativeStep, NativeClaim, NativeInput, NativeRaise,
    NativeReturn,
     GroundedDispatch, DirectReturned, NativeReturned, RecordUnknown
<1>4. CASE Parking
  BY <1>1, <1>2, <1>4 DEF Parking, Park, SkipReview, ReviewEnded, ReviewRejected,
    ReviewApproved, ResumeDispatch,
     ResumeReturned, ZeroReopen, ZeroRecord
<1>5. CASE Stepping
  BY <1>1, <1>5 DEF Stepping, StepCancelled, DirectDispatch, SelectionSatisfied, VisualStep,
    NextStep, FieldPark,
     FieldWake, EndCommand, Interrupted, RunResult, RunRaise, RunExit
<1>6. CASE Refusals
  BY <1>1, <1>2, <1>6, GroundingStore DEF Refusals, StepRefused, CaptureRefused, ReviewBroken
<1> QED BY <1>3, <1>4, <1>5, <1>6, GroundingStore DEF Worker

LEMMA NextStore ==
  ASSUME IInv, [Next]_vars
  PROVE  StoreKept
<1> USE DEF IInv
<1>1. CASE store' = store
  BY <1>1 DEF StoreKept
<1>2. ASSUME NEW r \in Request, NEW v \in NotFound \cup {"grounding_ready"}, Resolve(r, v) PROVE StoreKept
  <2>1. store[r].phase \notin Claimed /\ v \in Phase /\ SetPhase(r, v)
    BY <1>2 DEF Resolve, Read, Claimed, NotFound, Phase
  <2> QED BY <2>1, SetPhaseKept
<1>3. ASSUME NEW r \in Request, CancelRequest(r) \/ GetRequest(r) PROVE StoreKept
  <2>1. store[r].phase \notin Claimed
    BY <1>3, ReadFacts DEF CancelRequest, GetRequest, Claimed, Expirable
  <2>2. Withdraw(r) \/ (SetPhase(r, "expired") /\ "expired" \in Phase)
    BY <1>3 DEF CancelRequest, GetRequest, Phase
  <2> QED BY <2>1, <2>2, SetPhaseKept, WithdrawKept
<1>4. CASE Resume
  <2>1. active # NoCommand /\ SetPhase(Current, "executing") /\ store[Current].phase \notin Claimed
    BY <1>4 DEF Resume, Read, Claimed
  <2> QED BY <2>1, CurrentPhase, ExecutingPhase, SetPhaseKept
<1>5. CASE Cancel
  <2>1. active # NoCommand /\ (store' = store \/ (Withdraw(Current) /\ job.pending /\ ~job.resumed))
    BY <1>5 DEF Cancel
  <2> QED BY <1>1, <2>1, CurrentPhase, WithdrawKept
<1>6. CASE Host
  BY <1>1, <1>2, <1>3, <1>4, <1>5, <1>6 DEF Host, Start, ReviewPreAction, ReviewField,
    ContinuePreAction,
     ContinueField, Close, CloseCancel, CloseJoined
<1>7. CASE Environment
  BY <1>1, <1>7 DEF Environment, RequestExpires, ReviewExpires, Crash, Restart, SessionOver,
    vars
<1> QED BY <1>1, <1>6, <1>7, WorkerStore DEF Next, vars

\* The published end of a command and a claim, once written, are never
\* rewritten: not by a late cancel, an expiry or a later host.
THEOREM SettledStays == Spec => SettledIsFinal
<1>1. IInv /\ [Next]_vars => [\A c \in Command : disk[c].status \in Terminal => disk'[c] = disk[c]]_vars
  BY NextDisk DEF DiskKept
<1>2. IInv /\ [Next]_vars =>
        [\A r \in Request : /\ store[r].phase \in Claimed => store'[r].phase \in Claimed
                            /\ store[r].phase = "completed" => store'[r] = store[r]]_vars
  BY NextStore DEF StoreKept, Claimed
<1> QED BY <1>1, <1>2, InductiveInvariant, PTL DEF Spec, SettledIsFinal, EndIsFinal,
  ClaimIsFinal

\* Three steps begin a dispatch, and each looks at the cancel flag under the
\* same hold of the Condition.
LEMMA NextDispatch ==
  ASSUME job \in JobType, job' \in JobType, [Next]_vars
  PROVE  DispatchKept
<1> USE DEF DispatchKept, Native
<1>1. CASE Grounding
  <2>1. CASE Prepare \/ ApiBegin \/ ApiRefused
    BY <2>1 DEF Prepare, ApiBegin, ApiRefused, Goto, Raise, JobType
  <2>2. CASE ApiClaim \/ ApiFail
    BY <2>2 DEF ApiClaim, ApiFail, Goto, JobType
  <2>3. ASSUME NEW v, ApiAnswered(v) PROVE DispatchKept
    BY <2>3 DEF ApiAnswered, Goto, JobType
  <2>4. CASE AwaitGrounding
    BY <2>4 DEF AwaitGrounding, Raise, JobType
  <2>5. CASE GroundingLost \/ GroundingAbandoned \/ GroundingResumed
    BY <2>5 DEF GroundingLost, GroundingAbandoned, GroundingResumed, Raise, JobType
  <2> QED BY <1>1, <2>1, <2>2, <2>3, <2>4, <2>5 DEF Grounding
<1>2. CASE Dispatch
  <2>1. CASE NativeStep
    BY <2>1 DEF NativeStep, NativeClaim, NativeInput, NativeRaise, NativeReturn, At
  <2>2. CASE GroundedCancelled \/ DirectReturned \/ NativeReturned
    BY <2>2 DEF GroundedCancelled, DirectReturned, NativeReturned, Goto, Raise, JobType
  <2>3. CASE UnknownFinish \/ RecordUnknown \/ Finish
    BY <2>3 DEF UnknownFinish, RecordUnknown, Finish, Goto, Raise, JobType
  <2> QED BY <1>2, <2>1, <2>2, <2>3 DEF Dispatch, GroundedDispatch
<1>3. CASE Parking
  <2>1. CASE Park \/ SkipReview \/ ReviewEnded
    BY <2>1 DEF Park, SkipReview, ReviewEnded, Goto, JobType
  <2>2. CASE ReviewRejected \/ ReviewApproved \/ ResumeReturned
    BY <2>2 DEF ReviewRejected, ReviewApproved, ResumeReturned, Goto, JobType
  <2>3. CASE ZeroReopen \/ ZeroRecord \/ ZeroFinish
    BY <2>3 DEF ZeroReopen, ZeroRecord, ZeroFinish, Goto, JobType
  <2> QED BY <1>3, <2>1, <2>2, <2>3 DEF Parking, ResumeDispatch
<1>4. CASE Stepping
  <2>1. CASE FieldWake
    BY <2>1 DEF FieldWake, JobType
  <2>2. CASE StepCancelled \/ SelectionSatisfied \/ VisualStep
    BY <2>2 DEF StepCancelled, SelectionSatisfied, VisualStep, Goto, Raise, JobType
  <2>3. CASE NextStep \/ FieldPark \/ EndCommand
    BY <2>3 DEF NextStep, FieldPark, EndCommand, JobType
  <2>4. CASE Interrupted \/ RunResult \/ RunRaise \/ RunExit
    BY <2>4 DEF Interrupted, RunResult, RunRaise, RunExit, Goto, JobType
  <2> QED BY <1>4, <2>1, <2>2, <2>3, <2>4 DEF Stepping, DirectDispatch
<1>5. CASE Refusals
  <2>1. CASE StepRefused \/ CaptureRefused
    BY <2>1 DEF StepRefused, CaptureRefused, Raise, JobType
  <2>2. CASE GroundingOverdue \/ GroundedRefused \/ ReviewBroken
    BY <2>2 DEF GroundingOverdue, GroundedRefused, ReviewBroken, Goto, Raise, JobType
  <2> QED BY <1>5, <2>1, <2>2 DEF Refusals
<1>6. CASE Host
  BY <1>6 DEF Host, Start, Resolve, CancelRequest, GetRequest, ReviewPreAction, ReviewField,
    Resume,
     ContinuePreAction, ContinueField, Cancel, Close, CloseCancel, CloseJoined, JobType
<1>7. CASE Environment
  BY <1>7 DEF Environment, RequestExpires, ReviewExpires, Crash, Restart, SessionOver, vars,
    JobType
<1>8. CASE UNCHANGED vars
  BY <1>8 DEF vars
<1> QED BY <1>1, <1>2, <1>3, <1>4, <1>5, <1>6, <1>7, <1>8 DEF Next, Worker

\* Once a cancel is accepted between two dispatches, no further one begins.
THEOREM CancelBars == Spec => CancelBarsDispatch
<1>1. IInv /\ [Next]_vars =>
        [active # NoCommand /\ active' = active /\ job.cancelled /\ job.pc \notin Native
           => job'.pc \notin Native]_vars
  <2>1. IInv /\ [Next]_vars => job \in JobType /\ job' \in JobType
    BY InductiveStep DEF IInv, TypeOK, JobType
  <2> QED BY <2>1, NextDispatch DEF DispatchKept
<1> QED BY <1>1, InductiveInvariant, PTL DEF Spec, CancelBarsDispatch
=============================================================================
