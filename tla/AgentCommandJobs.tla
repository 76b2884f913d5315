-------------------------- MODULE AgentCommandJobs --------------------------
(***************************************************************************)
(* The agent command manager of one session host and the grounding handoff *)
(* store beside it (app/vision/agent_command_jobs.py, grounding_handoff.py,*)
(* pre_action_review_wait.py, field_review_wait.py).                       *)
(*                                                                         *)
(* A command is run by one worker thread as a sequence of steps.  A visual *)
(* step captures the window, hands the image to a grounder (the agent      *)
(* client, or an HTTP provider in the ApiHosts), waits for the answer,     *)
(* claims the request and only then dispatches native input.  Meanwhile    *)
(* the host's main thread resolves, resumes, reviews, cancels and closes.  *)
(*                                                                         *)
(* One atomic step is one hold of the manager's Condition or one call of   *)
(* the store, which has a lock of its own.  At most one command is active, *)
(* so "job" is the _Job of that command and of its thread.  "hits" is a    *)
(* history variable: the native inputs that really happened.               *)
(***************************************************************************)
EXTENDS Naturals

CONSTANTS Command,      \* command ids
          NoCommand,    \* no command is active
          MaxSteps,     \* bound on the steps of a composite command
          ApiHosts,     \* hosts started with an api_grounder
          MaxEpoch      \* bound on the hosts that own the session in turn

ASSUME CommandAssumption == NoCommand \notin Command
ASSUME BoundAssumption == MaxSteps \in Nat \ {0} /\ MaxEpoch \in Nat \ {0}
ASSUME ModeAssumption == ApiHosts \subseteq 1..MaxEpoch

VARIABLES epoch,   \* the owner_id of the current host
          up,      \* the host process exists
          closed,  \* manager._closed
          active,  \* manager._active_id
          disk,    \* agent-commands/<id>.json, equal to manager._snapshots
          store,   \* grounding/<id>.json
          stale,   \* requests whose expires_at has passed
          job,     \* the active _Job and where its thread is
          hits     \* native inputs that happened, by step

vars == <<epoch, up, closed, active, disk, store, stale, job, hits>>

\* The current host's configuration.source is "external_api".
ApiGrounder == epoch \in ApiHosts

\* Every visual step makes a request id of its own ("ag-" + uuid4).
Request == Command \X (1..MaxSteps)

-----------------------------------------------------------------------------
\* What is known of input: _merge_action over {False, None, True}.
Fact == {"no", "unknown", "yes"}

Merge(p, q) == IF "yes" \in {p, q} THEN "yes"
               ELSE IF "unknown" \in {p, q} THEN "unknown" ELSE "no"

\* What a step returns: its receipt.  "zero" is a refusal with a verified
\* no-input proof, "denied" one without, "uncaptured" a step that made no
\* request, "satisfied" a selection that was already as wanted.
Receipt == {"done", "failed", "zero", "denied", "unknown", "uncaptured", "satisfied"}

ReceiptAction(o) == IF o \in {"done", "failed"} THEN "yes"
                    ELSE IF o = "unknown" THEN "unknown" ELSE "no"

Expirable == {"awaiting_grounding", "grounding_ready", "ambiguous"}
Claimed   == {"executing", "completed"}   \* the phases with an execution_id
NotFound  == {"absent", "ambiguous"}      \* absent stands for unsupported, error too
Phase     == {"none", "awaiting_grounding", "grounding_ready", "absent", "ambiguous",
              "executing", "completed", "cancelled", "expired"}
Terminal  == {"completed", "failed", "cancelled"}
Status    == Terminal \cup {"absent", "running", "awaiting_grounding",
                            "awaiting_pre_action_review", "awaiting_field_review"}
Attempt   == {"none", "started", "paused_before_input", "returned", "unknown"}
Verdict   == {"success", "failure"}
Review    == Verdict \cup {"none", "waiting", "continued"}

NoSnapshot == [status |-> "absent", executed |-> "no", attempt |-> "none",
               previous |-> "no", attempts |-> 0, cancelRequested |-> FALSE]

NoRecord == [phase |-> "none", owner |-> 0, attempted |-> FALSE]

\* "sequence" stands for form_fill and input_sequence.
Kind == {"step", "sequence"}

NewJob == [kind |-> "step", pc |-> "step", step |-> 1, cancelled |-> FALSE, failed |-> FALSE,
           pending |-> FALSE, resumed |-> FALSE, claimed |-> FALSE, acted |-> FALSE,
           receipt |-> "uncaptured", error |-> "none", review |-> "none",
           field |-> "none", late |-> FALSE, asleep |-> FALSE]

PC == {"step", "capture", "apibegin", "http", "apiclaim", "apifail", "prepared", "waiting",
       "grounded", "direct", "native", "native2", "direct_returned", "native_returned",
       "native2_returned", "recorded", "parked", "approved", "zero_reopen", "zero_record",
       "zero_finish", "unknown_finish", "unknown_record", "finish", "stepdone", "field",
       "result", "raise", "exit"}

Native == {"direct", "native", "native2"}

Init ==
  /\ epoch = 1
  /\ up = TRUE
  /\ closed = FALSE
  /\ active = NoCommand
  /\ disk = [c \in Command |-> NoSnapshot]
  /\ store = [r \in Request |-> NoRecord]
  /\ stale = {}
  /\ job = NewJob
  /\ hits = [r \in Request |-> 0]

TypeOK ==
  /\ epoch \in 1..MaxEpoch
  /\ up \in BOOLEAN /\ closed \in BOOLEAN
  /\ active \in Command \cup {NoCommand}
  /\ disk \in [Command -> [status : Status, executed : Fact, attempt : Attempt, previous : Fact,
                           attempts : Nat, cancelRequested : BOOLEAN]]
  /\ store \in [Request -> [phase : Phase, owner : Nat, attempted : BOOLEAN]]
  /\ stale \subseteq Request
  /\ job \in [kind : Kind, pc : PC, step : 1..MaxSteps, cancelled : BOOLEAN, failed : BOOLEAN,
              pending : BOOLEAN, resumed : BOOLEAN, claimed : BOOLEAN, acted : BOOLEAN,
              receipt : Receipt, error : {"none", "cancelled", "error"}, review : Review,
              field : Review, late : BOOLEAN, asleep : BOOLEAN]
  /\ hits \in [Request -> Nat]

-----------------------------------------------------------------------------
(***************************************************************************)
(* The store.  Expiry is lazy: it is noticed, and written, by the next     *)
(* call that reads the record.                                             *)
(***************************************************************************)
Current == <<active, job.step>>

Read(r) == IF store[r].phase \in Expirable /\ r \in stale THEN "expired" ELSE store[r].phase

SetPhase(r, p) == store' = [store EXCEPT ![r].phase = p]

\* store.cancel of an unclaimed request.
Withdraw(r) == SetPhase(r, IF Read(r) = "expired" THEN "expired" ELSE "cancelled")

\* store.finish_execution by the job that holds the claim.
FinishExecution(r, attempted) ==
  /\ store[r].phase = "executing"
  /\ store' = [store EXCEPT ![r].phase = "completed", ![r].attempted = attempted]

\* The worker thread is at p; "At" is the guard of each of its steps.
At(p) == up /\ active # NoCommand /\ job.pc = p

Goto(p) == job' = [job EXCEPT !.pc = p]

\* An exception leaves the step.
Raise(e) == job' = [job EXCEPT !.pc = "raise", !.error = e]

\* The Condition is held from resolve to claim_execution by the API worker.
LockFree == job.pc # "apiclaim"

-----------------------------------------------------------------------------
(***************************************************************************)
(* The dispatch journal of a command: every write is one atomic snapshot.  *)
(***************************************************************************)
BeginDispatch ==
  /\ disk[active].attempt # "started"
  /\ disk' = [disk EXCEPT ![active].attempt = "started", ![active].attempts = @ + 1,
                          ![active].previous = disk[active].executed,
                          ![active].executed = Merge(@, "unknown")]

RecordReceipt(fact) ==
  /\ disk[active].attempt = "started"
  /\ disk' = [disk EXCEPT ![active].attempt = "returned",
                          ![active].executed = Merge(disk[active].previous, fact)]

RecordUnknown ==
  /\ At("unknown_record")
  /\ disk[active].attempt = "started"
  /\ disk' = [disk EXCEPT ![active].attempt = "unknown",
                          ![active].executed = Merge(disk[active].previous, "unknown")]
  /\ \E e \in {"error"} \cup (IF job.cancelled THEN {"cancelled"} ELSE {}) : Raise(e)
  /\ UNCHANGED <<epoch, up, closed, active, store, stale, hits>>

-----------------------------------------------------------------------------
(***************************************************************************)
(* The worker: the start of a step.                                        *)
(***************************************************************************)
StepCancelled ==
  /\ At("step") /\ job.cancelled
  /\ Raise("cancelled")
  /\ UNCHANGED <<epoch, up, closed, active, disk, store, stale, hits>>

\* The budget of the action review is spent, or the command's preflight fails.
StepRefused ==
  /\ At("step")
  /\ Raise("error")
  /\ UNCHANGED <<epoch, up, closed, active, disk, store, stale, hits>>

\* A direct operation, or a target found in memory: the cancellation check
\* and the durable start of the attempt are one hold of the Condition.
DirectDispatch ==
  /\ At("step") /\ ~job.cancelled
  /\ BeginDispatch
  /\ job' = [job EXCEPT !.pc = "direct", !.acted = FALSE]
  /\ UNCHANGED <<epoch, up, closed, active, store, stale, hits>>

\* A selection that memory proves to be satisfied needs no input.
SelectionSatisfied ==
  /\ At("step") /\ ~job.cancelled /\ job.kind = "step"
  /\ job' = [job EXCEPT !.pc = "stepdone", !.receipt = "satisfied"]
  /\ UNCHANGED <<epoch, up, closed, active, disk, store, stale, hits>>

VisualStep ==
  /\ At("step") /\ ~job.cancelled
  /\ Goto("capture")
  /\ UNCHANGED <<epoch, up, closed, active, disk, store, stale, hits>>

CaptureRefused ==
  /\ At("capture")
  /\ \/ job' = [job EXCEPT !.pc = "stepdone", !.receipt = "uncaptured"]
     \/ Raise("error")
  /\ UNCHANGED <<epoch, up, closed, active, disk, store, stale, hits>>

Prepare ==
  /\ At("capture")
  /\ store' = [store EXCEPT ![Current] = [phase |-> "awaiting_grounding", owner |-> epoch,
                                          attempted |-> FALSE]]
  /\ Goto(IF ApiGrounder THEN "apibegin" ELSE "prepared")
  /\ UNCHANGED <<epoch, up, closed, active, disk, stale, hits>>

-----------------------------------------------------------------------------
(***************************************************************************)
(* The API route: the HTTP wait holds no lock.                             *)
(***************************************************************************)
ApiBegin ==
  /\ At("apibegin")
  /\ IF job.cancelled
       THEN Withdraw(Current) /\ Raise("cancelled")
       ELSE /\ job' = [job EXCEPT !.pc = "http", !.pending = TRUE, !.resumed = FALSE]
            /\ UNCHANGED store
  /\ UNCHANGED <<epoch, up, closed, active, disk, stale, hits>>

\* The provider failed, or the command was cancelled while it answered, or
\* the request is no longer open to this answer.
ApiRefused ==
  /\ At("http")
  /\ SetPhase(Current, Read(Current))
  /\ Goto("apifail")
  /\ UNCHANGED <<epoch, up, closed, active, disk, stale, hits>>

ApiAnswered(v) ==
  /\ At("http") /\ ~job.cancelled
  /\ Read(Current) = "awaiting_grounding"
  /\ SetPhase(Current, v)
  /\ Goto(IF v = "grounding_ready" THEN "apiclaim" ELSE "apifail")
  /\ UNCHANGED <<epoch, up, closed, active, disk, stale, hits>>

\* Mutant: resume_state is not stored with the claim.
ApiClaim_NotMarked ==
  /\ At("apiclaim")
  /\ IF Read(Current) = "grounding_ready"
       THEN /\ SetPhase(Current, "executing")
            /\ job' = [job EXCEPT !.pc = "prepared", !.resumed = FALSE]
       ELSE SetPhase(Current, Read(Current)) /\ Goto("apifail")
  /\ UNCHANGED <<epoch, up, closed, active, disk, stale, hits>>

\* The claim follows the resolve under the same Condition; only the store's
\* own lock is free between them.
ApiClaim ==
  /\ At("apiclaim")
  /\ IF Read(Current) = "grounding_ready"
       THEN /\ SetPhase(Current, "executing")
            /\ job' = [job EXCEPT !.pc = "prepared", !.resumed = TRUE]
       ELSE SetPhase(Current, Read(Current)) /\ Goto("apifail")
  /\ UNCHANGED <<epoch, up, closed, active, disk, stale, hits>>

ApiFail ==
  /\ At("apifail")
  /\ Withdraw(Current)
  /\ job' = [job EXCEPT !.pc = "raise", !.failed = ~job.cancelled,
                        !.error = IF job.cancelled THEN "cancelled" ELSE "error"]
  /\ UNCHANGED <<epoch, up, closed, active, disk, stale, hits>>

-----------------------------------------------------------------------------
(***************************************************************************)
(* Waiting for the agent client's grounding.                               *)
(***************************************************************************)
\* Leaving the wait with job.cancelled set.
AbandonGrounding ==
  /\ IF job.resumed THEN FinishExecution(Current, FALSE) ELSE Withdraw(Current)

AwaitGrounding ==
  /\ At("prepared")
  /\ IF job.cancelled
       THEN /\ IF ApiGrounder /\ job.resumed THEN FinishExecution(Current, FALSE)
                                             ELSE Withdraw(Current)
            /\ Raise("cancelled") /\ UNCHANGED disk
       ELSE /\ UNCHANGED store
            /\ IF ApiGrounder
                 THEN /\ job' = [job EXCEPT !.pc = "grounded", !.pending = FALSE]
                      /\ disk' = [disk EXCEPT ![active].status = "running"]
                 ELSE /\ job' = [job EXCEPT !.pc = "waiting", !.pending = TRUE, !.resumed = FALSE]
                      /\ disk' = [disk EXCEPT ![active].status = "awaiting_grounding"]
  /\ UNCHANGED <<epoch, up, closed, active, stale, hits>>

\* One turn of the wait loop that finds the request settled against it.
GroundingLost ==
  /\ At("waiting") /\ ~job.resumed /\ ~job.cancelled
  /\ Read(Current) \in {"expired", "cancelled"} \cup NotFound
  /\ Withdraw(Current)
  /\ job' = [job EXCEPT !.pc = "raise", !.error = "cancelled", !.cancelled = TRUE, !.failed = TRUE]
  /\ UNCHANGED <<epoch, up, closed, active, disk, stale, hits>>

GroundingOverdue ==
  /\ At("waiting") /\ ~job.resumed /\ ~job.cancelled
  /\ Withdraw(Current)
  /\ Raise("error")
  /\ UNCHANGED <<epoch, up, closed, active, disk, stale, hits>>

GroundingAbandoned ==
  /\ At("waiting") /\ job.cancelled
  /\ AbandonGrounding
  /\ Raise("cancelled")
  /\ UNCHANGED <<epoch, up, closed, active, disk, stale, hits>>

GroundingResumed ==
  /\ At("waiting") /\ job.resumed /\ ~job.cancelled
  /\ job' = [job EXCEPT !.pc = "grounded", !.pending = FALSE]
  /\ disk' = [disk EXCEPT ![active].status = "running"]
  /\ UNCHANGED <<epoch, up, closed, active, store, stale, hits>>

-----------------------------------------------------------------------------
(***************************************************************************)
(* Dispatch of a claimed request.                                          *)
(***************************************************************************)
GroundedCancelled ==
  /\ At("grounded") /\ job.cancelled
  /\ FinishExecution(Current, FALSE)
  /\ Raise("cancelled")
  /\ UNCHANGED <<epoch, up, closed, active, disk, stale, hits>>

\* The target is rejected, or the review budget is spent, before dispatch.
GroundedRefused ==
  /\ At("grounded")
  /\ FinishExecution(Current, FALSE)
  /\ Raise("error")
  /\ UNCHANGED <<epoch, up, closed, active, disk, stale, hits>>

\* Mutant: no second look at the cancel flag.
GroundedDispatch_Unchecked ==
  /\ At("grounded")
  /\ BeginDispatch
  /\ job' = [job EXCEPT !.pc = "native", !.claimed = FALSE, !.acted = FALSE]
  /\ UNCHANGED <<epoch, up, closed, active, store, stale, hits>>

\* The linearization point against cancel.
GroundedDispatch ==
  /\ At("grounded") /\ ~job.cancelled
  /\ BeginDispatch
  /\ job' = [job EXCEPT !.pc = "native", !.claimed = FALSE, !.acted = FALSE]
  /\ UNCHANGED <<epoch, up, closed, active, store, stale, hits>>

(***************************************************************************)
(* The coordinator's native step.  A grounded target must claim the input  *)
(* (before_dispatch) before the first button goes down; a resumed one is   *)
(* claimed only while the review that released it is live.                 *)
(***************************************************************************)
ReviewLive == ~closed /\ ~job.cancelled /\ ~job.late

NativeClaim ==
  /\ \/ At("native") /\ Current \notin stale
     \/ At("native2") /\ ReviewLive /\ job.review = "continued"
  /\ ~job.claimed
  /\ job' = [job EXCEPT !.claimed = TRUE]
  /\ UNCHANGED <<epoch, up, closed, active, disk, store, stale, hits>>

NativeInput ==
  /\ \/ At("direct")
     \/ (At("native") \/ At("native2")) /\ job.claimed
  /\ ~job.acted
  /\ job' = [job EXCEPT !.acted = TRUE]
  /\ hits' = [hits EXCEPT ![Current] = @ + 1]
  /\ UNCHANGED <<epoch, up, closed, active, disk, store, stale>>

\* Receipts do not lie about the input of their own call.
NativeReturn(o) ==
  /\ \E p \in Native : At(p)
  /\ o \in {"done", "failed"} => job.acted
  /\ o \in {"zero", "denied"} => ~job.acted
  /\ job' = [job EXCEPT !.receipt = o,
               !.pc = CASE job.pc = "direct" -> "direct_returned"
                        [] job.pc = "native" -> "native_returned"
                        [] OTHER -> "native2_returned"]
  /\ UNCHANGED <<epoch, up, closed, active, disk, store, stale, hits>>

NativeRaise ==
  /\ \E p \in Native : At(p)
  /\ job' = [job EXCEPT !.pc = CASE job.pc = "direct" -> "unknown_record"
                                 [] job.pc = "native2" /\ ~job.claimed -> "zero_reopen"
                                 [] OTHER -> "unknown_finish"]
  /\ UNCHANGED <<epoch, up, closed, active, disk, store, stale, hits>>

DirectReturned ==
  /\ At("direct_returned")
  /\ RecordReceipt(ReceiptAction(job.receipt))
  /\ Goto("stepdone")
  /\ UNCHANGED <<epoch, up, closed, active, store, stale, hits>>

NativeReturned ==
  /\ At("native_returned")
  /\ RecordReceipt(ReceiptAction(job.receipt))
  /\ Goto("recorded")
  /\ UNCHANGED <<epoch, up, closed, active, store, stale, hits>>

UnknownFinish ==
  /\ At("unknown_finish")
  /\ FinishExecution(Current, TRUE)
  /\ Goto("unknown_record")
  /\ UNCHANGED <<epoch, up, closed, active, disk, stale, hits>>

Finish ==
  /\ At("finish")
  /\ FinishExecution(Current, job.claimed)
  /\ Goto("stepdone")
  /\ UNCHANGED <<epoch, up, closed, active, disk, stale, hits>>

-----------------------------------------------------------------------------
(***************************************************************************)
(* A refusal with verified zero input may be parked for the main agent's   *)
(* review and, if it approves, invoked a second time.                      *)
(***************************************************************************)
Parkable ==
  /\ ~job.claimed /\ job.receipt = "zero" /\ job.review = "none"
  /\ disk[active].executed = "no" /\ disk[active].attempts = 1

Park ==
  /\ At("recorded") /\ Parkable
  /\ job' = [job EXCEPT !.pc = "parked", !.review = "waiting", !.late = FALSE]
  /\ disk' = [disk EXCEPT ![active].status = "awaiting_pre_action_review",
                          ![active].attempt = "paused_before_input"]
  /\ UNCHANGED <<epoch, up, closed, active, store, stale, hits>>

SkipReview ==
  /\ At("recorded")
  /\ Goto("finish")
  /\ UNCHANGED <<epoch, up, closed, active, disk, store, stale, hits>>

\* One turn of the review wait that finds it cancelled, closed or overdue.
ReviewEnded ==
  /\ At("parked") \/ At("approved")
  /\ ~ReviewLive
  /\ Goto("zero_reopen")
  /\ UNCHANGED <<epoch, up, closed, active, disk, store, stale, hits>>

\* The plan it is bound to, or its evidence, is not what it was.
ReviewBroken ==
  /\ At("parked") \/ At("approved")
  /\ Goto("zero_reopen")
  /\ UNCHANGED <<epoch, up, closed, active, disk, store, stale, hits>>

\* Mutant: the parked attempt is not settled.
ReviewRejected_LeavesPaused ==
  /\ At("parked") /\ ReviewLive /\ job.review = "failure"
  /\ UNCHANGED disk
  /\ Goto("finish")
  /\ UNCHANGED <<epoch, up, closed, active, store, stale, hits>>

ReviewRejected ==
  /\ At("parked") /\ ReviewLive /\ job.review = "failure"
  /\ disk' = [disk EXCEPT ![active].attempt = "returned"]
  /\ Goto("finish")
  /\ UNCHANGED <<epoch, up, closed, active, store, stale, hits>>

ReviewApproved ==
  /\ At("parked") /\ ReviewLive /\ job.review = "continued"
  /\ Goto("approved")
  /\ UNCHANGED <<epoch, up, closed, active, disk, store, stale, hits>>

\* Mutant: the second invocation is not announced on disk.
ResumeDispatch_NotDurable ==
  /\ At("approved") /\ ~job.cancelled /\ ~closed
  /\ disk[active].attempt = "paused_before_input"
  /\ disk' = [disk EXCEPT ![active].attempt = "started"]
  /\ job' = [job EXCEPT !.pc = "native2", !.acted = FALSE]
  /\ UNCHANGED <<epoch, up, closed, active, store, stale, hits>>

\* The parked attempt starts again, durably, before the second invocation.
ResumeDispatch ==
  /\ At("approved") /\ ~job.cancelled /\ ~closed
  /\ disk[active].attempt = "paused_before_input"
  /\ disk' = [disk EXCEPT ![active].attempt = "started", ![active].executed = "unknown"]
  /\ job' = [job EXCEPT !.pc = "native2", !.acted = FALSE]
  /\ UNCHANGED <<epoch, up, closed, active, store, stale, hits>>

\* An unclaimed target proves that the second invocation made no input,
\* whatever its receipt says: the first receipt stands.
ResumeReturned ==
  /\ At("native2_returned")
  /\ LET o == IF job.claimed THEN job.receipt ELSE "zero"
     IN  /\ RecordReceipt(ReceiptAction(o))
         /\ job' = [job EXCEPT !.pc = "finish", !.receipt = o]
  /\ UNCHANGED <<epoch, up, closed, active, store, stale, hits>>

ZeroReopen ==
  /\ At("zero_reopen")
  /\ disk' = [disk EXCEPT ![active].attempt = "started"]
  /\ Goto("zero_record")
  /\ UNCHANGED <<epoch, up, closed, active, store, stale, hits>>

ZeroRecord ==
  /\ At("zero_record")
  /\ RecordReceipt("no")
  /\ Goto("zero_finish")
  /\ UNCHANGED <<epoch, up, closed, active, store, stale, hits>>

ZeroFinish ==
  /\ At("zero_finish")
  /\ FinishExecution(Current, FALSE)
  /\ job' = [job EXCEPT !.pc = "stepdone", !.receipt = "zero", !.failed = @ \/ ~job.cancelled]
  /\ UNCHANGED <<epoch, up, closed, active, disk, stale, hits>>

-----------------------------------------------------------------------------
(***************************************************************************)
(* The end of a step and of the command.                                   *)
(***************************************************************************)
\* form_fill and input_sequence publish progress after every step.
Progress(o) == disk' = [disk EXCEPT ![active].executed = Merge(@, ReceiptAction(o))]

\* They go on only after confirmed input.
NextStep ==
  /\ At("stepdone")
  /\ job.kind = "sequence" /\ job.step < MaxSteps
  /\ job.receipt = "done"
  /\ Progress("done")
  /\ job' = [job EXCEPT !.pc = "step", !.step = @ + 1]
  /\ UNCHANGED <<epoch, up, closed, active, store, stale, hits>>

\* After typing, an unsettled field waits, without a deadline, for review.
FieldPark ==
  /\ At("stepdone") /\ ~closed /\ ~job.cancelled
  /\ job.kind = "sequence"
  /\ job.receipt = "done" /\ job.field = "none"
  /\ disk[active].attempts = 1 /\ disk[active].attempt = "returned"
  /\ disk[active].executed = "yes" /\ disk[active].status = "running"
  /\ disk' = [disk EXCEPT ![active].status = "awaiting_field_review"]
  /\ job' = [job EXCEPT !.pc = "field", !.field = "waiting", !.asleep = TRUE]
  /\ UNCHANGED <<epoch, up, closed, active, store, stale, hits>>

\* Condition.wait() returned: the thread looks at its record again.
FieldWake ==
  /\ At("field") /\ ~job.asleep
  /\ job' = CASE job.cancelled \/ closed -> [job EXCEPT !.pc = "raise", !.error = "cancelled"]
              [] ~(job.cancelled \/ closed) /\ job.field = "continued" -> [job EXCEPT !.pc = "stepdone"]
              [] ~(job.cancelled \/ closed) /\ job.field = "failure" ->
                   [job EXCEPT !.pc = "result", !.receipt = "failed"]
              [] OTHER -> [job EXCEPT !.asleep = TRUE]
  /\ UNCHANGED <<epoch, up, closed, active, disk, store, stale, hits>>

\* What the command makes of the last receipt: a later check may refuse a
\* good one, and input_sequence takes a refusal without proof as unknown.
Judged(o) == {o} \cup (CASE o = "done" -> {"failed"}
                         [] o = "satisfied" -> {"uncaptured"}
                         [] o = "denied" /\ job.kind = "sequence" -> {"unknown"}
                         [] OTHER -> {})

EndCommand ==
  /\ At("stepdone")
  /\ \E o \in Judged(job.receipt) :
       /\ job' = [job EXCEPT !.pc = "result", !.receipt = o]
       /\ IF job.kind = "sequence" THEN Progress(o) ELSE UNCHANGED disk
  /\ UNCHANGED <<epoch, up, closed, active, store, stale, hits>>

\* A sequence turns an error into an interrupted result whose input
\* is unknown; a cancellation, and any error of a single step, goes through.
Interrupted ==
  /\ At("raise") /\ job.kind = "sequence" /\ job.error = "error"
  /\ job' = [job EXCEPT !.pc = "result", !.receipt = "unknown"]
  /\ UNCHANGED <<epoch, up, closed, active, disk, store, stale, hits>>

FinalStatus(otherwise) == IF job.failed THEN "failed"
                          ELSE IF job.cancelled THEN "cancelled" ELSE otherwise

RunResult ==
  /\ At("result")
  /\ disk' = [disk EXCEPT
       ![active].status = FinalStatus(IF job.receipt \in {"done", "satisfied"} THEN "completed" ELSE "failed"),
       ![active].executed = Merge(@, ReceiptAction(job.receipt))]
  /\ Goto("exit")
  /\ UNCHANGED <<epoch, up, closed, active, store, stale, hits>>

RunRaise ==
  /\ At("raise") /\ ~(job.kind = "sequence" /\ job.error = "error")
  /\ disk' = [disk EXCEPT ![active].status = FinalStatus("failed")]
  /\ Goto("exit")
  /\ UNCHANGED <<epoch, up, closed, active, store, stale, hits>>

RunExit ==
  /\ At("exit")
  /\ active' = NoCommand
  /\ job' = NewJob
  /\ UNCHANGED <<epoch, up, closed, disk, store, stale, hits>>

-----------------------------------------------------------------------------
(***************************************************************************)
(* The host's main thread.                                                 *)
(***************************************************************************)
\* Mutant: the files of earlier hosts are not consulted.
Start_MemoryOnly(c, k) ==
  /\ up /\ ~closed
  /\ active = NoCommand
  /\ active' = c
  /\ job' = [NewJob EXCEPT !.kind = k]
  /\ disk' = [disk EXCEPT ![c].attempt = "none", ![c].status = "running"]
  /\ UNCHANGED <<epoch, up, closed, store, stale, hits>>

Start(c, k) ==
  /\ up /\ ~closed
  /\ active = NoCommand
  /\ disk[c].status = "absent"
  /\ active' = c
  /\ job' = [NewJob EXCEPT !.kind = k]
  /\ disk' = [disk EXCEPT ![c].status = "running"]
  /\ UNCHANGED <<epoch, up, closed, store, stale, hits>>

\* grounding_resolve: the first answer counts; an API request accepts from
\* the agent only an answer without candidates.
Resolve(r, v) ==
  /\ up /\ store[r].owner = epoch
  /\ Read(r) = "awaiting_grounding"
  /\ ApiGrounder => v # "grounding_ready"
  /\ SetPhase(r, v)
  /\ UNCHANGED <<epoch, up, closed, active, disk, stale, job, hits>>

\* Mutant: the execution_id is not looked at.
CancelRequest_AnyPhase(r) ==
  /\ up /\ store[r].owner = epoch
  /\ store[r].phase \notin {"none", "cancelled", "expired"}
  /\ Withdraw(r)
  /\ UNCHANGED <<epoch, up, closed, active, disk, stale, job, hits>>

\* grounding_cancel.
CancelRequest(r) ==
  /\ up /\ store[r].owner = epoch
  /\ store[r].phase \notin Claimed \cup {"none", "cancelled", "expired"}
  /\ Withdraw(r)
  /\ UNCHANGED <<epoch, up, closed, active, disk, stale, job, hits>>

\* grounding_status, and every refused call, persists a noticed expiry.
GetRequest(r) ==
  /\ up /\ store[r].owner = epoch
  /\ Read(r) # store[r].phase
  /\ SetPhase(r, "expired")
  /\ UNCHANGED <<epoch, up, closed, active, disk, stale, job, hits>>

\* agent_command_continue of a grounding wait.
Resume ==
  /\ up /\ active # NoCommand /\ LockFree
  /\ ~ApiGrounder
  /\ ~job.cancelled /\ ~job.resumed
  /\ disk[active].status = "awaiting_grounding"
  /\ Read(Current) = "grounding_ready"
  /\ SetPhase(Current, "executing")
  /\ job' = [job EXCEPT !.resumed = TRUE]
  /\ disk' = [disk EXCEPT ![active].status = "running"]
  /\ UNCHANGED <<epoch, up, closed, active, stale, hits>>

ReviewPreAction(v) ==
  /\ up /\ active # NoCommand /\ ReviewLive
  /\ job.review = "waiting" /\ disk[active].status = "awaiting_pre_action_review"
  /\ job' = [job EXCEPT !.review = v]
  /\ UNCHANGED <<epoch, up, closed, active, disk, store, stale, hits>>

\* Approval grants a new, shorter deadline.
ContinuePreAction ==
  /\ up /\ active # NoCommand /\ ReviewLive
  /\ job.review = "success" /\ disk[active].status = "awaiting_pre_action_review"
  /\ job' = [job EXCEPT !.review = "continued", !.late = FALSE]
  /\ disk' = [disk EXCEPT ![active].status = "running"]
  /\ UNCHANGED <<epoch, up, closed, active, store, stale, hits>>

ReviewField(v) ==
  /\ up /\ active # NoCommand /\ ~closed /\ ~job.cancelled
  /\ job.field = "waiting" /\ disk[active].status = "awaiting_field_review"
  /\ job' = [job EXCEPT !.field = v, !.asleep = @ /\ v # "failure"]
  /\ UNCHANGED <<epoch, up, closed, active, disk, store, stale, hits>>

ContinueField ==
  /\ up /\ active # NoCommand /\ ~closed /\ ~job.cancelled
  /\ job.field = "success" /\ disk[active].status = "awaiting_field_review"
  /\ job' = [job EXCEPT !.field = "continued", !.asleep = FALSE]
  /\ disk' = [disk EXCEPT ![active].status = "running"]
  /\ UNCHANGED <<epoch, up, closed, active, store, stale, hits>>

\* Mutant: no notify_all.
Cancel_Silent ==
  /\ up /\ active # NoCommand /\ LockFree
  /\ disk[active].status \notin Terminal
  /\ LET waits   == job.pending /\ ~job.resumed
         refused == waits /\ store[Current].phase \in Claimed
     IN  /\ IF waits /\ ~refused THEN Withdraw(Current) ELSE UNCHANGED store
         /\ job' = [job EXCEPT !.cancelled = TRUE]
         /\ disk' = IF refused THEN disk ELSE [disk EXCEPT ![active].cancelRequested = TRUE]
  /\ UNCHANGED <<epoch, up, closed, active, stale, hits>>

\* A pending request that is claimed makes store.cancel raise: the flag is
\* set, but neither the snapshot nor the waiters hear of it.
Cancel ==
  /\ up /\ active # NoCommand /\ LockFree
  /\ disk[active].status \notin Terminal
  /\ LET waits   == job.pending /\ ~job.resumed
         refused == waits /\ store[Current].phase \in Claimed
     IN  /\ IF waits /\ ~refused THEN Withdraw(Current) ELSE UNCHANGED store
         /\ job' = [job EXCEPT !.cancelled = TRUE, !.asleep = @ /\ refused]
         /\ disk' = IF refused THEN disk ELSE [disk EXCEPT ![active].cancelRequested = TRUE]
  /\ UNCHANGED <<epoch, up, closed, active, stale, hits>>

\* close: the flag first, then a cancel of the active command, then join.
Close ==
  /\ up /\ ~closed /\ LockFree
  /\ closed' = TRUE
  /\ UNCHANGED <<epoch, up, active, disk, store, stale, job, hits>>

CloseCancel == closed /\ ~job.cancelled /\ Cancel

CloseJoined ==
  /\ up /\ closed /\ active = NoCommand
  /\ up' = FALSE
  /\ UNCHANGED <<epoch, closed, active, disk, store, stale, job, hits>>

-----------------------------------------------------------------------------
(***************************************************************************)
(* Clocks, and the death and replacement of the host.                      *)
(***************************************************************************)
\* Only a request that can still be answered, claimed or used looks at it.
RequestExpires(r) ==
  /\ store[r].phase \in Expirable \cup {"executing"} /\ r \notin stale
  /\ stale' = stale \cup {r}
  /\ UNCHANGED <<epoch, up, closed, active, disk, store, job, hits>>

ReviewExpires ==
  /\ up /\ active # NoCommand
  /\ job.review # "none" /\ ~job.late
  /\ job' = [job EXCEPT !.late = TRUE]
  /\ UNCHANGED <<epoch, up, closed, active, disk, store, stale, hits>>

Crash ==
  /\ up
  /\ up' = FALSE
  /\ active' = NoCommand
  /\ job' = NewJob
  /\ UNCHANGED <<epoch, closed, disk, store, stale, hits>>

Restart ==
  /\ ~up /\ epoch < MaxEpoch
  /\ up' = TRUE
  /\ epoch' = epoch + 1
  /\ closed' = FALSE
  /\ UNCHANGED <<active, disk, store, stale, job, hits>>

\* The last host is gone.
SessionOver == ~up /\ epoch = MaxEpoch /\ UNCHANGED vars

-----------------------------------------------------------------------------
Grounding ==
  \/ Prepare \/ ApiBegin \/ ApiRefused \/ ApiClaim \/ ApiFail
  \/ \E v \in NotFound \cup {"grounding_ready"} : ApiAnswered(v)
  \/ AwaitGrounding \/ GroundingLost \/ GroundingAbandoned \/ GroundingResumed

NativeStep ==
  \/ NativeClaim \/ NativeInput \/ NativeRaise
  \/ \E o \in {"done", "failed", "zero", "denied", "unknown"} : NativeReturn(o)

Dispatch ==
  \/ GroundedCancelled \/ GroundedDispatch \/ NativeStep
  \/ DirectReturned \/ NativeReturned \/ UnknownFinish \/ RecordUnknown \/ Finish

Parking ==
  \/ Park \/ SkipReview \/ ReviewEnded \/ ReviewRejected \/ ReviewApproved \/ ResumeDispatch
  \/ ResumeReturned \/ ZeroReopen \/ ZeroRecord \/ ZeroFinish

Stepping ==
  \/ StepCancelled \/ DirectDispatch \/ SelectionSatisfied \/ VisualStep
  \/ NextStep \/ FieldPark \/ FieldWake \/ EndCommand \/ Interrupted
  \/ RunResult \/ RunRaise \/ RunExit

\* Outcomes of checks that may, but need not, go against the command.
Refusals == StepRefused \/ CaptureRefused \/ GroundingOverdue \/ GroundedRefused \/ ReviewBroken

Worker == Grounding \/ Dispatch \/ Parking \/ Stepping

Host ==
  \/ \E c \in Command, k \in Kind : Start(c, k)
  \/ \E r \in Request : \/ \E v \in NotFound \cup {"grounding_ready"} : Resolve(r, v)
                        \/ CancelRequest(r) \/ GetRequest(r)
  \/ \E v \in Verdict : ReviewPreAction(v) \/ ReviewField(v)
  \/ Resume \/ ContinuePreAction \/ ContinueField
  \/ Cancel \/ Close \/ CloseCancel \/ CloseJoined

Environment ==
  \/ \E r \in Request : RequestExpires(r)
  \/ ReviewExpires \/ Crash \/ Restart \/ SessionOver

Next == Worker \/ Refusals \/ Host \/ Environment

Spec == Init /\ [][Next]_vars
-----------------------------------------------------------------------------
(***************************************************************************)
(* Properties.                                                             *)
(***************************************************************************)
\* A step of a command makes native input at most once, though a step may be
\* invoked twice and a command may be submitted again to a later host.
OneInputPerStep == \A r \in Request : hits[r] <= 1

\* The durable snapshot of a command never denies input that happened, even
\* when the host died between the input and its receipt, and never affirms
\* input that did not happen (_begin_dispatch writes before the input).
DiskTellsTheTruth ==
  \A c \in Command :
    LET happened == \E k \in 1..MaxSteps : hits[<<c, k>>] > 0
    IN  /\ happened => disk[c].executed # "no"
        /\ disk[c].executed = "yes" => happened

\* The handoff record agrees: input goes only to a claimed request, and a
\* finished request that says input was not attempted saw none.
StoreTellsTheTruth ==
  \A r \in Request :
    store[r].phase # "none" /\ hits[r] > 0 =>
      store[r].phase \in Claimed /\ (store[r].phase = "completed" => store[r].attempted)

\* Neither of the two durable records of a step misleads about its input
\* (_begin_dispatch, finish_execution).
RecordsTellTheTruth == TypeOK /\ DiskTellsTheTruth /\ StoreTellsTheTruth

\* However a command ends, none of its requests is left open to a later
\* answer, claim or cancellation in the same host.
RequestsSettle ==
  \A r \in Request :
    up /\ store[r].owner = epoch /\ r[1] # active =>
      store[r].phase \in {"completed", "cancelled", "expired"}

\* A cancel never finds its pending request already claimed, so it always
\* reaches the snapshot and wakes the waiting worker.
CancelIsHeard ==
  active # NoCommand /\ job.pending /\ ~job.resumed /\ LockFree =>
    store[Current].phase \notin Claimed

\* A command does not end while its last dispatch attempt is unsettled.
AttemptSettledAtEnd ==
  \A c \in Command : disk[c].status \in Terminal =>
    disk[c].attempt \notin {"started", "paused_before_input"}

\* A command leaves nothing open behind it: no request, no dispatch attempt.
CommandsSettle == RequestsSettle /\ AttemptSettledAtEnd

\* Once a cancel is accepted between two dispatches, no further dispatch
\* begins: not a direct one, not a grounded one, not one a review released.
CancelBarsDispatch ==
  [][active # NoCommand /\ active' = active /\ job.cancelled /\ job.pc \notin Native
       => job'.pc \notin Native]_vars

\* The published end of a command is never rewritten, by a late cancel or by
\* a later host.
EndIsFinal == [][\A c \in Command : disk[c].status \in Terminal => disk'[c] = disk[c]]_vars

\* A claim is never taken back: a claimed request is not cancelled, does not
\* expire, and its outcome does not change.
ClaimIsFinal ==
  [][\A r \in Request : /\ store[r].phase \in Claimed => store'[r].phase \in Claimed
                        /\ store[r].phase = "completed" => store'[r] = store[r]]_vars

\* What is settled stays settled: the end of a command and a claim.
SettledIsFinal == EndIsFinal /\ ClaimIsFinal

-----------------------------------------------------------------------------
(***************************************************************************)
(* Fairness: the worker thread runs, providers and native calls return     *)
(* (both have timeouts), clocks advance, and close cancels and joins.      *)
(* Nobody is assumed to answer, review, continue or refuse.                *)
(***************************************************************************)
Fairness ==
  /\ WF_vars(Worker)
  /\ WF_vars(CloseCancel)
  /\ WF_vars(CloseJoined)
  /\ WF_vars(ReviewExpires)
  /\ \A r \in Request : WF_vars(RequestExpires(r))

FairSpec == Spec /\ Fairness

\* A session that is being closed stops, wherever its worker waits: on the
\* provider, on a grounding, or on a review that has no deadline.
CloseTerminates == (up /\ closed) ~> ~up

\* The host's command c waits; a snapshot left by a dead host says so for ever.
WaitsAs(c, status) == active = c /\ disk[c].status = status

\* A command does not wait for grounding for ever.
GroundingWaitEnds == \A c \in Command : []<>~WaitsAs(c, "awaiting_grounding")

\* Nor for a review before the action.
PreActionWaitEnds == \A c \in Command : []<>~WaitsAs(c, "awaiting_pre_action_review")

\* No wait of a command outlives its clock, and closing ends them all.
WaitsEnd == GroundingWaitEnds /\ PreActionWaitEnds /\ CloseTerminates
=============================================================================
