------------------------------ MODULE TaskPlan ------------------------------
(***************************************************************************)
(* A task plan and the command queue it shares with the MCP process:       *)
(*   app/core/instant_command_queue.py          the queue and its lock     *)
(*   app/core/instant_attachment_transport.py   the client's submissions   *)
(*   app/execution/task_plan_backend.py         the trial: what is proved  *)
(*   app/learning_memory/workflow_runner.py     the runner: what is issued *)
(*   app/learning_memory/workflow_runtime.py    the tick, admission        *)
(*   app/execution/task_plan_admission.py       controls of the plan       *)
(*   scripts/run_local_step_session.py          the host's loop            *)
(*                                                                         *)
(* One thread of the host runs the loop, the controls and the ticks; the   *)
(* client process queues one command at a time and may close the session   *)
(* at any moment; an agent command of a step runs on in a thread of its    *)
(* own.  A host step ends where the code takes or drops the queue's lock,  *)
(* reads a result, or leaves an answer of another party to be awaited.     *)
(* The trial, the runner and the active pointer are three files: a write   *)
(* that fails (MaxFaults of them) leaves them apart.                       *)
(*                                                                         *)
(* One caller plan of MaxStep steps under the legacy recovery policy;      *)
(* "inputs" is a history variable: the inputs that really happened.        *)
(***************************************************************************)
EXTENDS Naturals, FiniteSets

CONSTANTS MaxStep,   \* steps of the plan; step s has the command id s
          Start,     \* the control that starts the plan
          Cancel,    \* cancel controls, each submitted once
          Continue,  \* continue controls
          Review,    \* review controls
          Other,     \* commands with an input of their own
          Close,     \* the close command
          NoCommand,
          MaxFaults  \* bound on failing writes

ASSUME BoundAssumption == MaxStep \in Nat \ {0} /\ MaxFaults \in Nat

VARIABLES commands,  \* commands/<id>.json
          response,  \* responses/<id>.json
          lock,      \* the client's hold of command-queue.lock, with its command
          stop,      \* how far the client's stop has come; not "no": closing.json
          argument,  \* the wait_id a continue carries
          trial,     \* task-plan-trials/<run>.json
          verdict,   \* its history: how each step was settled
          unsure,    \* its verification_results that are uncertain
          runner,    \* task-plan-runners/<run>.json
          active,    \* active.json names the run
          enabled,   \* TaskPlanRuntime._enabled_run
          host,      \* the host's thread, and what its step has in hand
          done,      \* the loop's set of handled commands
          job,       \* the step whose agent command is running, or 0
          inputs,    \* inputs that happened, by command
          faults     \* failed writes so far

queueVars == <<commands, response, lock, stop, argument>>
planVars  == <<trial, verdict, unsure, runner, active>>
hostVars  == <<enabled, host, done>>
worldVars == <<job, inputs, faults>>
vars == <<commands, response, lock, stop, argument, trial, verdict, unsure,
          runner, active, enabled, host, done, job, inputs, faults>>

Step    == 1..MaxStep
Control == {Start} \cup Cancel \cup Continue \cup Review
Client  == Control \cup Other
Command == Step \cup Client \cup {Close}

\* Identifiers of different kinds are different.
ASSUME IdAssumption ==
  /\ (0..MaxStep) \cap (Client \cup {Close}) = {}
  /\ Other \cap Control = {} /\ Close \notin Client
  /\ Start \notin Cancel \cup Continue \cup Review /\ Cancel \cap Continue = {}
  /\ NoCommand \notin Command

Terminal == {"completed", "failed", "cancelled"}

\* The receipt of a step that has ended.  Its input was completed and the
\* authenticated judgment of it says "success", "failure" or "uncertain";
\* or it is proved that there was no input ("noinput"); or neither ("unknown").
Completed == {"success", "failure", "uncertain"}
Outcome   == Completed \cup {"noinput", "unknown"}

\* "withdrawn" is the receipt cancelled_before_submission.
StepResponse    == {"none", "running", "withdrawn"} \cup Outcome
ControlResponse == {"none", "returned", "failed", "rejected"}

NoWait == [reason |-> "none", step |-> 0]

NoRunner == [state |-> "none", ticket |-> 0, dispatch |-> "none", wait |-> NoWait,
             cancel |-> NoCommand]

Idle == [at |-> "loop", command |-> NoCommand, verdict |-> "none", input |-> FALSE]

Init ==
  /\ commands = {}
  /\ response = [c \in Command |-> "none"]
  /\ lock = NoCommand
  /\ stop = "no"
  /\ argument = [c \in Continue |-> NoWait]
  /\ trial = [status |-> "none", pending |-> FALSE, step |-> 1]
  /\ verdict = [s \in Step |-> "none"]
  /\ unsure = {}
  /\ runner = NoRunner
  /\ active = FALSE
  /\ enabled = FALSE
  /\ host = Idle
  /\ done = {}
  /\ job = 0
  /\ inputs = [c \in Step \cup Other |-> 0]
  /\ faults = 0

-----------------------------------------------------------------------------
(***************************************************************************)
(* The queue and the client.                                               *)
(***************************************************************************)
Closing == stop # "no"

Pending == {c \in commands : response[c] = "none"}

HostUp == host.at # "exited"

\* status found no command pending; the host may have queued a step since.
\* A continue names the wait that the report shows.
AcquireLock(c) ==
  /\ HostUp /\ ~Closing
  /\ lock = NoCommand /\ c \notin commands
  /\ Pending \subseteq Step
  /\ c \in Continue => runner.wait # NoWait
  /\ lock' = c
  /\ argument' = IF c \in Continue THEN [argument EXCEPT ![c] = runner.wait] ELSE argument
  /\ UNCHANGED <<commands, response, stop, planVars, hostVars, worldVars>>

\* Mutant: the marker of a session that closes is not looked for.
MayEnqueue_WhileClosing(ignored) == Pending \subseteq ignored

\* What enqueue_command asks under the lock.
MayEnqueue(ignored) == ~Closing /\ Pending \subseteq ignored

ClientEnqueues ==
  /\ lock # NoCommand
  /\ commands' = IF MayEnqueue({}) THEN commands \cup {lock} ELSE commands
  /\ lock' = NoCommand
  /\ UNCHANGED <<response, stop, argument, planVars, hostVars, worldVars>>

\* stop: the marker, then the close command, neither under the queue's lock.
StopMarker ==
  /\ HostUp /\ lock = NoCommand /\ ~Closing
  /\ stop' = "marked"
  /\ UNCHANGED <<commands, response, lock, argument, planVars, hostVars, worldVars>>

StopCommand ==
  /\ stop = "marked"
  /\ stop' = "queued"
  /\ commands' = commands \cup {Close}
  /\ UNCHANGED <<response, lock, argument, planVars, hostVars, worldVars>>

\* The second write fails; a later stop finds the marker and writes
\* cleanup-retry.json only.
StopLost ==
  /\ stop = "marked" /\ faults < MaxFaults
  /\ stop' = "lost"
  /\ faults' = faults + 1
  /\ UNCHANGED <<commands, response, lock, argument, planVars, hostVars, job, inputs>>

-----------------------------------------------------------------------------
(***************************************************************************)
(* The host's thread.                                                      *)
(***************************************************************************)
At(p) == host.at = p

Goto(p) == host' = [host EXCEPT !.at = p]

\* A cancel that waits in the queue is not the control in hand.
CancelQueued == Cancel \cap Pending # {}

\* assert_no_queued_plan_cancel raises: a cancel waits, or the lock is taken.
CancelBars == CancelQueued \/ lock # NoCommand

Fails == faults < MaxFaults /\ faults' = faults + 1

\* Mutant: the loop goes by the responses, and forgets what it did.
Respond_Forgets(c, r) == response' = [response EXCEPT ![c] = r] /\ UNCHANGED done

\* The response is written, then the command is remembered as done.
Respond(c, r) ==
  /\ response' = [response EXCEPT ![c] = r]
  /\ done' = done \cup {c}

\* An error out of the tick stops the scheduling; one out of a control is
\* its answer: "rejected" proves that nothing could have been issued.
Raise ==
  IF host.command = NoCommand
  THEN enabled' = FALSE /\ UNCHANGED <<response, done>>
  ELSE /\ Respond(host.command, IF host.input THEN "failed" ELSE "rejected")
       /\ UNCHANGED enabled

WaitFor(reason) == [runner EXCEPT !.state = "waiting", !.wait = [reason |-> reason,
                      step |-> IF runner.ticket # 0 THEN runner.ticket ELSE trial.step]]

\* Mutant: a command with a response is left out, and not remembered either.
Pick_Unanswered(c) ==
  /\ At("loop") /\ c \in Pending
  /\ c = Close => Pending = {Close}
  /\ host' = [Idle EXCEPT !.at = "command", !.command = c]
  /\ UNCHANGED <<queueVars, planVars, enabled, done, worldVars>>

\* The loop takes a command; while the session closes, the close comes last.
Pick(c) ==
  /\ At("loop") /\ c \in commands \ done
  /\ c = Close => commands \ done = {Close}
  /\ host' = [Idle EXCEPT !.at = "command", !.command = c]
  /\ UNCHANGED <<queueVars, planVars, enabled, done, worldVars>>

Quiet == At("loop") /\ commands \subseteq done /\ enabled

TickStops ==
  /\ Quiet /\ Closing
  /\ enabled' = FALSE
  /\ UNCHANGED <<queueVars, planVars, host, done, worldVars>>

\* _cancel_unsubmitted: a cancelled plan has a ticket that was put off.
Unsubmitted == runner.cancel # NoCommand /\ runner.ticket # 0 /\ runner.dispatch = "deferred"

\* It needs the lock; a tick that does not get it does nothing.
TickWithdraws ==
  /\ Quiet /\ ~Closing /\ Unsubmitted /\ lock = NoCommand
  /\ IF runner.ticket \in commands THEN UNCHANGED <<commands, response>>
     ELSE /\ response' = [response EXCEPT ![runner.ticket] = "withdrawn"]
          /\ commands' = commands \cup {runner.ticket}
  /\ Goto("drive")
  /\ UNCHANGED <<lock, stop, argument, planVars, enabled, done, worldVars>>

TickDrives ==
  /\ Quiet /\ ~Closing /\ ~Unsubmitted
  /\ Goto("drive")
  /\ UNCHANGED <<queueVars, planVars, enabled, done, worldVars>>

-----------------------------------------------------------------------------
(***************************************************************************)
(* _drive: from wherever the runner stands to its next wait.               *)
(***************************************************************************)
NothingToDo ==
  \/ runner.state \in Terminal
  \/ runner.ticket = 0 /\ (host.command \in Continue \/ runner.cancel # NoCommand)

DriveEnds == At("drive") /\ NothingToDo /\ Goto("end")
  /\ UNCHANGED <<queueVars, planVars, enabled, done, worldVars>>

DriveTicket ==
  /\ At("drive") /\ ~NothingToDo /\ runner.ticket # 0
  /\ Goto(IF runner.dispatch = "deferred" /\ runner.cancel = NoCommand THEN "submit" ELSE "reconcile")
  /\ UNCHANGED <<queueVars, planVars, enabled, done, worldVars>>

\* A cancel that reached the trial only: the runner follows it.
DriveFinishes ==
  /\ At("drive") /\ ~NothingToDo /\ runner.ticket = 0
  /\ trial.status \in Terminal
  /\ runner' = [runner EXCEPT !.state = trial.status]
  /\ Goto("end")
  /\ UNCHANGED <<queueVars, trial, verdict, unsure, active, enabled, done, worldVars>>

\* prepare writes the trial, _prepared the runner, each to its own file.
DrivePrepares ==
  /\ At("drive") /\ ~NothingToDo /\ runner.ticket = 0
  /\ trial.status = "ready"
  /\ trial' = [trial EXCEPT !.status = "pending", !.pending = TRUE]
  /\ \/ /\ runner' = [runner EXCEPT !.state = "dispatching", !.ticket = trial.step,
                        !.dispatch = "dispatching", !.wait = NoWait]
        /\ Goto("submit")
        /\ UNCHANGED <<response, enabled, done, faults>>
     \/ Fails /\ Raise /\ host' = Idle /\ UNCHANGED runner
  /\ UNCHANGED <<commands, lock, stop, argument, verdict, unsure, active, job, inputs>>

\* Nothing of the ticket was written: it is put off, and tried again later.
Defer ==
  /\ runner' = [WaitFor("queue_busy") EXCEPT !.dispatch = "deferred"]
  /\ Goto("end")
  /\ UNCHANGED <<queueVars, trial, verdict, unsure, active, enabled, done, worldVars>>

\* Any other refusal, a changed target window for one, leaves the ticket
\* "dispatching": from then on only its receipt counts.
Refuse ==
  /\ runner' = [runner EXCEPT !.dispatch = "dispatching"]
  /\ Goto("reconcile")
  /\ UNCHANGED <<queueVars, trial, verdict, unsure, active, enabled, done, worldVars>>

\* _enqueue looks for a queued cancel and takes the queue's lock.
SubmitLooks ==
  /\ At("submit")
  /\ \/ CancelBars /\ Defer
     \/ ~CancelBars /\ Refuse
     \/ /\ ~CancelBars
        /\ runner' = [runner EXCEPT !.dispatch = "dispatching"]
        /\ host' = [host EXCEPT !.at = "enqueue", !.input = TRUE]
        /\ UNCHANGED <<queueVars, trial, verdict, unsure, active, enabled, done, worldVars>>

\* enqueue_command takes it again.
SubmitEnqueues ==
  /\ At("enqueue") /\ lock = NoCommand
  /\ runner.ticket \in commands \/ MayEnqueue({host.command})
  /\ commands' = commands \cup {runner.ticket}
  /\ \/ /\ runner' = [runner EXCEPT !.dispatch = "submitted"]
        /\ Goto("reconcile")
        /\ UNCHANGED <<response, enabled, done, faults>>
     \/ Fails /\ Raise /\ host' = Idle /\ UNCHANGED runner
  /\ UNCHANGED <<lock, stop, argument, trial, verdict, unsure, active, job, inputs>>

SubmitDefers ==
  /\ At("enqueue") /\ runner.ticket \notin commands
  /\ lock # NoCommand \/ (~Closing /\ ~MayEnqueue({host.command}))
  /\ Defer

SubmitRefused == At("enqueue") /\ lock = NoCommand /\ runner.ticket \notin commands
  /\ Closing /\ Refuse

\* _reviewed_ticket: the trial has settled the ticket, perhaps by a review.
Reviewed(s) == s # 0 /\ ~trial.pending /\ verdict[s] # "none"

ReconcileSettled == At("reconcile") /\ Reviewed(runner.ticket) /\ Goto("settle")
  /\ UNCHANGED <<queueVars, planVars, enabled, done, worldVars>>

WaitAndEnd(reason) ==
  /\ runner' = WaitFor(reason)
  /\ Goto("end")
  /\ UNCHANGED <<queueVars, trial, verdict, unsure, active, enabled, done, worldVars>>

ReconcileWaits ==
  /\ At("reconcile") /\ ~Reviewed(runner.ticket)
  /\ response[runner.ticket] \in {"none", "running"}
  /\ WaitAndEnd(IF runner.ticket \in commands THEN "execution_pending" ELSE "result_unknown")

ReconcileEnded ==
  /\ At("reconcile") /\ ~Reviewed(runner.ticket)
  /\ response[runner.ticket] \notin {"none", "running"}
  /\ Goto("verify")
  /\ UNCHANGED <<queueVars, planVars, enabled, done, worldVars>>

-----------------------------------------------------------------------------
(***************************************************************************)
(* verify_task_plan_step and record_verified_result.  The judgment takes   *)
(* its time between "verify" and "judge"; a cancel is asked for before it, *)
(* after it, and once more before the trial is written.                    *)
(***************************************************************************)
\* An uncertain verdict is kept: the same verification returns it again.
\* Only a verification under a cancel goes on, with a request id of its own.
VerifyBegins ==
  /\ At("verify")
  /\ IF CancelBars \/ (runner.ticket \in unsure /\ trial.status # "cancel_requested")
     THEN WaitAndEnd("verification_required")
     ELSE /\ Goto("judge")
          /\ UNCHANGED <<queueVars, planVars, enabled, done, worldVars>>

\* What the receipt of s proves.
Judgment(s) ==
  IF response[s] = "unknown" THEN "uncertain"
  ELSE IF response[s] \in {"noinput", "withdrawn"} \/ trial.status = "cancel_requested" THEN "failure"
  ELSE IF Closing THEN "uncertain"
  ELSE response[s]

VerifyUnsure ==
  /\ At("judge") /\ Judgment(runner.ticket) = "uncertain"
  /\ unsure' = IF response[runner.ticket] \in Completed /\ CancelBars THEN unsure
               ELSE unsure \cup {runner.ticket}
  /\ runner' = WaitFor("verification_required")
  /\ Goto("end")
  /\ UNCHANGED <<queueVars, trial, verdict, active, enabled, done, worldVars>>

VerifyJudges ==
  /\ At("judge") /\ Judgment(runner.ticket) # "uncertain"
  /\ IF CancelBars /\ response[runner.ticket] \in Completed
     THEN WaitAndEnd("verification_required")
     ELSE /\ host' = [host EXCEPT !.at = "record", !.verdict = Judgment(runner.ticket)]
          /\ UNCHANGED <<queueVars, planVars, enabled, done, worldVars>>

\* A session that closes, or a cancel on record, overrides the verdict.
RecordLooks ==
  /\ At("record")
  /\ IF CancelBars THEN WaitAndEnd("verification_required")
     ELSE /\ host' = [host EXCEPT !.at = "write", !.verdict =
                        IF Closing \/ trial.status = "cancel_requested" THEN "cancelled" ELSE @]
          /\ UNCHANGED <<queueVars, planVars, enabled, done, worldVars>>

\* Mutant: the plan goes on after a failure.
Settled_GoesOn(s, v) ==
  [status |-> IF s < MaxStep THEN "ready" ELSE "completed", pending |-> FALSE,
   step |-> IF s < MaxStep THEN s + 1 ELSE s]

\* The trial after step s is settled as v.
Settled(s, v) ==
  IF v = "success" /\ s < MaxStep
  THEN [status |-> "ready", pending |-> FALSE, step |-> s + 1]
  ELSE [status |-> CASE v = "success" -> "completed" [] v = "failure" -> "failed" [] OTHER -> "cancelled",
        pending |-> FALSE, step |-> s]

\* A write that fails is caught in _reconcile.
RecordWrites ==
  /\ At("write")
  /\ \/ /\ trial' = Settled(runner.ticket, host.verdict)
        /\ verdict' = [verdict EXCEPT ![runner.ticket] = host.verdict]
        /\ Goto("settle")
        /\ UNCHANGED <<runner, faults>>
     \/ /\ Fails /\ runner' = WaitFor("verification_required") /\ Goto("end")
        /\ UNCHANGED <<trial, verdict>>
  /\ UNCHANGED <<queueVars, unsure, active, enabled, done, job, inputs>>

\* _settle_reviewed: the ticket is given back.
RunnerSettled(t, cancel) ==
  [runner EXCEPT !.ticket = 0, !.dispatch = "none", !.wait = NoWait, !.cancel = cancel,
     !.state = IF t.status \in Terminal THEN t.status
               ELSE IF cancel # NoCommand THEN "cancel_requested" ELSE "ready"]

SettleReviewed ==
  /\ At("settle")
  /\ \/ /\ runner' = RunnerSettled(trial, runner.cancel)
        /\ Goto("drive")
        /\ UNCHANGED <<response, enabled, done, faults>>
     \/ Fails /\ Raise /\ host' = Idle /\ UNCHANGED runner
  /\ UNCHANGED <<commands, lock, stop, argument, trial, verdict, unsure, active, job, inputs>>

\* Mutant: a cancel does not lift the wait of a verification.
StaysEnabled_AutoOnly(r, t) ==
  r.state \notin Terminal /\ r.wait.reason \in {"none", "execution_pending", "queue_busy"}

\* _remember_active: who is still scheduled when a drive or a cancel is over.
StaysEnabled(r, t) ==
  /\ r.state \notin Terminal
  /\ IF t.status = "cancel_requested"
     THEN r.wait.reason # "verification_required" \/ r.state = "cancel_requested"
     ELSE r.wait.reason \in {"none", "execution_pending", "queue_busy"}

EndDrive ==
  /\ At("end")
  /\ enabled' = StaysEnabled(runner, trial)
  /\ IF host.command = NoCommand THEN UNCHANGED <<response, done>>
     ELSE Respond(host.command, "returned")
  /\ host' = Idle
  /\ UNCHANGED <<commands, lock, stop, argument, planVars, worldVars>>

-----------------------------------------------------------------------------
(***************************************************************************)
(* Controls of the plan.  The client queues nothing while one is handled.  *)
(***************************************************************************)
Handles(C) == At("command") /\ host.command \in C

\* The answer of a control that ends here.
Answer(r) ==
  /\ Respond(host.command, r)
  /\ host' = Idle

\* start writes the trial, then the runner, then the pointer, then drives.
StartPlan ==
  /\ Handles({Start})
  /\ trial' = [trial EXCEPT !.status = "ready"]
  /\ \/ /\ runner' = [NoRunner EXCEPT !.state = "ready"]
        /\ active' = TRUE
        /\ host' = [host EXCEPT !.at = "drive", !.input = TRUE]
        /\ UNCHANGED <<response, done, faults>>
     \/ /\ Fails /\ Answer("failed")
        /\ runner' \in {NoRunner, [NoRunner EXCEPT !.state = "ready"]}
        /\ UNCHANGED active
  /\ UNCHANGED <<commands, lock, stop, argument, verdict, unsure, enabled, job, inputs>>

\* The plan is unknown, or another cancel has been accepted.
CancelRejected ==
  /\ Handles(Cancel)
  /\ runner.state = "none" \/ runner.cancel # NoCommand
  /\ Answer("rejected")
  /\ UNCHANGED <<commands, lock, stop, argument, planVars, enabled, worldVars>>

CancelTooLate ==
  /\ Handles(Cancel) /\ runner.cancel = NoCommand /\ runner.state \in Terminal
  /\ Answer("returned")
  /\ enabled' = FALSE
  /\ UNCHANGED <<commands, lock, stop, argument, planVars, worldVars>>

CancelledTrial ==
  IF trial.status \in Terminal THEN trial
  ELSE [trial EXCEPT !.status = IF trial.pending THEN "cancel_requested" ELSE "cancelled"]

CancelledRunner ==
  IF Reviewed(runner.ticket) THEN RunnerSettled(CancelledTrial, host.command)
  ELSE [runner EXCEPT !.cancel = host.command,
                      !.state = IF runner.ticket # 0 THEN "cancel_requested" ELSE "cancelled"]

\* The trial first, then the runner; agent_jobs.cancel is left to the job.
CancelPlan ==
  /\ Handles(Cancel) /\ runner.cancel = NoCommand /\ runner.state \notin Terminal \cup {"none"}
  /\ trial' = CancelledTrial
  /\ \/ /\ runner' = CancelledRunner
        /\ Answer("returned")
        /\ enabled' = StaysEnabled(runner', trial')
        /\ UNCHANGED faults
     \/ /\ Fails /\ Answer("rejected") /\ UNCHANGED <<runner, enabled>>
  /\ UNCHANGED <<commands, lock, stop, argument, verdict, unsure, active, job, inputs>>

Waits(c) == runner.wait # NoWait /\ runner.wait = argument[c]

ContinueRejected ==
  /\ Handles(Continue) /\ ~Waits(host.command)
  /\ Answer("rejected")
  /\ UNCHANGED <<commands, lock, stop, argument, planVars, enabled, worldVars>>

\* Every wait of a caller plan has a ticket.
ContinuePlan ==
  /\ Handles(Continue) /\ Waits(host.command)
  /\ runner' = [runner EXCEPT !.wait = NoWait, !.state = "dispatching"]
  /\ host' = [host EXCEPT !.at = "drive", !.input = TRUE]
  /\ UNCHANGED <<queueVars, trial, verdict, unsure, active, enabled, done, worldVars>>

\* A review settles the pending step of a plan that waits for it, if its
\* input was completed; the runner learns of it by a continue or a cancel.
Reviewable ==
  /\ runner.wait.reason = "verification_required"
  /\ trial.pending /\ trial.status = "pending"
  /\ response[trial.step] \in Completed

ReviewRejected ==
  /\ Handles(Review) /\ ~Reviewable
  /\ Answer("rejected")
  /\ UNCHANGED <<commands, lock, stop, argument, planVars, enabled, worldVars>>

ReviewPlan ==
  /\ Handles(Review) /\ Reviewable
  /\ \/ /\ ~Closing
        /\ \E v \in {"success", "failure"} :
             /\ trial' = Settled(trial.step, v)
             /\ verdict' = [verdict EXCEPT ![trial.step] = v]
        /\ Answer("returned") /\ UNCHANGED <<unsure, faults>>
     \/ /\ Closing
        /\ unsure' = unsure \cup {trial.step}
        /\ Answer("returned") /\ UNCHANGED <<trial, verdict, faults>>
     \/ /\ Fails /\ Answer("rejected") /\ UNCHANGED <<trial, verdict, unsure>>
  /\ UNCHANGED <<commands, lock, stop, argument, runner, active, enabled, job, inputs>>

-----------------------------------------------------------------------------
(***************************************************************************)
(* Commands with input: the steps, and others that compete with the plan.  *)
(***************************************************************************)
\* Mutant: without a pointer no plan is looked for.
PlanAdmits_Pointer(c) ==
  IF ~active THEN TRUE
  ELSE IF runner.state \in Terminal THEN trial.status \in Terminal
  ELSE c = runner.ticket

\* TaskPlanRuntime._admit_input.
PlanAdmits(c) ==
  IF ~active THEN trial.status \in Terminal \cup {"none"}
  ELSE IF runner.state \in Terminal THEN trial.status \in Terminal
  ELSE c = runner.ticket

\* admit takes the queue's lock without waiting for it.
Admits(c) == lock = NoCommand /\ PlanAdmits(c)

\* A refusal by the plan or the lock carries no proof; one because an agent
\* command is running does.
RefuseInput ==
  /\ Handles(Step \cup Other)
  /\ ~Admits(host.command) \/ job # 0
  /\ Answer(IF host.command \in Other THEN "rejected"
            ELSE IF Admits(host.command) THEN "noinput" ELSE "unknown")
  /\ UNCHANGED <<commands, lock, stop, argument, planVars, enabled, worldVars>>

OtherInput ==
  /\ Handles(Other) /\ Admits(host.command) /\ job = 0
  /\ inputs' = [inputs EXCEPT ![host.command] = @ + 1]
  /\ Answer("returned")
  /\ UNCHANGED <<commands, lock, stop, argument, planVars, enabled, job, faults>>

\* Inputs that can lie behind an outcome.
Happened(o) == IF o = "noinput" THEN {0} ELSE IF o = "unknown" THEN {0, 1} ELSE {1}

\* The step runs on the host's thread, and its receipt is the response.
StepRuns ==
  /\ Handles(Step) /\ Admits(host.command) /\ job = 0
  /\ \E o \in Outcome : \E n \in Happened(o) :
       /\ inputs' = [inputs EXCEPT ![host.command] = @ + n]
       /\ Answer(o)
  /\ UNCHANGED <<commands, lock, stop, argument, planVars, enabled, job, faults>>

\* Or it becomes an agent command: the response only names it.
StepStarts ==
  /\ Handles(Step) /\ Admits(host.command) /\ job = 0
  /\ job' = host.command
  /\ Answer("running")
  /\ UNCHANGED <<commands, lock, stop, argument, planVars, enabled, inputs, faults>>

JobEnds ==
  /\ HostUp /\ job # 0
  /\ \E o \in Outcome : \E n \in Happened(o) :
       /\ inputs' = [inputs EXCEPT ![job] = @ + n]
       /\ response' = [response EXCEPT ![job] = o]
  /\ job' = 0
  /\ UNCHANGED <<commands, lock, stop, argument, planVars, hostVars, faults>>

CloseSession ==
  /\ Handles({Close})
  /\ Respond(Close, "returned")
  /\ host' = [Idle EXCEPT !.at = "exited"]
  /\ enabled' = FALSE
  /\ UNCHANGED <<commands, lock, stop, argument, planVars, worldVars>>

-----------------------------------------------------------------------------
Submit == DriveTicket \/ SubmitLooks \/ SubmitEnqueues \/ SubmitDefers \/ SubmitRefused

Reconcile == ReconcileSettled \/ ReconcileWaits \/ ReconcileEnded \/ VerifyBegins
  \/ VerifyUnsure \/ VerifyJudges \/ RecordLooks \/ RecordWrites \/ SettleReviewed

PlanControl == StartPlan \/ CancelRejected \/ CancelTooLate \/ CancelPlan
  \/ ContinueRejected \/ ContinuePlan \/ ReviewRejected \/ ReviewPlan

Input == RefuseInput \/ OtherInput \/ StepRuns \/ StepStarts

Host == TickStops \/ TickWithdraws \/ TickDrives \/ DriveEnds \/ DriveFinishes \/ DrivePrepares
  \/ Submit \/ Reconcile \/ EndDrive \/ PlanControl \/ Input \/ CloseSession
  \/ \E c \in Command : Pick(c)

Next == (\E c \in Client : AcquireLock(c)) \/ ClientEnqueues
  \/ StopMarker \/ StopCommand \/ StopLost \/ Host \/ JobEnds

Spec == Init /\ [][Next]_vars

\* The host's thread runs, an agent command ends, and a client that holds
\* the queue's lock or has written the marker goes on.
FairSpec == Spec /\ WF_vars(Host) /\ WF_vars(JobEnds) /\ WF_vars(ClientEnqueues)
                 /\ WF_vars(StopCommand \/ StopLost)

-----------------------------------------------------------------------------
(***************************************************************************)
(* Properties.                                                             *)
(***************************************************************************)
Place == {"loop", "command", "drive", "submit", "enqueue", "reconcile", "verify",
          "judge", "record", "write", "settle", "end", "exited"}

Wait == [reason : {"queue_busy", "execution_pending", "result_unknown", "verification_required"},
         step : Step] \cup {NoWait}

RunnerState == Terminal \cup {"none", "ready", "dispatching", "waiting", "cancel_requested"}

TypeOK ==
  /\ commands \subseteq Command /\ done \subseteq commands
  /\ \A s \in Step : response[s] \in StepResponse
  /\ \A c \in Client \cup {Close} : response[c] \in ControlResponse
  /\ lock \in Client \cup {NoCommand}
  /\ stop \in {"no", "marked", "queued", "lost"}
  /\ argument \in [Continue -> Wait]
  /\ trial \in [status : Terminal \cup {"none", "ready", "pending", "cancel_requested"},
                pending : BOOLEAN, step : Step]
  /\ verdict \in [Step -> {"none", "success", "failure", "cancelled"}]
  /\ unsure \subseteq Step
  /\ runner \in [state : RunnerState, ticket : 0..MaxStep,
                 dispatch : {"none", "dispatching", "submitted", "deferred"},
                 wait : Wait, cancel : Cancel \cup {NoCommand}]
  /\ active \in BOOLEAN /\ enabled \in BOOLEAN
  /\ host \in [at : Place, command : Command \cup {NoCommand},
               verdict : {"none", "success", "failure", "cancelled"}, input : BOOLEAN]
  /\ job \in 0..MaxStep
  /\ inputs \in [Step \cup Other -> 0..2]
  /\ faults \in 0..MaxFaults

\* No step's input happens twice, whatever was written or lost in between
\* (the fixed command id of a step, the host's done set).
OneInputPerStep == \A s \in Step : inputs[s] <= 1

\* A step reaches the queue only behind steps that were proved successful
\* (record_verified_result, prepare).
StepsInOrder == \A s \in Step : s \in commands =>
  \A t \in 1..(s - 1) : verdict[t] = "success" /\ response[t] \in Completed

\* A success stands on an input that was issued and completed, by judgment or
\* by review (verify_task_plan_step).
SuccessIsProved == \A s \in Step : verdict[s] = "success" =>
  s \in done /\ response[s] \in Completed /\ inputs[s] = 1

\* Two processes write into one directory, and yet at most one command waits,
\* beside the control in hand and the close (enqueue_command).
OneCommandWaits == Cardinality(Pending \ {host.command, Close}) <= 1

\* A step is not queued behind a cancel that waits, under an accepted cancel
\* or into a session that closes (_enqueue, enqueue_command).
CancelBarsTheQueue == [][\A s \in Step : s \in Pending' \ Pending =>
  /\ Cancel \cap Pending = {} /\ ~Closing
  /\ runner.cancel = NoCommand]_vars

\* The queue keeps its promises to the two processes that write into it: one
\* command waits at a time, and a cancel is not overtaken (enqueue_command,
\* _enqueue).
QueueIsGuarded == []OneCommandWaits /\ CancelBarsTheQueue

\* The trial's account of its steps: none out of order, none without proof
\* (prepare, record_verified_result, verify_task_plan_step).
StepsAreProved == StepsInOrder /\ SuccessIsProved

\* Nobody else's input happens while the plan is unsettled, even when a write
\* that failed has left its files apart (_admit_input).
NoCompetingInput == [][\A o \in Other : inputs'[o] # inputs[o] =>
  trial.status \in Terminal \cup {"none"} /\ job = 0 /\ ~trial.pending]_vars

\* Input of the ticket that cannot be proved, or that may never come.
Unproven == runner.ticket # 0 /\ (response[runner.ticket] = "unknown" \/ runner.ticket \notin commands)

\* When no write fails, an accepted cancel settles the plan, or asks for a
\* continue with a wait of its own (tick, _remember_active).
CancelSettlesOrAsks ==
  runner.cancel # NoCommand ~>
    \/ trial.status \in Terminal \/ Unproven \/ Closing \/ faults > 0
    \/ runner.state = "waiting" /\ runner.wait.reason = "verification_required"

\* Again and again everything that was queued has been handled, unless the
\* host is gone (the loop of main).
QueueDrains == []<>(commands \subseteq done \/ ~HostUp)

=============================================================================
