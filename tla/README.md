# Agent GUI Runtime: verification project

TLA+ modules, TLC configurations and TLAPS proofs kept beside the execution
runtime of Agent GUI Runtime. Paths are relative to the repository. A reader who
wants to check a definition against the code finds its lines under `map` in
`PROJECT.json`.

Contents: 1 the system, 2 its hard behaviours, 3 the modules and how they
correspond to the code, 4 the runs, their bounds and their fairness, 5 the
proofs, 6 findings, 7 limits, 8 plan.

## 1. Inventory of the system

The Runtime executes GUI input on a Windows desktop for an agent. A client
talks MCP to a server process; the server starts an input host; the host runs
one command at a time and leaves a durable receipt for each. No layer may ever
replay input whose outcome is unknown.

| component | code | state | operations | what makes it correct |
|---|---|---|---|---|
| update transaction | `app/runtime_update.py`, `scripts/update_runtime.py` | installed files, registered version, journal, backup, pending marker, high-water record, stage | check, stage, apply, recover, rollback | whoever starts runs on one whole release; nothing is lost that recovery needs |
| installation lock | `app/runtime_lifecycle.py` | a kernel range lock, shared or exclusive | lease, maintenance | no runtime while files change, no change while a runtime runs |
| task ledger | `app/runtime_task_ledger.py` | one registration per session | register, clear, assert_settled, recovered | maintenance only after every input is settled |
| agent command manager | `app/vision/agent_command_jobs.py` | one active job, its snapshot on disk, a condition variable | start, worker, resume, cancel, close | input at most once per step; the snapshot never denies input that was sent |
| grounding handoff store | `app/vision/grounding_handoff.py` | one durable record per request | prepare, resolve, claim, finish, cancel, read with lazy expiry | a claim is final; a record tells whether input was attempted |
| review waits | `app/vision/pre_action_review_wait.py`, `app/vision/field_review_wait.py` | the parked attempt, the review, a deadline or none | park, review, continue | a parked attempt is settled whatever happens; a cancel reaches it |
| composed input | `app/execution/form_fill.py`, `app/execution/input_sequence.py` | the result of each step | run steps, publish progress, interrupt | goes on only after confirmed input |
| HTTP MCP owner | `app/instant_mcp_http.py` | owner, two transition flags, a POST count | initialize, POST, GET, DELETE | one owner; released only over a Runtime at rest |
| instant session | `app/instant_mcp.py`, `app/core/instant_attachment_transport.py` | the attached session, its process, closing marker | start, submit, stop, status, recovery | one host at a time; no new session over unresolved input |
| command queue | `app/core/instant_command_queue.py` | command and response files, a lock file | enqueue | one pending command; one id, one content |
| session host | `scripts/run_local_step_session.py`, `app/desktop_review/session_cleanup.py` | the loop, the report | take, answer, close, clean up | every accepted command is answered before a verified cleanup |
| serial runtime owner | `app/execution/single_step_runtime_owner.py` | a thread and its queue | call, close | every call gets its result, in order; close joins |
| grounding prefetch | `app/vision/task_grounding_prefetch.py` | one entry per planned step | begin, settle, discard, consume, close | an answer is used for its own step, earned by the one before, or not at all |
| task plan runtime | `app/execution/task_plan_*.py`, `app/learning_memory/workflow_runner.py`, `workflow_runtime.py` | three files: trial, runner, active pointer; the queue | start, tick, review, continue, cancel | a plan advances only on proved success; no step's input twice |
| session epochs | `app/execution/session_epoch_admission.py`, `app/core/session_epoch_read_contract.py` | a durable admission record | preview, recover | one host per admission; only a settled session is replaced |
| intent claims | `app/agent/runtime_intent_claim_store.py`, `app/agent/live_controller.py` | marker files of a claim, a receipt; sessions and window leases in memory | submit, resume, review, consume, cancel, recover | one input per claim; no receipt that does not say what happened |
| clipboard transaction | `app/core/clipboard_transaction.py`, `app/core/input_controller.py` | a snapshot, the version taken for its own, a bitmap clone, a window | replace, verify, restore | nobody's newer copy is overwritten; what is lost or wrong is told |
| model residency | `app/vision/model_service.py`, `app/execution/session_resources.py`, the models of `app/desktop_review/single_step_coordinator.py` | a service per model, its Job and PID file, the durable journal, the resident set | prepare, adopt, ask, cancel, release, close, observe after a crash | nothing started here is left behind; nobody else's server is stopped |
| update schedule | `app/runtime_update_schedule.py` | settings, last check | check and cache | one check at a time, at most daily |
| shared model server | `app/core/model_server.py`, `app/core/gpu_resources.py` | reference-counted leases | start, release | used by the paused learning programme |
| native input, vision, judgment, gate | `app/core`, `app/vision`, `app/judgment`, `app/gate` | none that outlives a call | Win32, OCR, prompts, remote decisions | inputs of the models |
| legacy learning, API server, packaging, benchmarks | `app/learn`, `app/learning_memory`, `app/api`, `packaging` | - | - | paused, or outside the Runtime |

How they interact. An HTTP request is admitted by the HTTP owner and becomes a
call on the one `InstantSession`, which writes a command file. The host reads
it; a `step`, `form_fill` or `input_sequence` becomes a job of the command
manager, whose worker thread talks to the grounding store, waits on one
condition variable for the client's answers and reviews, and calls the native
coordinator. Control commands (`agent_command_status`, `_continue`, `_cancel`,
`grounding_resolve`, `grounding_cancel`) reach the same objects from the host's
main thread while the worker runs. Launchers and hosts hold the installation
lock shared; the updater takes it exclusively after the ledger says that every
session is settled.

A task plan is driven from the host's own loop: between two commands of the
client the runtime ticks the active plan, which enqueues the next step into the
same directory the client writes to, under `command-queue.lock`. While a step is
judged, the prefetch may already ask the grounding provider for the next one.
All native calls of a host go through the serial owner's one thread; the
coordinator behind it keeps model servers between steps and journals each of
their phases before it happens. When a host or its MCP process is lost, the
session epoch records decide who may launch its successor.

## 2. The hard behaviours

- *Death in the middle.* Each durable write of an update is a separate step, and
  so is each write around an input. The next process must draw the right
  conclusion from what is on disk.
- *Two threads and a store.* The worker, the control commands and the clock
  interleave. The manager's condition and the store's lock are different locks,
  and a resumed attempt runs a second invocation of the same native step.
- *Waits.* Some have a deadline that is only noticed when someone reads, one has
  none at all.
- *Check, then act across awaits.* A DELETE reads the Runtime's status in a
  thread and releases the owner several awaits later.
- *Failure in a cleanup path.* A discard that raises inside `finally`, a cancel
  that raises after it set its flag, a native call that fails after the clipboard
  was emptied, a Job that cannot be closed.
- *Files written one after the other.* The trial, the runner and the active
  pointer of a plan; the records of a recovered epoch; the markers of a claim. A
  failed write or a death leaves them apart, and the next reader must not take
  that for permission.
- *Shared with strangers.* The clipboard and the model ports belong to everyone;
  other programs copy, hold, start and stop at any moment.

`PROJECT.json` lists each hazard with its line, its kind and the properties that
would notice, or the reason why none does.

## 3. Modules

### 3.1 Updates

| module | contents |
|---|---|
| `AtomicInstall` | what an update promises: the installation *is* one release, and changes only by install, update or undo |
| `RuntimeUpdate` | the code: files, registry, journal, backup, marker, locks, ledger, updaters, runtimes, faults |
| `RuntimeUpdateRefinement` | the mapping from the second to the first |
| `MCRuntimeUpdate` | constants for TLC |
| `RuntimeUpdateProofs` | proofs: the invariants, the refinement, the action properties |

A release is a function from operation positions to contents; the last two
positions are `Uninstall.exe` and the ownership record, as in the code's sorted
list of operations. An updater has a program counter, and each durable write is
one action: `ApplyPrepare` (journal `preparing`), `PublishPending`,
`BackupFile` per path, `SaveBackedUp`, `SaveApplying`, `ReplaceFile` per path,
`SetVersion`, `SaveVerifying`, `Verify`, `SaveCommitted`, `ClearPending`, then
`RollbackStart`, `RestoreFile`, `RestoreRegistry`, `SaveRolledBack` or
`SaveRollbackFailed`. `mem` is the phase in the journal object an updater holds,
which an I/O error can leave different from the durable one. `Crash` drops the
process and its kernel locks and leaves the disk. `UserEdit` writes foreign
content at any moment. `recover` and `rollback` enter the same transaction
through `LoadJournal` with the code's own validation (`ValidTransaction`,
`Recoverable`, `Revertible`). Runtimes take the lock, are refused when the marker
is there, register, stop, or die unsettled.

### 3.2 Agent commands

`AgentCommandJobs` composes the command manager, the grounding store, both
review waits and the composed inputs, since they share one condition variable
and no part is correct without the others. `MCAgentCommandJobs` instantiates it,
`AgentCommandJobsProofs` holds its proofs.

| variable | code |
|---|---|
| `job` | the active `_Job`, the worker's position (`pc`), and the local facts of the current step |
| `disk` | the snapshot file of each command |
| `store` | the record of each grounding request, by command, step and invocation |
| `active`, `closed`, `up`, `epoch` | the active slot, the closing flag, the host process and which host it is |
| `stale` | which reads have passed their deadline |
| `hits` | how often native input really happened in a step: what the durable facts are compared with; no action reads it |

The worker's actions follow the code: `DirectDispatch` or `VisualStep`,
`CaptureRefused` or `Prepare`, then `AwaitGrounding` (client) or `ApiBegin`,
`ApiAnswered`, `ApiClaim` (HTTP grounder, whose wait holds no lock), `GroundedDispatch`,
`NativeClaim`, `NativeInput`, `NativeReturn` or `NativeRaise`, the review (`Park`,
`ReviewEnded`, `ReviewApproved`, `ResumeDispatch`, `ReviewRejected`, and the three
writes `ZeroReopen`, `ZeroRecord`, `ZeroFinish`), `Finish`, `NextStep`,
`EndCommand`, `RunResult`, `RunExit`. The main thread contributes `Start`,
`Resume`, `Resolve`, `CancelRequest`, `GetRequest`, `ReviewPreAction`,
`ContinuePreAction`, `ReviewField`, `ContinueField`, `Cancel`, `Close`. A store
read expires an overdue record (`Read`, `RequestExpires`). `Crash` and `Restart`
put a new host over the same files.

The run has two hosts over the same files: the first asks the agent client for
groundings, the second an HTTP provider, and either may run the command.

### 3.3 HTTP owner, session and host

`InstantHttpOwner` models many request handlers over the admission lock, and
behind them the one session, its queue and its host. A step is what a handler
does between two awaits. `MCInstantHttpOwner` instantiates it and `OwnerProofs`
holds the theorems.

| variable | code |
|---|---|
| `owner`, `initializing`, `deleting`, `activePosts` | the fields of `InstantHttpMcpApp` |
| `req` | the locals of each handler: position, session id, settled (committed or discarded) |
| `sdk`, `issued` | the sessions the MCP SDK holds open, and the ids it has granted |
| `rt` | `_host_start_attempted`, whether this process launched the host, the host's state, unanswered commands, the closing marker |

Refused requests change nothing and are not steps. The SDK is external: it may
grant, refuse, raise, end a session, or fail after ending it. A session left by
an earlier server process is attached with its host already out of its loop and
perhaps with unanswered commands; `submit` and `stop` may still write commands
for it that nobody will answer, because it reports ready until it publishes
again. Such a session never counts as clean.

### 3.4 The serial owner

`SerialService` is the promise: a queue, the set of answered calls, and a phase.
`SerialRuntimeOwner` is the code: `_guard` makes an admission (`FirstCall`,
`LaterCall`, `RefusedCall`) and the placing of the marker (`CloseAndJoin`) one
step each; the owner thread runs `Initialize`, `Take`, `Return`, `TakeStop`,
`Finalize`; `InlineCall` is the call of the owner by a function that already runs
on it. A thread that cannot be started (`FirstCallFails`) leaves the owner with a
queue that nobody will read, which the abstract specification names `broken`.
The mapping: the call in hand and the queue without its marker are `pending`.

### 3.5 The task plan and the shared queue

| variable | code |
|---|---|
| `commands`, `response` | the files of the queue, by command |
| `lock`, `stop` | the client's hold of `command-queue.lock`; `closing.json` and whether the close command behind it was written |
| `argument` | the wait a continue was given for |
| `trial`, `runner`, `active` | the three files of a run |
| `verdict`, `unsure` | the settlements the trial recorded, and which judgments were uncertain |
| `host` | the host's thread and what its tick has in hand |
| `enabled`, `done` | `_enabled_run`; the loop's set of handled commands |
| `job` | the step whose agent command is still running |
| `inputs` | history: inputs that happened, by command |

A tick runs from `TickDrives` (or one of `TickStops`, `Unsubmitted`,
`TickWithdraws`) through `DriveTicket` or `DrivePrepares`, the two looks at the
queue (`SubmitLooks` before the lock, `SubmitEnqueues` under it), or through
`ReconcileSettled`, `ReconcileWaits`, `VerifyBegins`, `VerifyJudges`,
`RecordWrites`, to `SettleReviewed` and `EndDrive`. Controls are `StartPlan`,
`CancelPlan`, `ContinuePlan`, `ReviewPlan` with their rejections. The client is
`AcquireLock`, `ClientEnqueues`, `StopMarker`, `StopCommand`, `StopLost`. Each
durable write of the plan has an alternative in which it fails and the rest of
the function is left out as the code's exception does.

### 3.6 The grounding prefetch

`GroundingPrefetch` gives each thread its position: the requests (`thread`), the
command that consumes (`worker`), the manager's close (`closer`); verification
and controls are single steps of the host's main thread, which holds the
prefetch's lock throughout. `Begin` asks for step k + 1 while k is judged;
`SettleReleases` and `SettleDiscards` decide when the judgment is in; `Check`,
`Branch`, `Current`, `WaitEnds`, `Take`, `Claim` are the consumer's holds of the
lock with whatever happened between them. Answers come from outside
(`ProviderAnswers`), late or never; `Overdue` is the deadline.

### 3.7 Session epochs

`SessionEpoch` has one MCP process at a time (`Connect`, `Die`), its call in
progress, the pointer `latest-session.json`, the admission record of each
request, the hosts with their reports, and `settled`, the sessions whose
resources and inputs are proved settled. Every durable write of
`_launch_session` and of `SessionEpochAdmission.recover` is one action (`Admit`,
`BeginLaunch`, `Spawn`, `Created`, `Publish`, `PublishAgain`, `AttachHost`,
`SettleAdmission`), and between any two the process may die or the call raise.
`StartUp` is the host's side: it boots, checks that the pointer names it, takes
the resources, and gives up when either fails.

### 3.8 Intent claims

`IntentClaim` models one claim and several controllers in processes of their
own. `store` is the set of markers with the decisions and the receipt; an
operation of the store runs under the claim's file lock and is one step. A
controller has two slots: calls under its lock, and the fresh submission that
runs outside. `boot` counts its incarnations, which is the store's owner id:
`Crash` raises it and drops session, publication and lease. `CrashInPersist` dies
after the receipt's file and before its marker. Operators `CanX`/`AfterX` are the
store's guards and effects; the actions of the controller call them in the
code's order, each of which may raise (`MaxFault`).

### 3.9 The clipboard

`Clipboard` follows one typed text. While a process has the clipboard open
nobody else can open it, so each locked block of the code is one step and the
world moves between two of them. `seq` is Windows' sequence number, raised by a
write and once more by the close that follows it; the code's trust in it is what
the properties test. `sequence` is the version the transaction believes its own,
`kept` the snapshot. Every block has its failing variants (`CaptureFails`,
`ReplaceRollsBack`, `CommitFails`, `RestoreFails`, `RestoreConflicts`), and what
the field took after Ctrl+V is `pasted`.

### 3.10 Model residency

`ModelResidence` has a record per `FormalModelService`, the world's processes
(`proc`: a launcher and its server, from suspended outside the Job to gone), the
servers of others (`ext`), the coordinator (`co`) and the journal. The long
sequence of a start is kept step by step (`Intend`, `IntendScope`, `CreateJob`,
`RecordJob`, `IntendLaunch`, `CreateSuspended`, `Assign`, `RecordAndResume`,
`Resume`, `WritePid`, `ReadyRecord`, `Confirm`), and so is a close (`ScanJob`,
`ListJob`, `TerminateJob`, `ObserveCleanup`, `CloseHandle`, `FinishRequest`,
`FinishClose`), because a failure or a death after each leaves something else
behind. A launch that fails runs the same observation on its own (`LaunchFails`,
`AbortJob`, `AbortObserved`), with the error that leaves `prepare` before the
close when its evidence cannot be recorded.

A process that was terminated is `dying` until the kernel has ended it, and no
longer in the list of its Job; a launcher its creator terminated before it ran is
`dropped`. Listing a Job and terminating it are two steps, so a server started in
between is in no list: `Leftover` names such processes, `Present` the others.
`pidFile` says whose id the PID file holds, since the health of the port can
replace the launcher's by that of whoever answers (`Reported`). `Cancellable` are
the configurations whose server supports the cancellation of a request.
`Verified` is what `observe_session_resource_cleanup` concludes from journal and
system after the runner died.

## 4. Runs

| run | instance | distinct states | what it shows |
|---|---|---|---|
| `update_safety` | 2 updaters, 1 runtime, 4 targets (two of the same version), 5 paths, 3 faults | 295,392 | one whole release for whoever runs, edits and records kept, refinement, recovery ends |
| `update_recovery_entry` | the same | violated | section 6 |
| `commands_host` | 1 command, 3 steps, 2 hosts, one with an HTTP grounder | 132,922 | one input per step, truthful records, cancels heard, waits end |
| `http_owner` | 3 handlers, 3 SDK sessions, 2 commands | 193,666 | ownership, orphans, release, transitions end |
| `serial_owner` | 4 calls, 2 closing threads | 16,526 | the owner implements the serial service; closers return |
| `task_plan` | 2 steps, a cancel, a continue, a review, a foreign input, a close, 1 failing write | 792,117 | order and proof of steps, no competing input, the queue |
| `prefetch` | 3 steps | 896,766 | requests that count, answers that are earned, waits end |
| `epoch` | 2 recovery requests, 3 sessions, 3 MCP processes in turn | 1,324,001 | one host per epoch, succession, orphans stop |
| `claim` | 2 controllers that may each die twice, 2 faults | 29,819 | one true input, window leases, claims settle |
| `clipboard` | 2 foreign copies, 4 failing calls | 16,126 | outcome told, newer copies kept |
| `model_resident` | 2 configurations on one port, a second port that only others use, 2 services, 1 foreign server, 1 fault | 4,855,742 | nothing leaks, ports kept |
| `model_crash` | 2 configurations on one port, one of which can cancel a request, 1 service, 2 foreign servers that may stop, 1 fault, a dying runner | 721,988 | no false verdict, releases settle |

### 4.1 What the properties say

Updates. `LeaseSeesOneRelease`: a process admitted by the lease sees one
release. `UserEditsSurvive`: no step of an updater overwrites foreign content.
`NothingGoesBack`: applied and recorded versions never sink, a commit stays.
`ImplementsAtomicInstall`: through the mapping, an installation changes in one
step. `RecoveryCompletes`: a pending transaction with complete backups does not
stay pending.

Commands. `OneInputPerStep` compares `hits` with one across both invocations of
a native step, a crash and a second host. `RecordsTellTheTruth` forbids a durable
"no input" over an input that happened. `CancelIsHeard`, `CancelBarsDispatch`,
`CommandsSettle` and `SettledIsFinal` speak of the races of cancel, claim, review
and end; `WaitsEnd` of every wait that has a deadline.

HTTP. `CallsBelongToOwner`, `OrphanSessionsAreFenced`, `CleanHostAnsweredAll`,
`ReleaseLeavesNothingRunning`, `TransitionsEnd`.

Serial owner. `ImplementsSerialService`: accepted calls are answered once, in
order, before the release. `ClosersReturn`.

Plan. `OneInputPerStep` rests on the step's fixed command id and the loop's set
of handled commands. `StepsAreProved`: a step runs only behind proved success of
all steps before it, and a recorded success has a completed input. `NoCompetingInput`:
no other command's input begins while a step is open. `QueueIsGuarded`: two
ordinary commands never wait together, and behind a cancel no step is queued. `CancelSettlesOrAsks`: a
cancelled plan ends or asks a person, as long as no write failed. `QueueDrains`:
what waits is handled, or the host has ended.

Prefetch. `OneRequestCounts`: one request is with the provider, and an abandoned
one can never be used. `AnswersAreEarned`: a prefetched answer carries input only
after a success the decision service gave by itself and that was recorded first;
a failure already met is not hidden behind a second request. `WaitsEnd`.

Epochs. `OneHostPerEpoch` (launched once, serving alone, found again after a
crash), `SuccessionIsProved` (only a dead and settled session is replaced,
and no command reaches its successor before the admission is settled), `OrphanStopsServing`.

Claims. `OneTrueInput`: at most one input whoever resumes, consumes or recovers;
no input after a refusal; no receipt that contradicts what happened.
`WindowIsKept`: whoever drives the desktop holds the window's lease.
`ClaimSettles`: verification ends and leases come back, unless the code
deliberately keeps them.

Clipboard. `OthersKeepTheirs`: a copy made after the snapshot is never
overwritten, and a bitmap the clipboard owns is not freed. `OutcomeIsTold`: lost
content, locks and windows left behind, and a wrong paste are not reported as
clean successes.

Models. `NothingLeaks`: a service that is closed, or that nobody keeps, leaves
no process, Job, handle or open request. `PortsAreKept`: two services never have
processes on one port, a resident between steps is whole, and the session's own
server is never adopted as a foreign one. Both speak of every process that can
still run and of every one that a list names, until the kernel has ended it; they
do not speak of a server that was started while its Job was being terminated
(section 6), except that a service that was once ready leaves none of those either.
`NothingIsVouchedFalsely`: a verdict "verified" after a crash is true of the
processes, and an answer comes from the instance that was asked.
`ReleaseSettles`: a release or shutdown ends, unless the runner died, an adopted
server with an open request was restarted or cannot cancel at all, or the PID
file names a stranger's server.

### 4.2 Why the bounds are enough

Five paths are a file that every release changes, one that later releases add,
one they drop, and the two records, so a crash can fall before, between and
after each kind of write; three faults allow an error, a crash during its
rollback and another during recovery; two updaters contend and take over. A
command manager has one active command; three steps give a first, a middle and a
last one, two hosts a crash and what follows. Three handlers are a DELETE, a POST
and a rival; three SDK sessions a failed handshake, an owner and the next owner.
Four calls are one in hand, one before and one behind the marker and one inline;
two closers race for the marker. Two plan steps have one boundary, which every
later boundary repeats; one failing write anywhere separates two of the three
files. Three prefetch steps let the request of the second be open when the third
is asked for. Three sessions are a lost host, its successor and the successor's
successor; three MCP processes a death during recovery and a death during the
retry. Two deaths of each controller leave and re-find a claim twice. Four
failing calls cover a failure in the write, its rollback, the cleanup and the
verification. Two configurations contend for a port; a foreign server may be
there before, and another after the first has stopped; on the second port it is
the competing resource that refuses a start. Where nothing tells the two
configurations apart (`model_resident`, whose properties are invariants) they are
symmetric.

### 4.3 Fairness

- `update_safety`: the updater's own steps, and a recovery being tried again.
  `RecoveryCompletes` claims something only of behaviours in which every runtime
  stays out from some point on, as the command line asks of the operator.
- `commands_host`: the worker, the closing thread, the clocks. Nobody is
  assumed to answer, review, cancel or continue.
- `http_owner`: each handler that holds a transition.
- `serial_owner`: the owner thread, and the return of a join.
- `task_plan`: the host's thread, the end of a running agent command (section 4.1,
  `WaitsEnd` of the commands, gives each wait its end), a client that holds the
  lock, and a stop that was begun. No review or continue is assumed.
- `prefetch`: the consumer, the closer, each request's own thread and its
  deadline. The provider is never assumed to answer.
- `epoch`: a host's start-up and its watch on the parent.
- `claim`: each call in progress and a controller's locked section; strong
  fairness for verification and recheck, which other processes can disable for a
  while and which the controller tries again.
- `model_crash`: the sequence of the one runner, retries of a close, and the
  kernel's end of dying processes.

Deadlock is checked in the update and command runs. It is not in the others,
because those systems really stop: a service that refuses everyone after a
handshake it could not close, an owner after its last closer, a plan whose
controls are used up, a host after its close, a claim that is settled, a
transaction that is over.

## 5. Proofs

Checked by `tlapm` from nothing, for every value of the constants under the
assumptions named in the modules.

`RuntimeUpdateProofs`. The inductive invariant `IInv` has four parts beside the
types. `GateInv` says who may be where while the lock is held. `JournalInv` says
what the durable journal implies about files and backup. `UpdaterInv` says what
the updater knows at each program point: the files are *split* at its position,
new before it and old after it. `UnsealedIsWhole` closes the loop between
transactions. Each is needed: without the position, a `Crash` in the replacement
loop leaves files about which the journal alone says nothing; without the
journal's part, `recover` could not start. From it follow `TypeCorrect`,
`UnsealedInstallationIsWhole`, `LeasesSeeOneRelease`, `BackupsPrecedeReplacement`,
`RecordIsNeverAhead`, `MaintenanceSettled`. Assumptions: at least two paths;
releases differ in their two records; no release file is foreign.

The second half of that module builds on `IInv`. The refinement (`UpdateIsAtomic`)
needs one more fact: the ownership record is never foreign (`RecordInv`), since
users edit payload files. So the record names the one release that an unsealed
installation shows (`OneShown`), and at `PublishPending` that release is one side
of the journal, which is what a sealing step of `AtomicInstall` asks for;
`ClearPending` comes only at an end of the split, which is the other mapping
step. Everything else leaves the files alone or has the marker to hide behind.
`UserEditsSurviveHolds` is the same case analysis on the three actions that write
files. `NothingComesBack` adds that what is staged is no newer than what was seen
(`StageInv`), so `apply` can only meet the high-water check with equality, and that
who undoes a committed transaction was started as `rollback` (`CommitInv`).

`OwnerProofs`, on `InstantHttpOwner`. `IInv` combines the types with the exact count of
POSTs, mutual exclusion of handshake, DELETE and calls (`Exclusive`), what a
handshake knows (`HandshakeInv`), what a DELETE relies on (`DeleteProtected`),
where an orphan SDK session is (`OrphanHasHandshake`) and the queue
(`QueueInv`). The count carries the argument: a DELETE tests a number, and only
the equation with the set of handlers in flight turns zero into "no call is
running", which makes the status it read still true when it releases the owner.
From it follow `TypeCorrect`, `CountIsRight`, `CallsAreTheOwners`,
`OrphansAreFenced`, `ReleaseIsClean`, `CleanHostLeavesNothing`. Assumptions:
finitely many handlers, and `NoSession` and `Close` are not ordinary ids.

`OwnerProofs`, on `SerialRuntimeOwner`, whose `Init`, `Next`, `Spec`, `TypeOK` and
`vars` carry the prefix `Serial` so that one module can extend both. A caller told to wait is in hand or in the queue,
once, and before the only marker (`NobodyBehindStop` with `MarkerInv`, `InHandInv`,
`ThreadInv`, `CloserInv`). The marker can only be placed once because `closed` is
set in the same hold of `_guard`; so when the thread takes it, nothing is behind
it, and a closer that has joined finds every accepted call answered
(`CloseMeansDoneHolds`). `OwnerIsSerial` proves the safety half of the refinement of
`SerialService`, `Service!Init` and every step a `Service!Next` or a stutter, with
two facts more: a call that was never accepted has left no trace (`FreshInv`), and
a queue splits into the calls before its marker and nothing after (`QueueSplit`),
so the abstract queue loses exactly its head. Assumption: finitely many calls,
none of them `Stop` or `NoCall`.

`TaskPlanProofs`. The argument has two halves. *Once*: the loop adds a command
to its done set when it takes it and the queue never forgets an id, so the input
of a command belongs to the one moment at which it was in hand (`HandInv`,
`StartInv`, `InputInv`), which gives `OneInputPerStepHolds`. *In order*: the
runner's ticket is the step the trial waits for until it is settled
(`TicketInv`), and the trial moves on only with a recorded verdict that was
judged or reviewed over a completed input (`OrderInv`), which gives
`StepsAreProvedHolds`. Both survive a failing write, because each half is about
one file and the other is written after it. `NoCompetingInputHolds` follows from
`OrderInv` and the guards of an ordinary command. The queue has an argument of its
own: no cancel is in the host's hand while it drives a plan and no ticket is on its
way under an accepted cancel (`RoadInv`), so the exemption that `enqueue_command`
grants to the control in hand never hides a cancel; every other step only takes
from the queue (`Drains`). This gives `QueueIsGuardedHolds`. Assumption: identifiers
of different kinds differ.

`OwnerProofs`, on `Clipboard` (prefix `Clipboard`, for the same reason). A
sequence number the transaction trusts is never ahead of
what it wrote (`VersionInv`), and while it holds the clipboard nobody else does
(`LockInv`); with what the field took (`PasteInv`) and what each status has
already said (`ReportInv`) this gives `NewerCopyIsKept`, `OthersKeepTheirsHolds`
(with `BitmapInv` for the bitmap that changes hands) and `OutcomeIsToldHolds`.
Assumption: foreign copies differ from the transaction's own markers.

`SessionEpochProofs`. Sessions are numbered in the order they are taken and the
pointer only moves up (`HostInv`, `PointerInv`). A host is armed only while the
pointer names it (`ArmedInv`), so two hosts of one process could serve only if the
pointer had left a living one. A recovery leaves one that was proved dead when it
was admitted and stays so (`CallInv`); an ordinary start leaves the one its
process is attached to, and a living host of that process that anything names is
the host of that session (`AttachedInv`). `AdmissionInv` says which hosts a phase on disk implies, whichever
write was the last before a crash, and gives the single launch. From the six parts follow
`OneHostPerEpochHolds` and, action by action, `SuccessionHolds`. Assumptions:
`NoRequest` is no request, and the bounds are positive.

`IntentClaimProofs`. A call may attempt the action only while it stands on a
marker that is published once and that no other call can stand on: the claim
itself for the first run, the resume, the consume (`RoadOf`), and `MarksInv` keeps
the three apart; so there is one such call (`OneActive`). How far that call is
agrees with the dispatch and pending markers, the count of inputs and the receipt
(`StageOf`, `InputInv`), so a call that starts after them, or after a death between
them, can verify but not send again. `SessionInv` says that the owner of the session
takes one of the two roads. Every action moves one call and takes nothing from
the others (`Quiet`, `Frame`); a death removes the calls of one process. From this
follows `OneTrueInputHolds`. Assumptions: the session's creator is a controller, and
the bounds are natural numbers.

The second half of that module is about the window's lease and gives
`WindowIsKeptHolds`. A terminal marker is behind its receipt; a session that is
not spent and a review that is published hold the window; an open review has its
living owner. `CallOf` says what each call rests on, in particular the two that
end by releasing: whoever gives the lease up is the call that holds it, or a call
that can meet no other that could. A death is harmless because the owner id of the
process's next incarnation is carried by no review.

`AgentCommandJobsProofs`. The worker reads records, drops the condition, and acts
on what it read, so the invariant `IInv` ties each position of the worker to the
durable facts. `RequestInv` gives the phase of the current request at each
position, `SnapshotInv` status and attempt on disk, `InputInv` relates native inputs
to the claim and the receipt, `AttemptInv` says what is remembered before an
attempt, and `ElsewhereInv` fixes every record that is not the current one: all
other writers (client, reviewer, clocks, recovery of the next host) act on the
current request or on one whose worker is gone. A few frame lemmas
(`LocalStep`, `ThreadStep`, `SnapshotStep`, `RequestStep`, `IdleStep`) cover most
actions, and a crash is one of them with the worker removed. From `IInv` follow `InputOnce`
(`OneInputPerStep`), `RecordsAreTrue` (`RecordsTellTheTruth`), `CancelReaches`
(`CancelIsHeard`), `NothingStaysOpen` (`CommandsSettle`), and from it and the actions
`SettledStays` (`SettledIsFinal`) and `CancelBars` (`CancelBarsDispatch`).
Assumptions: at least one step and one host, finite bounds, identifiers that
differ.

`GroundingPrefetchProofs`. The phase of a request says where its thread can be,
what its record can hold and whether its attempt is on disk (`KeyInv`); only the
latest request is wanted or running (`ActiveInv`), because `begin` looks at the
thread of the one before and every discard means the active one. `WorkerInv` says
what the command's thread carries from one hold of the lock to the next: the
request it found is the active one for as long as the command lives, it was
released before it is waited for, and only a request that `consume` has used up is
claimed. A step is settled once and its decision alone releases a request
(`PlanInv`), and after the close none is wanted (`ClosedInv`). Three frame lemmas
(`PlanMoves`, `WorkMoves`, `TurnKeeps`) cover most actions. From this follow
`OneRequestCountsHolds` and `AnswersAreEarnedHolds`, whose second half is an action
property: a command's own request, when there is one, is the one it found.
Assumption: a plan of at least two steps.

`ModelResidenceProofs`. One thread does all the work, so the invariant says for
every service what its position in that work (`At`) means: the service in hand,
the one being closed, or away. `HeldInv` is the fact everything leans on: a
service the coordinator does not hold is closed, and two it holds have different
ports. `ProcInv` carries the processes through a close: whatever is in the Job when
it is listed, or was terminated by an earlier attempt and is named, stays in the
service's members or in `closing.seen` until it is gone, and the Job is given back
only after that. `ListInv` says what the listing can have missed: at the
termination a server outside `closing.seen` is one the launcher has started since,
which no list names, so that it is a `Leftover` from then on and nothing else can
be. With these, no held service means nothing present (`NothingLeaksHolds`), and two
present ones would both be held (`PortsAreKeptHolds`). `JournalInv` says that the
journal may trail the facts and never leads them, at each step a crash can fall on:
`launch_starting` is on disk before a process exists outside the Job, and `ready`
only once every living process is named, after which the launcher starts no other
server and nothing can be left over; so whatever a later process verifies is over
(`NothingIsVouchedFalselyHolds`). For the answers, an instance that has left its
port never listens on it again (`Past`, kept by every action of the world), so a
request that reached another instance cannot end as an answer of the one that was
prepared (`RequestInv`). `StageInv` and `CoInv` are what the single steps of a
start and of a close need of one another. Assumptions: each configuration names a
port, `NoConfig` is none of them, `Cancellable` is a set of them, the bounds are
natural numbers.

Only model-checked: all liveness (`RecoveryCompletes`, `WaitsEnd` of the commands
and of the prefetch, `TransitionsEnd`, `ClosersReturn` and the liveness half of
`ImplementsSerialService`, `CancelSettlesOrAsks`, `QueueDrains`,
`OrphanStopsServing`, `ClaimSettles`, `ReleaseSettles`): fairness is out of the
prover's reach. Every invariant and action property of a passing run has a
theorem.

## 6. Findings

`update_recovery_entry`: a rollback that starts while the journal is still
`preparing` saves `rolled_back` or `rollback_failed` before the pending marker
is removed. If it stops there, every later `recover` authenticates the old
release in a backup that was never completed, fails, and the marker keeps every
runtime from starting, although no installed file was changed. The documentation
promises a recovery command for an interrupted or failed rollback.

Observed disagreements. The models contain these behaviours and no property of a
run forbids them; each was seen in a counterexample to a stronger statement.

- A plan's cancel withdraws a step that was queued and not yet taken by writing its
  response; the host's loop leaves out only what it has done itself, so it takes
  the withdrawn command whenever it still runs (`workflow_runtime.py:65`,
  `run_local_step_session.py:443`, `:457`).
- A tick that finds the queue's lock busy stops polling the plan, also when the
  plan was cancelled; it then waits for a control (`task_plan_admission.py:256`).
- `consume` of the prefetch asks twice whether its request is current, without
  the lock in between. A discard between the two lets the command send a request
  of its own while the discarded one is still with the provider, which the
  comment at `task_grounding_prefetch.py:248` says must not happen.
- A second host can be launched beside one that is still starting, because peers
  are known by reports that a starting host has not written yet
  (`instant_mcp.py:308`). The first gives up when the pointer does not name it.
- `restore_if_owned` reports a conflict nobody caused after a close that failed:
  the sequence number read inside the lock is compared with one that the later
  close has raised (`clipboard_transaction.py:346`, `:393`). The temporary text
  stays. The test at `tests/test_clipboard_transaction.py:620` uses a fake whose
  close does not count.
- A server that the launcher starts between the listing of the Job and its
  termination is ended with the Job and never tracked (`windows_process_scope.py:491`,
  `:497`; the loop at `:511` adds nobody). The comment at `:492` and
  `tests/test_model_cleanup_evidence.py` say that a terminated process can be out of
  the Job's list while it is still ending, and must be watched to its end; this one
  is not, and the close reports `cleanup_verified`. It is terminated, but can be
  ending while the next service starts. `NothingLeaks` and `PortsAreKept` are stated
  without it.
- The PID file follows the health of the port, so a stranger's server that answers
  for the launcher is entered in it (`model_server.py:4942`). The cleanup does not
  remove the file of a process that lives and is not its own, and the release does
  not end as long as that server runs.
- A profile without `request_cancel_supported` answers `unsupported` at every
  attempt (`model_service.py:385`, `:457`): an adopted server with an open request
  is then never released by this session.
- A runner that dies with a model of its own leaves the launcher's PID file, and
  the observation of a later process then never verifies, although every process
  is gone (`session_resource_recovery.py:44`, `:111`).
- An adopted model server that stops or restarts while a request of the session
  is open leaves a service that can be neither proved settled nor released
  (`model_service.py:457`); later shutdowns end in
  `model_service_compute_pending`.
- After a handshake whose SDK session cannot be closed twice, the HTTP service
  refuses everyone until it is restarted; a DELETE that fails after the SDK ended
  the session leaves an owner that nobody can use or release.

## 7. Limits of the models

- *Updates.* Comparing and replacing one file is one step, and so are the
  installer's run, `check` and `stage`. A disk write is atomic (the code writes a
  temporary file and renames it). Digests, signatures and archives are
  abstracted to whether they validate.
- *Commands.* A write to the store or the snapshot does not fail by itself;
  prefetched groundings are in `GroundingPrefetch`; locks are implicit in atomic
  steps. Two commands in turn in one host are not in a run.
- *HTTP.* A tool call takes effect in one step under the session's guard; the
  two writes of `stop` are one step there and two in `TaskPlan`; service shutdown
  is absent. The launch of a successor by `instant_recover_session`
  (`instant_mcp.py:364`) is in `SessionEpoch` only. An attached session whose host
  still finishes one command before it ends (`run_local_step_session.py:436`) is
  taken as one that has left its loop.
- *Plan.* One caller plan, under the legacy recovery policy. Successors, the
  intervention policy, observation ledgers and video verification are absent. The
  response and the command file of a withdrawn step (`workflow_runtime.py:68`) are
  one step that does not fail.
- *Prefetch.* Lock order is not checked; by reading, nestings go from the
  prefetch to the manager's Condition to the store, and close and cancel drop
  the Condition first. What makes a step eligible is whether it still holds.
- *Epochs.* A recovery stuck before its host is ready, or whose new host died,
  blocks every other recovery; the code means it so. The proof that a session
  is settled is one fact that becomes true.
- *Claims.* The fresh-learning variant of the records and the managed preparation
  of a session are left out. A claim whose process died before dispatch stays
  `claimed`, `resume_started` or `consume_started`; a grounded one with a lost
  receipt stays `dispatch_started`; the grounded road keeps its lease when it
  ends in recovery. `ClaimSettles` speaks of the others. When another process
  writes the receipt, a submission releases the window while the first call may
  still verify.
- *Clipboard.* One transaction per behaviour; a field is assumed to paste before
  the settle time is over; `paste_image` uses no transaction. When no restore was
  asked for, a wrong paste is not told.
- *Models.* Creating a suspended launcher and failing to terminate it are not
  combined; process ids are not reused; one exclusive resource group; one server
  behind a launcher, started once; the lists of a service's processes that the
  journal keeps are one set. An error of the listing before a termination counts as
  one of the termination.
- What Windows, the SDK, models and people do is nondeterministic.

Not modelled: the direct `grounding_execute` route (of its effects only the claim
would be new); the update schedule (it starts nothing but `check`); window
control, OCR, prompting, the gate and remote judgments, which keep no state and
are inputs of the models; the shared benchmark server with its leases, the
learning programme and its profiles, paused in this release; the legacy API and
review shell; packaging and benchmarks. They are most of the repository's lines
and little of its control.

## 8. Plan

1. The direct `grounding_execute` route, joined to `AgentCommandJobs`.
2. The queue of `TaskPlan` as an implementation of the queue `InstantHttpOwner`
   assumes.
3. Plan successors and the intervention policy; the fresh-learning variant of a
   claim.
4. The leases of the shared model server, should the learning programme return.
