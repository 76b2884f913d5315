---------------------------- MODULE ModelResidence ----------------------------
(***************************************************************************)
(* The model servers of a session: app/vision/model_service.py (one        *)
(* service per model, owned by a Windows Job or adopted from outside), the *)
(* coordinator that keeps, reuses and releases them                        *)
(* (app/desktop_review/single_step_coordinator.py), the journal it writes  *)
(* before every step (app/execution/session_resources.py), and what a      *)
(* later process may conclude from that journal                            *)
(* (app/execution/session_resource_recovery.py).                           *)
(*                                                                         *)
(* One thread runs all of it; the Windows processes, the servers others    *)
(* started, the cancel event and a crash of the runner come in between.    *)
(***************************************************************************)
EXTENDS Naturals, FiniteSets

CONSTANTS Config,       \* model configurations
          Port,         \* the ports they name
          PortOf,       \* the port of a configuration
          NoConfig,     \* a service not made yet
          Cancellable,  \* those whose server can cancel a request
          MaxService,   \* services made in one session
          MaxExternal,  \* servers others start, on any two ports together
          MaxFault,     \* failing writes, system calls and timeouts
          ExternalMayStop,  \* others also stop their servers
          CrashMayHappen    \* the runner's process may die

ASSUME ResidenceAssumption ==
  /\ PortOf \in [Config -> Port]
  /\ NoConfig \notin Config /\ Cancellable \subseteq Config
  /\ MaxService \in Nat /\ MaxExternal \in Nat /\ MaxFault \in Nat
  /\ ExternalMayStop \in BOOLEAN /\ CrashMayHappen \in BOOLEAN

VARIABLES svc,       \* FormalModelService objects, by number
          made,      \* how many of them exist
          journal,   \* session-resources.json
          proc,      \* the launcher and the server of an owned service
          pidFile,   \* whose process id is in the PID file
          req,       \* the last request of a service, as the world sees it
          ext,       \* servers started by others
          co,        \* the coordinator
          closing,   \* the close() in progress, and why models are released
          fault      \* faults so far

vars == <<svc, made, journal, proc, pidFile, req, ext, co, closing, fault>>

Service == 1..MaxService
Live == 1..made
Proc == {"launcher", "server"}

\* "out": created suspended and not yet in the Job; "held": in the Job and
\* suspended; "dying": terminated with the Job, out of its list, not yet ended
\* for the kernel; "dropped": terminated by its creator before it ever ran.
InJobState == {"held", "job", "serving"}
AliveState == InJobState \cup {"out"}
ProcState == AliveState \cup {"none", "dying", "dropped", "gone"}

Phase == {"none", "registered", "scope_starting", "scope_acquired",
          "launch_starting", "launch_registered", "ready", "closed"}
Instance == {"none", "own", "ext"} \X (0..MaxService + MaxExternal)
NoInstance == <<"none", 0>>
Launcher == <<"launcher", 0>>

NewService ==
  [config |-> NoConfig, owned |-> "none", scope |-> FALSE, handle |-> FALSE,
   prepared |-> FALSE, closed |-> FALSE, instance |-> NoInstance,
   pending |-> FALSE, members |-> {}, verified |-> FALSE]

NewRecord ==
  [phase |-> "none", from |-> "none", owned |-> "none", pending |-> FALSE,
   members |-> {}]

NoClose == [of |-> 0, why |-> "none", seen |-> {}]

Init ==
  /\ svc = [i \in Service |-> NewService]
  /\ made = 0
  /\ journal = [i \in Service |-> NewRecord]
  /\ proc = [i \in Service |-> [p \in Proc |-> "none"]]
  /\ pidFile = [i \in Service |-> NoInstance]
  /\ req = [i \in Service |-> [at |-> "none", by |-> NoInstance, last |-> NoInstance]]
  /\ ext = [p \in Port |-> [n |-> 0, up |-> FALSE]]
  /\ co = [pc |-> "idle", current |-> 0, keep |-> FALSE, release |-> FALSE,
           reuseFailed |-> FALSE, cancelled |-> FALSE, residents |-> {},
           cleanup |-> FALSE]
  /\ closing = NoClose
  /\ fault = 0

-----------------------------------------------------------------------------
(***************************************************************************)
(* What the thread can see of the world.                                   *)
(***************************************************************************)
PortOfService(i) == PortOf[svc[i].config]
InJob(i) == {p \in Proc : proc[i][p] \in InJobState}
Remain(i, tracked) == {p \in tracked : proc[i][p] \notin {"none", "gone"}}

Serving(p) == {i \in Live : PortOfService(i) = p /\ proc[i]["server"] = "serving"}

\* _listeners and the creation time of the process behind the port.
Listener(p) ==
  IF Serving(p) # {} THEN <<"own", CHOOSE i \in Serving(p) : TRUE>>
  ELSE IF ext[p].up THEN <<"ext", ext[p].n>> ELSE NoInstance

\* _listener_identity: the listener of an owned service is in its Job.
MayBe(i, instance) ==
  /\ instance # NoInstance
  /\ svc[i].scope => instance = <<"own", i>>

\* A request is alive as long as the server it was sent to.
Active(i) ==
  req[i].at \in {"sent", "computing"} /\ Listener(PortOfService(i)) = req[i].by

Same(i) == Listener(PortOfService(i)) = svc[i].instance /\ svc[i].instance # NoInstance

-----------------------------------------------------------------------------
(***************************************************************************)
(* Steps that fail.  Every write to the journal is durable before memory   *)
(* follows; one that fails leaves both as they were and raises.            *)
(***************************************************************************)
Works == UNCHANGED fault
Fault == fault < MaxFault /\ fault' = fault + 1

Goto(pc) == co' = [co EXCEPT !.pc = pc]
Write(i, record) == journal' = [journal EXCEPT ![i] = record]

StartClose(i, why) ==
  /\ closing' = [of |-> i, why |-> why, seen |-> {}]
  /\ co' = [co EXCEPT !.pc = "close", !.release = @ \/ why \in {"release", "stop"},
                      !.cleanup = @ \/ why \in {"residents", "off", "drain"}]

\* Any error inside prepare closes what was started.
PrepareFails == StartClose(co.current, "prepare")

-----------------------------------------------------------------------------
(***************************************************************************)
(* A step takes a model: a resident one of the same configuration is       *)
(* checked again, otherwise a new service is made and prepared.            *)
(***************************************************************************)
Configured(S) == {svc[i].config : i \in S}

\* Mutant: the API name of the model is taken for its identity.
PortConflict_Ignored(c) == FALSE

\* Another configuration is resident on the same port.
PortConflict(c) ==
  /\ co.keep /\ c \notin Configured(co.residents)
  /\ PortOf[c] \in {PortOf[d] : d \in Configured(co.residents)}

\* _begin_any, and the guard of _create_runtime_on_owner.
StepMayBegin ==
  /\ co.pc = "idle" /\ co.current = 0
  /\ ~co.release /\ ~co.cleanup

TakeResident(i) ==
  /\ StepMayBegin /\ co.keep /\ i \in co.residents
  /\ co' = [co EXCEPT !.pc = "reuse", !.current = i, !.residents = @ \ {i},
                      !.reuseFailed = FALSE, !.cancelled = FALSE]
  /\ UNCHANGED <<svc, made, journal, proc, pidFile, req, ext, closing, fault>>

\* FormalModelService.__init__ registers the service before anything starts.
NewModel(c) ==
  /\ StepMayBegin /\ ~PortConflict(c)
  /\ co.keep => c \notin Configured(co.residents)
  /\ made < MaxService
  /\ Works
  /\ made' = made + 1
  /\ svc' = [svc EXCEPT ![made'].config = c]
  /\ journal' = [journal EXCEPT ![made'].phase = "registered"]
  /\ co' = [co EXCEPT !.pc = "probe", !.current = made', !.reuseFailed = FALSE,
                      !.cancelled = FALSE]
  /\ UNCHANGED <<proc, pidFile, req, ext, closing>>

\* prepare: a server that answers is used as it is.
Adopt(i) ==
  /\ co.pc = "probe" /\ co.current = i
  /\ Listener(PortOfService(i)) # NoInstance /\ ~co.cancelled
  /\ svc' = [svc EXCEPT ![i].owned = "external"]
  /\ Goto("ready")
  /\ UNCHANGED <<made, journal, proc, pidFile, req, ext, closing, fault>>

\* A model of the same resource group on another port, unless models may coexist.
ResourceConflict(i) ==
  /\ ~co.keep
  /\ \E p \in Port \ {PortOfService(i)} : Listener(p) # NoInstance

IntentPhase == "launch_starting"

\* The intention of each step is in the journal before the step.
Intend(i, pc, from, to, next) ==
  /\ co.pc = pc /\ co.current = i
  /\ \/ /\ Works
        /\ journal[i].phase = from
        /\ Write(i, [journal[i] EXCEPT !.phase = to,
             !.owned = IF from = "scope_starting" THEN "owned" ELSE @])
        /\ Goto(next)
        /\ UNCHANGED closing
     \/ Fault /\ PrepareFails /\ UNCHANGED journal
  /\ UNCHANGED <<svc, made, proc, pidFile, req, ext>>

IntendScope(i) ==
  /\ Listener(PortOfService(i)) = NoInstance /\ ~co.cancelled /\ ~ResourceConflict(i)
  /\ Intend(i, "probe", "registered", "scope_starting", "scope")

\* A Job, a failure without one, or a handle that could not be closed again.
CreateJob(i) ==
  /\ co.pc = "scope" /\ co.current = i
  /\ \/ /\ Works
        /\ svc' = [svc EXCEPT ![i].scope = TRUE, ![i].owned = "owned"]
        /\ Goto("policy") /\ UNCHANGED closing
     \/ /\ Fault
        /\ \E stuck \in BOOLEAN : svc' = [svc EXCEPT ![i].handle = stuck]
        /\ PrepareFails
  /\ UNCHANGED <<made, journal, proc, pidFile, req, ext>>

RecordJob(i) == Intend(i, "policy", "scope_starting", "scope_acquired", "intent")
IntendLaunch(i) == Intend(i, "intent", "scope_acquired", IntentPhase, "spawn")

\* start_model_server and spawn_process_in_scope: created suspended ...
CreateSuspended(i) ==
  /\ co.pc = "spawn" /\ co.current = i /\ ~co.cancelled
  /\ proc' = [proc EXCEPT ![i]["launcher"] = "out"]
  /\ Goto("assign")
  /\ UNCHANGED <<svc, made, journal, pidFile, req, ext, closing, fault>>

\* ... put into the Job, or terminated when that fails ...
Assign(i) ==
  /\ co.pc = "assign" /\ co.current = i
  /\ \/ /\ Works
        /\ proc' = [proc EXCEPT ![i]["launcher"] = "held"]
        /\ Goto("record") /\ UNCHANGED closing
     \/ /\ Fault
        /\ proc' = [proc EXCEPT ![i]["launcher"] = "dropped"]
        /\ PrepareFails
  /\ UNCHANGED <<svc, made, journal, pidFile, req, ext>>

\* ... entered in the journal (before_resume) and only then resumed.
RecordAndResume(i) ==
  /\ co.pc = "record" /\ co.current = i
  /\ \/ /\ Works
        /\ journal[i].phase = "launch_starting"
        /\ Write(i, [journal[i] EXCEPT !.phase = "launch_registered", !.members = {"launcher"}])
        /\ Goto("resume")
        /\ UNCHANGED <<proc, closing>>
     \/ /\ Fault
        /\ proc' = [proc EXCEPT ![i]["launcher"] = "dropped"]
        /\ PrepareFails
        /\ UNCHANGED journal
  /\ UNCHANGED <<svc, made, pidFile, req, ext>>

Resume(i) ==
  /\ co.pc = "resume" /\ co.current = i
  /\ \/ /\ Works
        /\ proc' = [proc EXCEPT ![i]["launcher"] = IF @ = "held" THEN "job" ELSE @]
        /\ Goto("launched") /\ UNCHANGED closing
     \/ /\ Fault
        /\ proc' = [proc EXCEPT ![i]["launcher"] = IF @ = "held" THEN "dropped" ELSE @]
        /\ PrepareFails
  /\ UNCHANGED <<svc, made, journal, pidFile, req, ext>>

\* The launcher's, or the process that the health of the port reports.
Reported(i) == {Launcher, Listener(PortOfService(i))} \ {NoInstance}

\* The launcher survived its first moments.
WritePid(i) ==
  /\ co.pc = "launched" /\ co.current = i /\ ~co.cancelled
  /\ proc[i]["launcher"] = "job"
  /\ \E whose \in Reported(i) : pidFile' = [pidFile EXCEPT ![i] = whose]
  /\ Goto("ready")
  /\ UNCHANGED <<svc, made, journal, proc, req, ext, closing, fault>>

-----------------------------------------------------------------------------
(***************************************************************************)
(* observe_process_scope_cleanup, for a launch that failed and for a       *)
(* close: list the Job, terminate it, and look until the list is empty and *)
(* every process that is tracked has ended.  A process the launcher starts *)
(* between the first two is terminated with the Job and in no list.        *)
(***************************************************************************)
Terminated(i) ==
  [proc EXCEPT ![i] = [p \in Proc |-> IF @[p] \in InJobState THEN "dying" ELSE @[p]]]

\* An empty Job is not terminated.
Killed(i) == IF closing.seen = {} THEN proc ELSE Terminated(i)

CleanupVerified(i, tracked) == InJob(i) = {} /\ Remain(i, tracked) = {}

\* A PID file goes when its process was listed here or does not exist.
PidFileGoes(i) ==
  CASE pidFile[i] = NoInstance -> TRUE
    [] pidFile[i] = Launcher ->
         "launcher" \in closing.seen \/ proc[i]["launcher"] = "gone"
    [] pidFile[i][1] = "own" ->
         "server" \in closing.seen \/ proc[i]["server"] = "gone"
    [] pidFile[i][1] = "ext" ->
         ~(ext[PortOfService(i)].up /\ ext[PortOfService(i)].n = pidFile[i][2])

NoPidFile(i) == [pidFile EXCEPT ![i] = NoInstance]
PidFileStays(i) ==
  \/ UNCHANGED pidFile
  \/ PidFileGoes(i) /\ pidFile' = NoPidFile(i)

\* _retain_cleanup_identities: memory first, then the journal.
Retain(i, tracked) == svc' = [svc EXCEPT ![i].members = @ \cup tracked]
JournalMembers(i) == Write(i, [journal[i] EXCEPT !.members = @ \cup svc'[i].members])

\* start_model_server fails with the launcher running, before or after the PID
\* file is written, and lists the Job.
LaunchFails(i) ==
  /\ co.pc = "launched" /\ co.current = i
  /\ IF co.cancelled \/ proc[i]["launcher"] # "job" THEN Works ELSE Fault
  /\ \E whose \in Reported(i) \cup {NoInstance} : pidFile' = [pidFile EXCEPT ![i] = whose]
  /\ closing' = [of |-> i, why |-> "prepare", seen |-> InJob(i)]
  /\ Goto("abort")
  /\ UNCHANGED <<svc, made, journal, proc, req, ext>>

\* What is known goes to the service, which closes; unless it cannot be
\* recorded: then the error leaves prepare before the close.
PrepareLeaves == UNCHANGED journal /\ closing' = NoClose /\ Goto("failed")

LaunchUnproved(i, tracked) ==
  /\ Retain(i, tracked)
  /\ \/ JournalMembers(i) /\ PrepareFails
     \/ PrepareLeaves

\* Terminated, or one of the calls failed and nothing more is looked at.
AbortJob(i) ==
  /\ co.pc = "abort" /\ co.current = i
  /\ \/ /\ Works
        /\ proc' = Killed(i)
        /\ Goto("undo")
        /\ UNCHANGED <<svc, journal, closing>>
     \/ /\ Fault
        /\ \E tracked \in {{}, closing.seen} : LaunchUnproved(i, tracked)
        /\ UNCHANGED proc
  /\ UNCHANGED <<made, pidFile, req, ext>>

AbortObserved(i) ==
  /\ co.pc = "undo" /\ co.current = i
  /\ \/ /\ CleanupVerified(i, closing.seen) /\ PidFileGoes(i)
        /\ Listener(PortOfService(i)) = NoInstance
        /\ Works
        /\ pidFile' = NoPidFile(i)
        /\ PrepareFails
        /\ UNCHANGED <<svc, journal>>
     \/ \* its short time is up
        /\ PidFileStays(i)
        /\ Retain(i, closing.seen)
        /\ \/ Works /\ JournalMembers(i) /\ PrepareFails
           \/ Fault /\ PrepareLeaves
  /\ UNCHANGED <<made, proc, req, ext>>

-----------------------------------------------------------------------------
\* The readiness loop: who listens, a second probe, and the same listener.
LookAtListener(i) ==
  /\ co.pc = "ready" /\ co.current = i /\ ~co.cancelled
  /\ MayBe(i, Listener(PortOfService(i)))
  /\ svc' = [svc EXCEPT ![i].instance = Listener(PortOfService(i))]
  /\ Goto("confirm")
  /\ UNCHANGED <<made, journal, proc, pidFile, req, ext, closing, fault>>

\* _journal_ready: every process of the Job is entered before the service is used.
ReadyRecord(i) ==
  [journal[i] EXCEPT !.phase = "ready", !.owned = svc[i].owned,
                     !.members = @ \cup InJob(i)]

MayBeReady(i) ==
  \/ journal[i].phase = "registered" /\ svc[i].owned = "external"
  \/ journal[i].phase \in {"launch_registered", "ready"} /\ journal[i].owned = svc[i].owned

Confirm(i) ==
  /\ co.pc = "confirm" /\ co.current = i /\ ~co.cancelled
  /\ Same(i) /\ MayBeReady(i)
  /\ Works
  /\ Write(i, ReadyRecord(i))
  /\ svc' = [svc EXCEPT ![i].prepared = TRUE]
  /\ Goto("step")
  /\ UNCHANGED <<made, proc, pidFile, req, ext, closing>>

\* Cancelled, another listener, no process left in the Job, a name that
\* differs, a failed write, or the end of the readiness time.
PrepareStops(i) ==
  /\ co.current = i
  /\ \/ /\ co.pc \in {"probe", "spawn", "ready", "confirm"}
        /\ co.cancelled
        /\ Works
     \/ co.pc = "probe" /\ ResourceConflict(i) /\ Works
     \/ co.pc = "ready" /\ svc[i].scope /\ InJob(i) = {} /\ Works
     \/ co.pc = "ready" /\ Listener(PortOfService(i)) # NoInstance
          /\ ~MayBe(i, Listener(PortOfService(i))) /\ Works
     \/ co.pc = "confirm" /\ ~Same(i) /\ Works
     \/ co.pc \in {"probe", "spawn", "ready", "confirm"} /\ Fault
  /\ PrepareFails
  /\ UNCHANGED <<svc, made, journal, proc, pidFile, req, ext>>

\* reuse_ready: the instance that was prepared, still alone on its port.
ReuseReady(i) ==
  /\ ~co.cancelled /\ Same(i) /\ MayBe(i, svc[i].instance) /\ MayBeReady(i)
  /\ svc[i].prepared /\ svc[i].scope /\ ~svc[i].closed /\ ~svc[i].pending

\* A service that fails stays with the coordinator.
Reuse(i) ==
  /\ co.pc = "reuse" /\ co.current = i
  /\ \/ /\ ReuseReady(i) /\ Works
        /\ Write(i, ReadyRecord(i))
        /\ Goto("step")
     \/ /\ IF ReuseReady(i) THEN Fault ELSE Works
        /\ co' = [co EXCEPT !.pc = "failed", !.reuseFailed = TRUE]
        /\ UNCHANGED journal
  /\ UNCHANGED <<svc, made, proc, pidFile, req, ext, closing>>

-----------------------------------------------------------------------------
(***************************************************************************)
(* Requests of the step (app/vision/local_provider.py): the instance is    *)
(* checked, the request entered in the journal, sent, and its answer kept  *)
(* only when the same instance still listens.                              *)
(***************************************************************************)
Begin(i) ==
  /\ co.pc = "step" /\ co.current = i
  /\ ~co.cancelled /\ svc[i].prepared /\ ~svc[i].closed /\ ~svc[i].pending
  /\ Same(i)
  /\ Works
  /\ Write(i, [journal[i] EXCEPT !.pending = TRUE])
  /\ svc' = [svc EXCEPT ![i].pending = TRUE]
  /\ req' = [req EXCEPT ![i].at = "none", ![i].by = NoInstance]
  /\ Goto("send")
  /\ UNCHANGED <<made, proc, pidFile, ext, closing>>

Send(i) ==
  /\ co.pc = "send" /\ co.current = i
  /\ \/ /\ Listener(PortOfService(i)) # NoInstance /\ ~co.cancelled
        /\ req' = [req EXCEPT ![i].at = "sent", ![i].by = Listener(PortOfService(i))]
        /\ Goto("asking")
     \/ /\ Listener(PortOfService(i)) = NoInstance \/ co.cancelled
        /\ req' = [req EXCEPT ![i].at = "ended"]
        /\ Goto("asking")
  /\ UNCHANGED <<svc, made, journal, proc, pidFile, ext, closing, fault>>

Settled(i) ==
  /\ Write(i, [journal[i] EXCEPT !.pending = FALSE])
  /\ svc' = [svc EXCEPT ![i].pending = FALSE]

SameAfter(i) == Same(i)

Answered(i) ==
  /\ co.pc = "asking" /\ co.current = i
  /\ req[i].at = "answered" /\ ~co.cancelled /\ SameAfter(i)
  /\ Works
  /\ Settled(i)
  /\ req' = [req EXCEPT ![i].last = req[i].by]
  /\ Goto("step")
  /\ UNCHANGED <<made, proc, pidFile, ext, closing>>

\* Mutant: the server need not promise to refuse the request later.
UnfencedCounts_Always == TRUE

\* Whether a reply that names no active request counts without that promise.
UnfencedCounts == FALSE

\* A profile that supports it, and the instance that was asked.
CanCancel(i) == svc[i].config \in Cancellable /\ Same(i)

\* cancel_request: the same instance before and after, and a server that
\* stopped the request, or does not have it and will refuse it.
CancelProved(i) ==
  /\ CanCancel(i)
  /\ \/ req' = [req EXCEPT ![i].at = IF @ \in {"sent", "computing"} THEN "ended" ELSE @]
     \/ UnfencedCounts /\ req[i].at = "sent" /\ UNCHANGED req

\* The owner gives up: cancelled, the connection broke or timed out, another
\* instance answers, or the answer could not be recorded.  Only a proved
\* cancellation ends the request; otherwise it stays pending.
GivesUp(i) ==
  /\ co.pc = "asking" /\ co.current = i
  /\ \/ co.cancelled /\ Works /\ CancelProved(i) /\ Settled(i)
     \/ co.cancelled /\ ~CanCancel(i) /\ Works /\ UNCHANGED <<svc, journal, req>>
     \/ /\ ~co.cancelled /\ ~Active(i) /\ ~(req[i].at = "answered" /\ Same(i))
        /\ Works /\ UNCHANGED <<svc, journal, req>>
     \/ Fault /\ UNCHANGED <<svc, journal, req>>
  /\ Goto("step")
  /\ UNCHANGED <<made, proc, pidFile, ext, closing>>

-----------------------------------------------------------------------------
(***************************************************************************)
(* FormalModelService.close.  It may be called again after any failure:    *)
(* what was learned of the processes stays with the service.               *)
(***************************************************************************)
\* Where the coordinator stands after a close that failed: the service and
\* the duty to release it are kept.
CloseFails ==
  /\ Goto(IF closing.of = co.current THEN "failed" ELSE "idle")
  /\ closing' = NoClose

\* An adopted server keeps running, so its open request must be proved ended.
CloseRequest(i) ==
  /\ co.pc = "close" /\ closing.of = i
  /\ svc[i].pending /\ svc[i].owned = "external"
  /\ \/ /\ Works /\ CancelProved(i) /\ Settled(i)
        /\ UNCHANGED <<co, closing>>
     \/ /\ IF CanCancel(i) THEN Fault ELSE Works
        /\ CloseFails
        /\ UNCHANGED <<svc, journal, req>>
  /\ UNCHANGED <<made, proc, pidFile, ext>>

\* The handle of a Job that was never used is closed first.
CloseBegins(i) ==
  /\ co.pc = "close" /\ closing.of = i
  /\ ~(svc[i].pending /\ svc[i].owned = "external")
  /\ \/ /\ Works
        /\ svc' = [svc EXCEPT ![i].handle = FALSE]
        /\ Goto(IF svc[i].scope THEN "scan" ELSE "finish")
        /\ UNCHANGED closing
     \/ /\ svc[i].handle /\ Fault
        /\ CloseFails
        /\ UNCHANGED svc
  /\ UNCHANGED <<made, journal, proc, pidFile, req, ext>>

\* The members of the Job are remembered and entered before they are ended.
ScanJob(i) ==
  /\ co.pc = "scan" /\ closing.of = i
  /\ Retain(i, InJob(i))
  /\ \/ Works /\ JournalMembers(i) /\ Goto("list") /\ UNCHANGED closing
     \/ Fault /\ CloseFails /\ UNCHANGED journal
  /\ UNCHANGED <<made, proc, pidFile, req, ext>>

ListJob(i) ==
  /\ co.pc = "list" /\ closing.of = i
  /\ closing' = [closing EXCEPT !.seen = InJob(i)]
  /\ Goto("kill")
  /\ UNCHANGED <<svc, made, journal, proc, pidFile, req, ext, fault>>

\* Evidence that proves nothing: its processes are kept, and the service too.
CleanupPending(i, tracked) ==
  /\ Retain(i, tracked)
  /\ JournalMembers(i) \/ UNCHANGED journal  \* the write failed
  /\ CloseFails

\* Terminated, or one of the calls failed and nothing more is looked at.
TerminateJob(i) ==
  /\ co.pc = "kill" /\ closing.of = i
  /\ \/ /\ Works
        /\ proc' = Killed(i)
        /\ Goto("observe")
        /\ UNCHANGED <<svc, journal, closing>>
     \/ /\ Fault
        /\ \E tracked \in {{}, closing.seen} : CleanupPending(i, tracked)
        /\ UNCHANGED proc
  /\ UNCHANGED <<made, pidFile, req, ext>>

ObserveCleanup(i) ==
  /\ co.pc = "observe" /\ closing.of = i
  /\ LET verified == CleanupVerified(i, svc[i].members \cup closing.seen)
     IN \/ /\ verified /\ PidFileGoes(i)
           /\ Works
           /\ pidFile' = NoPidFile(i)
           /\ Retain(i, closing.seen) /\ JournalMembers(i)
           /\ Goto("handle")
           /\ closing' = [closing EXCEPT !.seen = {}]
        \/ \* the time is up, or the PID file resists
           /\ IF verified /\ ~PidFileGoes(i) THEN Works ELSE Fault
           /\ PidFileStays(i)
           /\ CleanupPending(i, closing.seen)
  /\ UNCHANGED <<made, proc, req, ext>>

CloseHandle(i) ==
  /\ co.pc = "handle" /\ closing.of = i
  /\ \/ /\ Works
        /\ svc' = [svc EXCEPT ![i].scope = FALSE, ![i].members = {}, ![i].verified = TRUE]
        /\ Goto("finish") /\ UNCHANGED closing
     \/ Fault /\ CloseFails /\ UNCHANGED svc
  /\ UNCHANGED <<made, journal, proc, pidFile, req, ext>>

\* The request of an owned server ended with it.
FinishRequest(i) ==
  /\ co.pc = "finish" /\ closing.of = i
  /\ svc[i].pending /\ svc[i].owned = "owned" /\ svc[i].verified
  /\ \/ Works /\ Settled(i) /\ UNCHANGED <<co, closing>>
     \/ Fault /\ CloseFails /\ UNCHANGED <<svc, journal>>
  /\ UNCHANGED <<made, proc, pidFile, req, ext>>

\* Mutant: a closed service is not closed again.
ClosedAgain_Refused(i) == journal[i].phase # "closed"

ClosedAgain(i) == TRUE

\* model_closed keeps the phase the service was in.
ClosedRecord(i) ==
  IF journal[i].phase = "closed" THEN journal[i]
  ELSE [journal[i] EXCEPT !.phase = "closed", !.from = journal[i].phase]

Residents == co.residents \ {closing.of}

\* What the coordinator does with a service that is closed.
AfterClose(i) ==
  CASE closing.why = "prepare" -> [co EXCEPT !.pc = "failed"]
    [] closing.why \in {"release", "stop"} ->
         [co EXCEPT !.current = 0, !.release = FALSE, !.reuseFailed = FALSE,
                    !.pc = IF closing.why = "stop" THEN "draining" ELSE "idle"]
    [] closing.why \in {"residents", "off", "drain"} ->
         [co EXCEPT !.residents = Residents, !.pc = "draining"]

FinishClose(i) ==
  /\ co.pc = "finish" /\ closing.of = i /\ ~svc[i].pending
  /\ \/ /\ Works /\ ClosedAgain(i)
        /\ Write(i, ClosedRecord(i))
        /\ svc' = [svc EXCEPT ![i].closed = TRUE]
        /\ co' = AfterClose(i)
        /\ closing' = [NoClose EXCEPT !.why = closing.why]
     \/ Fault /\ CloseFails /\ UNCHANGED <<svc, journal>>
  /\ UNCHANGED <<made, proc, pidFile, req, ext>>

-----------------------------------------------------------------------------
(***************************************************************************)
(* The coordinator: keep a model between steps, release it, shut down.     *)
(***************************************************************************)
CanRetain(i) ==
  /\ svc[i].owned = "owned" /\ svc[i].prepared /\ ~svc[i].closed
  /\ ~svc[i].pending /\ svc[i].scope /\ ~svc[i].handle

Retains(i) ==
  /\ co.keep /\ ~co.release /\ ~co.reuseFailed /\ ~co.cancelled /\ CanRetain(i)

\* cancel, and the end of a passive observation; one that failed forces.
Release(i, force) ==
  /\ co.pc \in {"step", "failed"} /\ co.current = i
  /\ \/ /\ ~force /\ Retains(i)
        /\ co' = [co EXCEPT !.pc = "idle", !.current = 0, !.residents = @ \cup {i}]
        /\ UNCHANGED closing
     \/ (force \/ ~Retains(i)) /\ StartClose(i, "release")
  /\ UNCHANGED <<svc, made, journal, proc, pidFile, req, ext, fault>>

\* cancel_waiting, from another thread.
CancelWaiting ==
  /\ co.pc \notin {"idle", "down", "crashed"} /\ ~co.cancelled
  /\ co' = [co EXCEPT !.cancelled = TRUE]
  /\ UNCHANGED <<svc, made, journal, proc, pidFile, req, ext, closing, fault>>

KeepModels ==
  /\ co.pc = "idle" /\ co.current = 0 /\ ~co.release /\ ~co.cleanup /\ ~co.keep
  /\ co' = [co EXCEPT !.keep = TRUE]
  /\ UNCHANGED <<svc, made, journal, proc, pidFile, req, ext, closing, fault>>

Drain(why) ==
  /\ closing' = [of |-> 0, why |-> why, seen |-> {}]
  /\ co' = [co EXCEPT !.pc = "draining", !.cleanup = co.residents # {},
                      !.cancelled = @ \/ why = "drain"]

\* release_resident_models, and set_keep_models_loaded(False).
ReleaseResidents(why) ==
  /\ co.pc = "idle" /\ co.current = 0 /\ ~co.release
  /\ co.residents # {} \/ (why = "off" /\ co.keep)
  /\ Drain(why)
  /\ UNCHANGED <<svc, made, journal, proc, pidFile, req, ext, fault>>

NextResident ==
  /\ co.pc = "draining"
  /\ \/ \E i \in co.residents :
          StartClose(i, IF closing.why = "stop" THEN "drain" ELSE closing.why)
     \/ /\ co.residents = {}
        /\ co' = [co EXCEPT !.cleanup = FALSE, !.keep = @ /\ closing.why # "off",
             !.pc = IF closing.why \in {"stop", "drain"} THEN "down" ELSE "idle"]
        /\ closing' = NoClose
  /\ UNCHANGED <<svc, made, journal, proc, pidFile, req, ext, fault>>

\* shutdown: the step's model without keeping it, then the residents.
Shutdown ==
  /\ co.pc \in {"idle", "step", "failed"}
  /\ IF co.current # 0
     THEN /\ closing' = [of |-> co.current, why |-> "stop", seen |-> {}]
          /\ co' = [co EXCEPT !.pc = "close", !.release = TRUE, !.cancelled = TRUE]
     ELSE Drain("drain")
  /\ UNCHANGED <<svc, made, journal, proc, pidFile, req, ext, fault>>

-----------------------------------------------------------------------------
(***************************************************************************)
(* The processes, the servers of others, and the end of the runner.  The   *)
(* Job ends its members when the runner's handle is gone.                  *)
(***************************************************************************)
SpawnServer(i) ==
  /\ proc[i]["launcher"] = "job" /\ proc[i]["server"] = "none"
  /\ proc' = [proc EXCEPT ![i]["server"] = "job"]
  /\ UNCHANGED <<svc, made, journal, pidFile, req, ext, co, closing, fault>>

Listens(i) ==
  /\ proc[i]["server"] = "job" /\ Listener(PortOfService(i)) = NoInstance
  /\ proc' = [proc EXCEPT ![i]["server"] = "serving"]
  /\ UNCHANGED <<svc, made, journal, pidFile, req, ext, co, closing, fault>>

\* A process ends by itself, or for the kernel after it was terminated.
Ends(i, p) ==
  /\ proc[i][p] \in {"job", "serving", "dying", "dropped"}
  /\ proc' = [proc EXCEPT ![i][p] = "gone"]
  /\ UNCHANGED <<svc, made, journal, pidFile, req, ext, co, closing, fault>>

ExternalStarts(p) ==
  /\ ext[p].n < MaxExternal /\ \A q \in Port \ {p} : ext[p].n + ext[q].n < MaxExternal
  /\ ~ext[p].up /\ Listener(p) = NoInstance
  /\ ext' = [ext EXCEPT ![p] = [n |-> @.n + 1, up |-> TRUE]]
  /\ UNCHANGED <<svc, made, journal, proc, pidFile, req, co, closing, fault>>

ExternalStops(p) ==
  /\ ExternalMayStop /\ ext[p].up
  /\ ext' = [ext EXCEPT ![p].up = FALSE]
  /\ UNCHANGED <<svc, made, journal, proc, pidFile, req, co, closing, fault>>

\* The request reaches the server, and its answer comes back.
Serves(i) ==
  /\ Active(i)
  /\ \/ req[i].at = "sent" /\ req' = [req EXCEPT ![i].at = "computing"]
     \/ req[i].at = "computing" /\ req' = [req EXCEPT ![i].at = "answered"]
  /\ UNCHANGED <<svc, made, journal, proc, pidFile, ext, co, closing, fault>>

Crash ==
  /\ CrashMayHappen /\ co.pc \notin {"down", "crashed"}
  /\ proc' = [i \in Service |-> Terminated(i)[i]]
  /\ Goto("crashed")
  /\ UNCHANGED <<svc, made, journal, pidFile, req, ext, closing, fault>>

-----------------------------------------------------------------------------
Prepare(i) ==
  \/ Adopt(i) \/ IntendScope(i) \/ CreateJob(i) \/ RecordJob(i) \/ IntendLaunch(i)
  \/ CreateSuspended(i) \/ Assign(i) \/ RecordAndResume(i) \/ Resume(i) \/ WritePid(i)
  \/ LaunchFails(i) \/ AbortJob(i) \/ AbortObserved(i)
  \/ LookAtListener(i) \/ Confirm(i) \/ PrepareStops(i) \/ Reuse(i)

Close(i) ==
  \/ CloseRequest(i) \/ CloseBegins(i) \/ ScanJob(i) \/ ListJob(i) \/ TerminateJob(i)
  \/ ObserveCleanup(i) \/ CloseHandle(i) \/ FinishRequest(i) \/ FinishClose(i)

Ask(i) == Begin(i) \/ Send(i) \/ Answered(i) \/ GivesUp(i)

World ==
  \/ \E i \in Live : \/ SpawnServer(i) \/ Listens(i) \/ Serves(i)
                     \/ \E p \in Proc : Ends(i, p)
  \/ \E p \in Port : ExternalStarts(p) \/ ExternalStops(p)

Next ==
  \/ \E c \in Config : NewModel(c)
  \/ \E i \in Live : \/ Prepare(i) \/ Ask(i) \/ Close(i) \/ TakeResident(i)
                     \/ \E force \in BOOLEAN : Release(i, force)
  \/ CancelWaiting \/ KeepModels \/ NextResident \/ Shutdown
  \/ \E why \in {"residents", "off"} : ReleaseResidents(why)
  \/ World \/ Crash

Spec == Init /\ [][Next]_vars

\* The thread keeps running what it started, terminated processes end, servers
\* answer, and whoever was told that cleanup is pending tries again.
Retries ==
  \/ \E i \in Live : co.release /\ Release(i, FALSE)
  \/ co.cleanup /\ ReleaseResidents("residents")

FairSpec ==
  /\ Spec
  /\ WF_vars(\E i \in Live : Prepare(i) \/ Ask(i) \/ Close(i))
  /\ WF_vars(NextResident)
  /\ WF_vars(Retries)
  /\ \A i \in Service :
       /\ WF_vars(\E p \in Proc : proc[i][p] \in {"dying", "dropped"} /\ Ends(i, p))
       /\ WF_vars(Serves(i))

-----------------------------------------------------------------------------
(***************************************************************************)
(* observe_session_resource_cleanup: what a later process concludes from   *)
(* the journal once the runner is dead.  It ends and removes nothing.      *)
(***************************************************************************)
LastPhase(i) == IF journal[i].phase = "closed" THEN journal[i].from ELSE journal[i].phase

\* Mutant: only a scope without an owner is incomplete.
Incomplete_Scope == {"scope_starting"}

Incomplete == {"scope_starting", "launch_starting"}

Verified(i) ==
  /\ ~(journal[i].pending /\ journal[i].owned = "external")
  /\ \/ LastPhase(i) = "registered" \/ journal[i].owned = "external"
     \/ /\ LastPhase(i) \notin Incomplete
        /\ InJob(i) = {} /\ Remain(i, journal[i].members) = {} /\ pidFile[i] = NoInstance

-----------------------------------------------------------------------------
(***************************************************************************)
(* Properties.                                                             *)
(***************************************************************************)
TypeOK ==
  /\ made \in 0..MaxService
  /\ svc \in [Service -> [config : Config \cup {NoConfig}, owned : {"none", "owned", "external"},
       scope : BOOLEAN, handle : BOOLEAN, prepared : BOOLEAN, closed : BOOLEAN,
       instance : Instance, pending : BOOLEAN, members : SUBSET Proc, verified : BOOLEAN]]
  /\ journal \in [Service -> [phase : Phase, from : Phase,
       owned : {"none", "owned", "external"}, pending : BOOLEAN, members : SUBSET Proc]]
  /\ proc \in [Service -> [Proc -> ProcState]]
  /\ pidFile \in [Service -> Instance \cup {Launcher}]
  /\ req \in [Service -> [at : {"none", "sent", "computing", "answered", "ended"},
       by : Instance, last : Instance]]
  /\ ext \in [Port -> [n : 0..MaxExternal, up : BOOLEAN]]
  /\ co \in [pc : {"idle", "probe", "scope", "policy", "intent", "spawn", "assign", "record",
         "resume", "launched", "abort", "undo", "ready", "confirm", "reuse", "step", "send",
         "asking", "failed", "close", "scan", "list", "kill", "observe", "handle", "finish",
         "draining", "down", "crashed"},
       current : 0..MaxService, keep : BOOLEAN, release : BOOLEAN, reuseFailed : BOOLEAN,
       cancelled : BOOLEAN, residents : SUBSET Service, cleanup : BOOLEAN]
  /\ closing \in [of : 0..MaxService,
       why : {"none", "prepare", "release", "stop", "residents", "off", "drain"},
       seen : SUBSET Proc]
  /\ fault \in 0..MaxFault

\* Terminated already, and in no list that a close or a start made: a server the
\* launcher started while its Job was being terminated, which neither the service
\* nor the journal names, or a launcher that never ran.
Leftover(i) ==
  {p \in Proc : \/ p = "launcher" /\ proc[i][p] = "dropped"
                \/ /\ p = "server" /\ proc[i][p] = "dying"
                   /\ p \notin svc[i].members \cup journal[i].members}

Present(i) == {p \in Proc : proc[i][p] \notin {"none", "gone"}} \ Leftover(i)

Clean(i) ==
  /\ Present(i) = {}
  /\ LastPhase(i) = "ready" => Leftover(i) = {}
  /\ ~svc[i].scope /\ ~svc[i].handle
  /\ Active(i) => svc[i].owned = "owned" /\ req[i].by # svc[i].instance

\* A service that was closed, and one the coordinator no longer holds, left no
\* process, no Job handle and no request behind: every failure on the way keeps
\* the service with the coordinator (model_service.py close, _release_model_service).
\* One that never became ready may leave a process that is already terminated.
\* (The check of the instance and the connection are two steps: a request of an
\* owned service that reached a stranger in between is not the service's.)
NothingLeaks ==
  co.pc # "crashed" =>
    \A i \in Live :
      (svc[i].closed \/ i \notin co.residents \cup {co.current}) => Clean(i)

\* Two services never have processes on one port: a resident of another
\* configuration, or one that is still ending, keeps the port to itself.  (Not
\* counted is a server that was terminated and is in no list, see Leftover.)
OneModelPerPort ==
  \A i, j \in Live :
    i # j /\ PortOfService(i) = PortOfService(j) => Present(i) = {} \/ Present(j) = {}

\* A server this session started is never adopted as somebody else's
\* (_prepare_model_service_on_owner: the API name does not tell them apart).
NotAdopted ==
  \A i \in Live : svc[i].owned = "external" => svc[i].instance[1] # "own"

\* An answer that was used came from the instance that was prepared, however
\* often the port changed hands while it was computed (local_provider.py).
AnswerIsFromInstance ==
  \A i \in Live : req[i].last # NoInstance => req[i].last = svc[i].instance

\* Between steps a resident is whole: its Job is held and no request is open.
\* Without the setting there is none.
ResidentsAreWhole ==
  /\ co.residents # {} => co.keep
  /\ ~co.cleanup =>
       \A i \in co.residents :
         /\ svc[i].owned = "owned" /\ svc[i].prepared /\ svc[i].scope
         /\ ~svc[i].pending /\ ~svc[i].closed

\* After a crash at any point the journal never vouches for a service whose
\* process can still run, or, once it was ready, is still ending, nor for one
\* with an open request at a server that lives on.
VerifiedIsTrue ==
  co.pc = "crashed" =>
    \A i \in Live : Verified(i) =>
      /\ \A p \in Proc : proc[i][p] \notin AliveState
      /\ LastPhase(i) = "ready" => (\A p \in Proc : proc[i][p] \in {"none", "gone"})
      /\ svc[i].owned = "external" => ~Active(i)

\* A port belongs to one model of one configuration, whether it serves, is kept
\* between steps, or is still ending (_prepare_model_service_on_owner).
PortsAreKept == TypeOK /\ OneModelPerPort /\ NotAdopted /\ ResidentsAreWhole

\* What is vouched for is so: a clean-up in the journal after a crash, and the
\* origin of an answer (session_resource_recovery.py, local_provider.py).
NothingIsVouchedFalsely == VerifiedIsTrue /\ AnswerIsFromInstance

\* An adopted server that was restarted, or that cannot cancel: the end of its
\* request cannot be proved any more.
Unprovable(i) ==
  /\ svc[i].owned = "external" /\ ~svc[i].closed /\ svc[i].pending
  /\ ~CanCancel(i)

\* The PID file names a server of somebody else that answered for the launcher.
NamesStranger(i) == pidFile[i][1] = "ext"

\* A pending release or cleanup that is retried comes to its end, as long as
\* the runner lives, no request is open at an adopted server that cannot be made
\* to end it, and the PID file is the service's own (close, shutdown).
ReleaseSettles ==
  (co.release \/ co.cleanup) ~>
    \/ ~co.release /\ ~co.cleanup
    \/ co.pc = "crashed"
    \/ \E i \in Live : Unprovable(i) \/ NamesStranger(i)

=============================================================================
