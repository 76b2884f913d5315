---------------------------- MODULE SessionEpoch ----------------------------
(***************************************************************************)
(* Who owns the desktop after a host or its MCP process was lost:          *)
(*   app/instant_mcp.py                        start, launch, stop, submit *)
(*   app/execution/session_epoch_admission.py  the explicit recovery       *)
(*   app/core/session_epoch_read_contract.py   its record, read at submit  *)
(*   scripts/run_local_step_session.py         the host's own start-up     *)
(*                                                                         *)
(* One MCP process at a time holds owner.lock of the data directory; it    *)
(* may die between any two writes, and so may a host.  A session's host    *)
(* identity is the session's own number: no two hosts share a directory.   *)
(* A step of a call is one durable write, or the start of a process; a     *)
(* call may raise before any of them.                                      *)
(***************************************************************************)
EXTENDS Naturals, FiniteSets

CONSTANTS Request,     \* ids of recovery requests
          NoRequest,   \* an ordinary start
          MaxSession,  \* bound on the sessions of the data directory
          MaxMcp       \* bound on the MCP processes that own it in turn

ASSUME RequestAssumption == NoRequest \notin Request
ASSUME BoundAssumption == MaxSession \in Nat \ {0} /\ MaxMcp \in Nat \ {0}

VARIABLES mcp,       \* the MCP process and its InstantSession
          call,      \* the call in progress: where it is, and for which session
          pointer,   \* latest-session.json, or 0
          admission, \* recovery-admissions/<request>.json
          host,      \* the host process of each session
          report,    \* <session>/report.json
          journal,   \* sessions with a session-resources.json
          settled,   \* dead sessions whose resources and inputs are proved settled
          accepted,  \* sessions that have been given a command
          launches   \* history: the sessions launched for each request

vars == <<mcp, call, pointer, admission, host, report, journal, settled, accepted, launches>>

Session == 1..MaxSession

\* "ended": the host is gone; "ending": it serves no more and cleans up.
Serving == {"starting", "waiting", "ready"}
Alive   == Serving \cup {"ending"}
Finished == {"stopped", "failed"}   \* the reports with a finished_at

AdmissionPhase == {"none", "prepared", "launch_started", "host_created", "pointer_published", "ready"}

NoAdmission == [phase |-> "none", source |-> 0, new |-> 0]
Idle == [at |-> "idle", for |-> NoRequest, new |-> 0]

Init ==
  /\ mcp = [up |-> TRUE, id |-> 1, session |-> 0]
  /\ call = Idle
  /\ pointer = 0
  /\ admission = [r \in Request |-> NoAdmission]
  /\ host = [s \in Session |-> [at |-> "none", parent |-> 0]]
  /\ report = [s \in Session |-> "none"]
  /\ journal = {}
  /\ settled = {}
  /\ accepted = {}
  /\ launches = [r \in Request |-> 0]

\* Every record is of its declared kind.
TypeOK ==
  /\ mcp \in [up : BOOLEAN, id : 1..MaxMcp, session : Session \cup {0}]
  /\ call \in [at : {"idle", "admitted", "launch", "created", "publish", "attach", "settle"},
               for : Request \cup {NoRequest}, new : Session \cup {0}]
  /\ pointer \in Session \cup {0}
  /\ admission \in [Request -> [phase : AdmissionPhase, source : Session \cup {0}, new : Session \cup {0}]]
  /\ host \in [Session -> [at : {"none", "ended"} \cup Alive, parent : 0..MaxMcp]]
  /\ report \in [Session -> {"none", "ready"} \cup Finished]
  /\ journal \subseteq Session /\ settled \subseteq Session /\ accepted \subseteq Session
  /\ launches \in [Request -> Nat]

-----------------------------------------------------------------------------
(***************************************************************************)
(* What the calls read.                                                    *)
(***************************************************************************)
Living(s) == host[s].at \in Alive

\* uuid4: a directory nobody has.
Taken(s) == host[s].at # "none" \/ \E r \in Request : admission[r].new = s
Unused == {s \in Session : ~Taken(s) /\ \A t \in 1..(s - 1) : Taken(t)}

\* The cleanup_verified of status().
CleanupVerified(s) == report[s] = "stopped" /\ ~Living(s)

\* _check_peer_hosts: no report of another session is unfinished while its runner lives.
NoPeers(exclude) ==
  \A s \in Session \ {exclude} : report[s] \notin {"none"} \cup Finished => ~Living(s)

\* Mutant: the proof is as good while the host still lives.
Proved_Alive(s) == s # 0 /\ report[s] # "none" /\ s \in journal

\* preview and, later, _original_unchanged: the source is dead, and its
\* resources and inputs are proved settled.
Proved(s) == s # 0 /\ ~Living(s) /\ report[s] # "none" /\ s \in journal /\ s \in settled

\* pending_request: the admission this session came from must be ready, and
\* the pointer must name the session.
EpochAdmits(s) ==
  \A r \in Request : admission[r].phase # "none" /\ admission[r].new = s
                        => pointer = s /\ admission[r].phase = "ready"

-----------------------------------------------------------------------------
(***************************************************************************)
(* The calls of the MCP process, which hold its guard from end to end.     *)
(***************************************************************************)
Ready == mcp.up /\ call = Idle

At(p) == mcp.up /\ call.at = p
Goto(p) == call' = [call EXCEPT !.at = p]
Return == call' = Idle

Launch(r, s) == call' = [at |-> "launch", for |-> r, new |-> s]

\* start without a session to attach to.
StartFirst ==
  /\ Ready
  /\ mcp.session = 0 /\ pointer = 0
  /\ NoPeers(0)
  /\ \E s \in Unused : Launch(NoRequest, s)
  /\ UNCHANGED <<mcp, pointer, admission, host, report, journal, settled, accepted, launches>>

Attached == IF mcp.session = 0 THEN pointer ELSE mcp.session

\* start finds the session of the pointer, or keeps its own.
StartAttaches ==
  /\ Ready
  /\ Attached # 0 /\ Attached # mcp.session
  /\ mcp' = [mcp EXCEPT !.session = Attached]
  /\ UNCHANGED <<call, pointer, admission, host, report, journal, settled, accepted, launches>>

\* start with new_session, after a session that was cleaned up.
StartNew ==
  /\ Ready
  /\ Attached # 0 /\ CleanupVerified(Attached)
  /\ NoPeers(0)
  /\ mcp' = [mcp EXCEPT !.session = 0]
  /\ \E s \in Unused : Launch(NoRequest, s)
  /\ UNCHANGED <<pointer, admission, host, report, journal, settled, accepted, launches>>

\* recover: every other admission must be settled.
OthersReady(r) == \A q \in Request \ {r} : admission[q].phase \in {"none", "ready"}

\* A request not seen before is recorded before anything happens for it.
Admit(r) ==
  /\ Ready
  /\ OthersReady(r)
  /\ admission[r].phase = "none"
  /\ mcp.session \in {0, pointer} /\ Proved(pointer)
  /\ \E s \in Unused :
       /\ admission' = [admission EXCEPT ![r] = [phase |-> "prepared", source |-> pointer, new |-> s]]
       /\ call' = [at |-> "admitted", for |-> r, new |-> s]
  /\ UNCHANGED <<mcp, pointer, host, report, journal, settled, accepted, launches>>

\* The same request again, by this process or a later one.
Retry(r) ==
  /\ Ready
  /\ OthersReady(r)
  /\ admission[r].phase # "none"
  /\ call' = [at |-> "admitted", for |-> r, new |-> admission[r].new]
  /\ UNCHANGED <<mcp, pointer, admission, host, report, journal, settled, accepted, launches>>

Mine == admission[call.for]
Record(p) == admission' = [admission EXCEPT ![call.for].phase = p]

Published == pointer = call.new

\* launch_started without a host identity: nobody knows whether a host exists,
\* and it is never launched again.
LaunchUnknown ==
  /\ At("admitted") /\ Mine.phase = "launch_started"
  /\ Return
  /\ UNCHANGED <<mcp, pointer, admission, host, report, journal, settled, accepted, launches>>

\* Mutant: a launch of unknown outcome is tried again.
MayLaunch_Again == Mine.phase \in {"prepared", "launch_started"}

MayLaunch == Mine.phase = "prepared"

\* The intention to launch is on disk before the process is.
BeginLaunch ==
  /\ At("admitted") /\ MayLaunch
  /\ ~Published /\ pointer = Mine.source
  /\ Proved(Mine.source) /\ NoPeers(Mine.source)
  /\ Record("launch_started")
  /\ Goto("launch")
  /\ UNCHANGED <<mcp, pointer, host, report, journal, settled, accepted, launches>>

\* A host that was recorded but not published is published by the retry.
PublishAgain ==
  /\ At("admitted") /\ Mine.phase = "host_created"
  /\ ~Published /\ pointer = Mine.source
  /\ Proved(Mine.source)
  /\ Living(call.new)
  /\ pointer' = call.new
  /\ Goto("attach")
  /\ UNCHANGED <<mcp, admission, host, report, journal, settled, accepted, launches>>

Reattach ==
  /\ At("admitted") /\ Published
  /\ Mine.phase \in {"host_created", "pointer_published", "ready"}
  /\ Proved(Mine.source)
  /\ Goto("attach")
  /\ UNCHANGED <<mcp, pointer, admission, host, report, journal, settled, accepted, launches>>

\* _launch_session: the session is taken over in memory, then the process made.
Spawn ==
  /\ At("launch")
  /\ mcp' = [mcp EXCEPT !.session = call.new]
  /\ host' = [host EXCEPT ![call.new] = [at |-> "starting", parent |-> mcp.id]]
  /\ launches' = IF call.for = NoRequest THEN launches ELSE [launches EXCEPT ![call.for] = @ + 1]
  /\ Goto("created")
  /\ UNCHANGED <<pointer, admission, report, journal, settled, accepted>>

\* on_created: the identity is durable before the pointer can name it.
Created ==
  /\ At("created")
  /\ IF call.for = NoRequest THEN UNCHANGED admission ELSE Record("host_created")
  /\ Goto("publish")
  /\ UNCHANGED <<mcp, pointer, host, report, journal, settled, accepted, launches>>

\* before_publish, then the pointer.
Publish ==
  /\ At("publish")
  /\ call.for # NoRequest => Living(call.new) /\ pointer = Mine.source /\ Proved(Mine.source)
  /\ pointer' = call.new
  /\ IF call.for = NoRequest THEN Return ELSE Goto("attach")
  /\ UNCHANGED <<mcp, admission, host, report, journal, settled, accepted, launches>>

AttachHost ==
  /\ At("attach") /\ Living(call.new)
  /\ mcp' = [mcp EXCEPT !.session = call.new]
  /\ IF Mine.phase = "host_created" THEN Record("pointer_published") ELSE UNCHANGED admission
  /\ Goto("settle")
  /\ UNCHANGED <<pointer, host, report, journal, settled, accepted, launches>>

\* _ready: the report, the journal and the processes agree.
HostReady(s) == report[s] = "ready" /\ s \in journal /\ Living(s)

\* The new epoch counts when its host is ready and has not been used yet.
SettleAdmission ==
  /\ At("settle") /\ Published
  /\ IF HostReady(call.new) /\ Mine.phase # "ready" /\ call.new \notin accepted
     THEN Record("ready") ELSE UNCHANGED admission
  /\ Return
  /\ UNCHANGED <<mcp, pointer, host, report, journal, settled, accepted, launches>>

\* A refused check, a failed write, or Popen itself: the call raises.  If it was
\* about to launch, it has taken the new session over in memory, or not yet.
CallRaises ==
  /\ mcp.up /\ call # Idle
  /\ Return
  /\ \/ UNCHANGED mcp
     \/ call.at = "launch" /\ mcp' = [mcp EXCEPT !.session = call.new]
  /\ UNCHANGED <<pointer, admission, host, report, journal, settled, accepted, launches>>

\* _live_submit: the host is ready, and so is the epoch.
Submit ==
  /\ Ready
  /\ LET s == mcp.session IN
     /\ s # 0 /\ host[s].at = "ready" /\ report[s] = "ready" /\ EpochAdmits(s)
     /\ accepted' = accepted \cup {s}
  /\ UNCHANGED <<mcp, call, pointer, admission, host, report, journal, settled, launches>>

\* stop: the closing marker ends the host's loop.
Stop ==
  /\ Ready
  /\ mcp.session # 0 /\ host[mcp.session].at = "ready"
  /\ host' = [host EXCEPT ![mcp.session].at = "ending"]
  /\ UNCHANGED <<mcp, call, pointer, admission, report, journal, settled, accepted, launches>>

Die ==
  /\ mcp.up
  /\ mcp' = [mcp EXCEPT !.up = FALSE, !.session = 0]
  /\ Return
  /\ UNCHANGED <<pointer, admission, host, report, journal, settled, accepted, launches>>

Connect ==
  /\ ~mcp.up /\ mcp.id < MaxMcp
  /\ mcp' = [up |-> TRUE, id |-> mcp.id + 1, session |-> 0]
  /\ UNCHANGED <<call, pointer, admission, host, report, journal, settled, accepted, launches>>

-----------------------------------------------------------------------------
(***************************************************************************)
(* The host process of session s.                                          *)
(***************************************************************************)
Become(s, p) == host' = [host EXCEPT ![s].at = p]

Boot(s) ==
  /\ host[s].at = "starting"
  /\ Become(s, "waiting")
  /\ UNCHANGED <<mcp, call, pointer, admission, report, journal, settled, accepted, launches>>

Named(s) == pointer = s

\* initialize_session_resources, then the rest of the start-up.
HostJournals(s) ==
  /\ host[s].at = "waiting" /\ s \notin journal
  /\ Named(s)
  /\ journal' = journal \cup {s}
  /\ UNCHANGED <<mcp, call, pointer, admission, host, report, settled, accepted, launches>>

HostServes(s) ==
  /\ host[s].at = "waiting" /\ s \in journal
  /\ Become(s, "ready")
  /\ report' = [report EXCEPT ![s] = "ready"]
  /\ UNCHANGED <<mcp, call, pointer, admission, journal, settled, accepted, launches>>

\* The pointer did not come in time, or the start-up failed.
HostGivesUp(s) ==
  /\ host[s].at = "waiting"
  /\ Become(s, "ended")
  /\ report' = [report EXCEPT ![s] = "failed"]
  /\ UNCHANGED <<mcp, call, pointer, admission, journal, settled, accepted, launches>>

\* Mutant: the host does not look for its parent.
ParentGone_Never(s) == FALSE

ParentGone(s) == ~mcp.up \/ mcp.id # host[s].parent

\* The loop notices, between two commands, that its MCP process is gone.
HostOrphaned(s) ==
  /\ host[s].at = "ready" /\ ParentGone(s)
  /\ Become(s, "ending")
  /\ UNCHANGED <<mcp, call, pointer, admission, report, journal, settled, accepted, launches>>

HostEnds(s) ==
  /\ host[s].at = "ending"
  /\ Become(s, "ended")
  /\ \E p \in Finished : report' = [report EXCEPT ![s] = p]
  /\ UNCHANGED <<mcp, call, pointer, admission, journal, settled, accepted, launches>>

HostDies(s) ==
  /\ Living(s)
  /\ Become(s, "ended")
  /\ UNCHANGED <<mcp, call, pointer, admission, report, journal, settled, accepted, launches>>

\* The processes a dead host left behind end, and its inputs are accounted for.
Settle(s) ==
  /\ host[s].at = "ended" /\ s \notin settled
  /\ settled' = settled \cup {s}
  /\ UNCHANGED <<mcp, call, pointer, admission, host, report, journal, accepted, launches>>

-----------------------------------------------------------------------------
Start == StartFirst \/ StartAttaches \/ StartNew

Recover == \/ LaunchUnknown \/ BeginLaunch \/ PublishAgain \/ Reattach
           \/ AttachHost \/ SettleAdmission

LaunchSession == Spawn \/ Created \/ Publish

StartUp(s) == Boot(s) \/ HostJournals(s) \/ HostServes(s) \/ HostGivesUp(s)

Next ==
  \/ Start \/ Recover \/ LaunchSession \/ CallRaises \/ Submit \/ Stop \/ Die \/ Connect
  \/ \E r \in Request : Admit(r) \/ Retry(r)
  \/ \E s \in Session : \/ StartUp(s) \/ HostOrphaned(s) \/ HostEnds(s) \/ HostDies(s)
                        \/ Settle(s)

Spec == Init /\ [][Next]_vars

\* A host's start-up is bounded by its own deadline, and its loop runs.
Fairness == \A s \in Session : WF_vars(StartUp(s)) /\ WF_vars(HostOrphaned(s))

FairSpec == Spec /\ Fairness

-----------------------------------------------------------------------------
(***************************************************************************)
(* Properties.                                                             *)
(***************************************************************************)
\* However often a recovery is retried, by however many MCP processes that
\* died between two of its writes, it launches one host at most.
OneLaunchPerRequest == \A r \in Request : launches[r] <= 1

\* An MCP process never has two serving hosts, although a launch that raised
\* leaves a host behind that no pointer names and no report tells of.
OneHostServes == Cardinality({s \in Session : host[s].at = "ready" /\ mcp.up /\ mcp.id = host[s].parent}) <= 1

\* At most one recovery is unfinished, so that a lost host has one successor.
OneUnfinished ==
  Cardinality({r \in Request : admission[r].phase \notin {"none", "ready"}}) <= 1

\* The pointer names a recovered session only when the identity of its host is
\* already on disk: a crash after the publication finds the host again.
PointerIsRecorded ==
  \A r \in Request : admission[r].new # 0 /\ pointer = admission[r].new
                        => admission[r].phase \in {"host_created", "pointer_published", "ready"}

\* No command reaches a recovered session before its admission was settled,
\* neither by the process that recovered it nor by one that attached later.
NoCommandBeforeReady ==
  \A r \in Request : admission[r].new \in accepted => admission[r].phase = "ready"

\* A recovery replaces a session only when that session's host was gone and
\* proved settled, whatever has happened since the preview it was asked with.
ReplacesOnlySettled ==
  [][\A s \in Session : (host[s].at = "none" /\ host'[s].at = "starting" /\ call.for # NoRequest)
        => pointer = Mine.source /\ ~Living(Mine.source) /\ Mine.source \in settled]_vars

\* One host for one epoch, whoever died between which of its records: launched
\* once, serving alone, found again after a crash (start_recovered_epoch,
\* SessionEpochAdmission).
OneHostPerEpoch ==
  TypeOK /\ OneLaunchPerRequest /\ OneHostServes /\ OneUnfinished /\ PointerIsRecorded

\* A session is replaced only when it is proved over, and its successor is used
\* only when it is admitted (_proved, assert_epoch_admitted).
SuccessionIsProved == []NoCommandBeforeReady /\ ReplacesOnlySettled

\* A host whose MCP process is gone, published or not, stops serving: again and
\* again no orphan serves (the parent check of main, the start-up deadline).
Orphan(s) == Living(s) /\ (~mcp.up \/ mcp.id # host[s].parent)

OrphanStopsServing == []<>(\A s \in Session : Orphan(s) => host[s].at \notin Serving)
=============================================================================
