-------------------------- MODULE InstantHttpOwner --------------------------
(***************************************************************************)
(* The HTTP front of the Runtime (app/instant_mcp_http.py) and, behind it, *)
(* the one InstantSession that starts, feeds and stops the input host      *)
(* (app/instant_mcp.py, app/core/instant_attachment_transport.py,          *)
(* app/core/instant_command_queue.py, scripts/run_local_step_session.py).  *)
(*                                                                         *)
(* Many HTTP requests are handled at once.  A short admission lock guards  *)
(* the owner, two transition flags and a count of POSTs; everything else,  *)
(* the SDK's work and the status read of a DELETE included, happens        *)
(* outside it.  A step of the model is what a handler does between two     *)
(* points where another handler can run.  A refused request changes        *)
(* nothing and is not a step.                                              *)
(***************************************************************************)
EXTENDS Integers, FiniteSets

CONSTANTS Request,    \* handlers that can be in flight at once
          Session,    \* ids the SDK can grant, each at most once
          NoSession,  \* no session header; no owner
          Command,    \* ids of commands callers submit
          Close       \* the id of the command instant_stop queues

ASSUME RequestAssumption == IsFiniteSet(Request)
ASSUME SessionAssumption == NoSession \notin Session
ASSUME CloseAssumption == Close \notin Command

VARIABLES owner,         \* _owner
          initializing,  \* _initializing
          deleting,      \* _deleting
          activePosts,   \* _active_posts
          req,           \* what each handler is doing
          sdk,           \* sessions the SDK holds open
          issued,        \* ids the SDK has granted so far
          rt             \* the InstantSession, its queue and its host

vars == <<owner, initializing, deleting, activePosts, req, sdk, issued, rt>>

InitialPC == {"init", "answered", "discard", "reply", "finally", "last", "stuck"}
PostPC == {"call", "posted"}
DeletePC == {"status", "native", "release", "deleted"}

\* The handler's local variables; settled stands for initial_committed or
\* initial_discarded, sid for the session header or, in an initialize, the
\* granted id.
Handler == [pc : {"idle", "stream"} \cup InitialPC \cup PostPC \cup DeletePC,
            sid : Session \cup {NoSession},
            settled : BOOLEAN]

Idle == [pc |-> "idle", sid |-> NoSession, settled |-> FALSE]

\* attempted is _host_start_attempted; own says that this process launched
\* the session's host.  The host is "none" before there is a session, "alive"
\* while it serves commands, "cleaning" in its finally block, "clean" when its
\* report proves the cleanup, and "lost" when it is gone without that proof.
Runtime == [attempted : BOOLEAN,
            own : BOOLEAN,
            host : {"none", "alive", "cleaning", "clean", "lost"},
            pending : SUBSET (Command \cup {Close}),
            closing : BOOLEAN]

Init ==
  /\ owner = NoSession
  /\ initializing = FALSE
  /\ deleting = FALSE
  /\ activePosts = 0
  /\ req = [r \in Request |-> Idle]
  /\ sdk = {}
  /\ issued = {}
  /\ rt = [attempted |-> FALSE, own |-> FALSE, host |-> "none", pending |-> {},
           closing |-> FALSE]

At(r, p) == req[r].pc = p
Goto(r, p) == req' = [req EXCEPT ![r].pc = p]

-----------------------------------------------------------------------------
(***************************************************************************)
(* Admission, under the lock.                                              *)
(***************************************************************************)
\* Mutant: the flag of a DELETE in progress is not looked at.
OwnerAccepts_WhileDeleting(s) == ~initializing /\ owner # NoSession /\ s = owner

\* _owner_error finds nothing to object to.
OwnerAccepts(s) == ~initializing /\ ~deleting /\ owner # NoSession /\ s = owner

\* The first initialize without a session header opens the handshake.
AdmitInitialize(r) ==
  /\ At(r, "idle")
  /\ owner = NoSession /\ ~initializing /\ ~deleting
  /\ initializing' = TRUE
  /\ activePosts' = activePosts + 1
  /\ Goto(r, "init")
  /\ UNCHANGED <<owner, deleting, sdk, issued, rt>>

\* Any other POST of the owner's session.
AdmitPost(r, s) ==
  /\ At(r, "idle")
  /\ OwnerAccepts(s)
  /\ activePosts' = activePosts + 1
  /\ req' = [req EXCEPT ![r].pc = "call", ![r].sid = s]
  /\ UNCHANGED <<owner, initializing, deleting, sdk, issued, rt>>

\* A GET stream of the owner's session is not counted.
AdmitGet(r, s) ==
  /\ At(r, "idle")
  /\ OwnerAccepts(s)
  /\ req' = [req EXCEPT ![r].pc = "stream", ![r].sid = s]
  /\ UNCHANGED <<owner, initializing, deleting, activePosts, sdk, issued, rt>>

\* Mutant: a POST in flight does not keep the DELETE out.
AdmitDelete_PostsInFlight(r, s) ==
  /\ At(r, "idle")
  /\ OwnerAccepts(s)
  /\ deleting' = TRUE
  /\ req' = [req EXCEPT ![r].pc = "status", ![r].sid = s]
  /\ UNCHANGED <<owner, initializing, activePosts, sdk, issued, rt>>

\* A DELETE of the owner's session waits for no one: it is refused while a
\* POST is in flight, and from here on keeps others out.
AdmitDelete(r, s) ==
  /\ At(r, "idle")
  /\ OwnerAccepts(s) /\ activePosts = 0
  /\ deleting' = TRUE
  /\ req' = [req EXCEPT ![r].pc = "status", ![r].sid = s]
  /\ UNCHANGED <<owner, initializing, activePosts, sdk, issued, rt>>

-----------------------------------------------------------------------------
(***************************************************************************)
(* The initialize handshake.                                               *)
(***************************************************************************)
\* The SDK answers and has opened a session for this handshake.  The answer
\* is held back: it may still carry an error.
SdkGrants(r, s) ==
  /\ At(r, "init") /\ s \notin issued
  /\ sdk' = sdk \cup {s}
  /\ issued' = issued \cup {s}
  /\ req' = [req EXCEPT ![r].pc = "answered", ![r].sid = s]
  /\ UNCHANGED <<owner, initializing, deleting, activePosts, rt>>

\* It raises after it opened the session.
SdkGrantsAndRaises(r, s) ==
  /\ At(r, "init") /\ s \notin issued
  /\ sdk' = sdk \cup {s}
  /\ issued' = issued \cup {s}
  /\ req' = [req EXCEPT ![r].pc = "finally", ![r].sid = s]
  /\ UNCHANGED <<owner, initializing, deleting, activePosts, rt>>

\* It refuses, or raises, without a session.
SdkRefuses(r) ==
  /\ At(r, "init")
  /\ Goto(r, "finally")
  /\ UNCHANGED <<owner, initializing, deleting, activePosts, sdk, issued, rt>>

\* The complete, valid result of the negotiation makes the session the owner.
CommitOwner(r) ==
  /\ At(r, "answered")
  /\ owner' = req[r].sid
  /\ req' = [req EXCEPT ![r].pc = "reply", ![r].settled = TRUE]
  /\ UNCHANGED <<initializing, deleting, activePosts, sdk, issued, rt>>

\* An error or an unusable version does not.
RejectAnswer(r) ==
  /\ At(r, "answered")
  /\ Goto(r, "discard")
  /\ UNCHANGED <<owner, initializing, deleting, activePosts, sdk, issued, rt>>

\* _discard_failed_initialize ends with 200 or 404.
Discard(r) ==
  /\ At(r, "discard")
  /\ sdk' = sdk \ {req[r].sid}
  /\ req' = [req EXCEPT ![r].pc = "reply", ![r].settled = TRUE]
  /\ UNCHANGED <<owner, initializing, deleting, activePosts, issued, rt>>

\* It raises; the finally block will try once more.
DiscardFails(r) ==
  /\ At(r, "discard")
  /\ Goto(r, "finally")
  /\ UNCHANGED <<owner, initializing, deleting, activePosts, sdk, issued, rt>>

\* The held messages are sent, or the caller is gone.
Reply(r) ==
  /\ At(r, "reply")
  /\ Goto(r, "finally")
  /\ UNCHANGED <<owner, initializing, deleting, activePosts, sdk, issued, rt>>

\* A granted session that was neither committed nor discarded.
Unsettled(r) == req[r].sid # NoSession /\ ~req[r].settled

LastDiscard(r) ==
  /\ At(r, "finally") /\ Unsettled(r)
  /\ sdk' = sdk \ {req[r].sid}
  /\ Goto(r, "last")
  /\ UNCHANGED <<owner, initializing, deleting, activePosts, issued, rt>>

\* Mutant: a failed last attempt ends the transition as if it had worked.
LastDiscardFails_Reopens(r) ==
  /\ At(r, "finally") /\ Unsettled(r)
  /\ initializing' = FALSE
  /\ activePosts' = activePosts - 1
  /\ req' = [req EXCEPT ![r] = Idle]
  /\ UNCHANGED <<owner, deleting, sdk, issued, rt>>

\* The second attempt raises out of the finally block, past the lines that
\* would end the transition: the service refuses everyone from here on.
LastDiscardFails(r) ==
  /\ At(r, "finally") /\ Unsettled(r)
  /\ Goto(r, "stuck")
  /\ UNCHANGED <<owner, initializing, deleting, activePosts, sdk, issued, rt>>

\* The end of the finally block.
EndInitialize(r) ==
  /\ At(r, "last") \/ (At(r, "finally") /\ ~Unsettled(r))
  /\ activePosts' = activePosts - 1
  /\ initializing' = FALSE
  /\ req' = [req EXCEPT ![r] = Idle]
  /\ UNCHANGED <<owner, deleting, sdk, issued, rt>>

-----------------------------------------------------------------------------
(***************************************************************************)
(* The tools a POST calls on the InstantSession, each under its guard.     *)
(***************************************************************************)
Called(r) == Goto(r, "posted")

\* _launch_session; when it raises there is a session without a host.
Launched ==
  {[attempted |-> TRUE, own |-> TRUE, host |-> h, pending |-> {}, closing |-> FALSE] :
     h \in {"alive", "lost"}}

\* The session latest-session.json names: its parent is gone, so its host has
\* left its loop, perhaps with commands unanswered.
Attached ==
  {[attempted |-> TRUE, own |-> FALSE, host |-> h, pending |-> p, closing |-> Close \in p] :
     h \in {"cleaning", "clean", "lost"}, p \in SUBSET (Command \cup {Close})}

\* Every command has its response and the report proves the cleanup.
Resolved == rt.host = "clean" /\ rt.pending = {}

\* start.  With a session at hand only new_session launches another host, and
\* only after verified cleanup.
CallStart(r) ==
  /\ At(r, "call")
  /\ \/ rt.host = "none" /\ rt' \in Launched \cup Attached
     \/ Resolved /\ rt' \in Launched
     \/ rt' = [rt EXCEPT !.attempted = TRUE]
  /\ Called(r)
  /\ UNCHANGED <<owner, initializing, deleting, activePosts, sdk, issued>>

\* enqueue_command: one command at a time, none once closing.
QueueOpen == rt.pending = {} /\ ~rt.closing

\* submit.  A host that has left its loop still reports ready for a while.
CallSubmit(r, c) ==
  /\ At(r, "call")
  /\ rt.host \in {"alive", "cleaning"} /\ QueueOpen
  /\ rt' = [rt EXCEPT !.pending = {c}]
  /\ Called(r)
  /\ UNCHANGED <<owner, initializing, deleting, activePosts, sdk, issued>>

\* stop writes the marker and queues the close command, once.
CallStop(r) ==
  /\ At(r, "call")
  /\ rt.host \in {"alive", "cleaning"} /\ ~rt.closing
  /\ rt' = [rt EXCEPT !.closing = TRUE, !.pending = @ \cup {Close}]
  /\ Called(r)
  /\ UNCHANGED <<owner, initializing, deleting, activePosts, sdk, issued>>

\* A tool that reads, a tool that refuses, a notification, an SDK error.
CallOther(r) ==
  /\ At(r, "call")
  /\ Called(r)
  /\ UNCHANGED <<owner, initializing, deleting, activePosts, sdk, issued, rt>>

EndPost(r) ==
  /\ At(r, "posted")
  /\ activePosts' = activePosts - 1
  /\ req' = [req EXCEPT ![r] = Idle]
  /\ UNCHANGED <<owner, initializing, deleting, sdk, issued, rt>>

EndGet(r) ==
  /\ At(r, "stream")
  /\ req' = [req EXCEPT ![r] = Idle]
  /\ UNCHANGED <<owner, initializing, deleting, activePosts, sdk, issued, rt>>

-----------------------------------------------------------------------------
(***************************************************************************)
(* DELETE.                                                                 *)
(***************************************************************************)
\* What status() must say before the owner may go: no host was ever tried in
\* this process, or the host is gone, its cleanup proved, its queue empty.
Cleaned == Resolved \/ (rt.host = "none" /\ ~rt.attempted)

DeleteChecks(r) ==
  /\ At(r, "status")
  /\ Goto(r, IF Cleaned THEN "native" ELSE "deleted")
  /\ UNCHANGED <<owner, initializing, deleting, activePosts, sdk, issued, rt>>

\* The SDK closes the session and is about to answer 2xx.
SdkDeletes(r) ==
  /\ At(r, "native")
  /\ sdk' = sdk \ {req[r].sid}
  /\ Goto(r, "release")
  /\ UNCHANGED <<owner, initializing, deleting, activePosts, issued, rt>>

\* It answers otherwise, or raises, before or after it closed the session.
SdkDeleteFails(r) ==
  /\ At(r, "native")
  /\ sdk' \in {sdk, sdk \ {req[r].sid}}
  /\ Goto(r, "deleted")
  /\ UNCHANGED <<owner, initializing, deleting, activePosts, issued, rt>>

\* released_send: only the start of a 2xx answer releases the owner.
ReleaseOwner(r) ==
  /\ At(r, "release")
  /\ owner' = NoSession
  /\ Goto(r, "deleted")
  /\ UNCHANGED <<initializing, deleting, activePosts, sdk, issued, rt>>

\* Mutant: only a DELETE that released the owner lowers the flag.
EndDelete_OnlyReleased(r) ==
  /\ At(r, "deleted")
  /\ deleting' = (owner # NoSession)
  /\ req' = [req EXCEPT ![r] = Idle]
  /\ UNCHANGED <<owner, initializing, activePosts, sdk, issued, rt>>

EndDelete(r) ==
  /\ At(r, "deleted")
  /\ deleting' = FALSE
  /\ req' = [req EXCEPT ![r] = Idle]
  /\ UNCHANGED <<owner, initializing, activePosts, sdk, issued, rt>>

-----------------------------------------------------------------------------
(***************************************************************************)
(* The host process.                                                       *)
(***************************************************************************)
HostUnchanged == UNCHANGED <<owner, initializing, deleting, activePosts, req, sdk, issued>>

\* Mutant: the close command is answered in its turn in the directory.
HostAnswers_CloseFirst(c) ==
  /\ rt.host = "alive" /\ c \in rt.pending
  /\ rt' = [rt EXCEPT !.pending = @ \ {c},
                      !.host = IF c = Close THEN "cleaning" ELSE @]
  /\ HostUnchanged

\* The command loop answers one command; the close command, sorted last, ends
\* the loop.
HostAnswers(c) ==
  /\ rt.host = "alive" /\ c \in rt.pending
  /\ c = Close => rt.pending = {Close}
  /\ rt' = [rt EXCEPT !.pending = @ \ {c},
                      !.host = IF c = Close THEN "cleaning" ELSE @]
  /\ HostUnchanged

HostCleans ==
  /\ rt.host = "cleaning"
  /\ rt' = [rt EXCEPT !.host = "clean"]
  /\ HostUnchanged

\* It dies, or its finally block cannot prove the cleanup.
HostLost ==
  /\ rt.host \in {"alive", "cleaning"}
  /\ rt' = [rt EXCEPT !.host = "lost"]
  /\ HostUnchanged

-----------------------------------------------------------------------------
Handles(r) ==
  \/ \E s \in Session : SdkGrants(r, s) \/ SdkGrantsAndRaises(r, s)
  \/ SdkRefuses(r) \/ CommitOwner(r) \/ RejectAnswer(r)
  \/ Discard(r) \/ DiscardFails(r) \/ Reply(r)
  \/ LastDiscard(r) \/ LastDiscardFails(r) \/ EndInitialize(r)
  \/ DeleteChecks(r) \/ SdkDeletes(r) \/ SdkDeleteFails(r)
  \/ ReleaseOwner(r) \/ EndDelete(r)

Calls(r) ==
  \/ CallStart(r) \/ CallStop(r) \/ CallOther(r) \/ EndPost(r)
  \/ \E c \in Command : CallSubmit(r, c)

Arrives(r) ==
  \/ AdmitInitialize(r)
  \/ \E s \in Session : AdmitPost(r, s) \/ AdmitGet(r, s) \/ AdmitDelete(r, s)

HostStep == HostCleans \/ HostLost \/ \E c \in Command \cup {Close} : HostAnswers(c)

Next == HostStep \/ \E r \in Request : Handles(r) \/ Calls(r) \/ Arrives(r) \/ EndGet(r)

Spec == Init /\ [][Next]_vars

\* A handler that holds a transition flag goes on: the SDK answers and the
\* event loop is fair.  Nobody is assumed to send another request, and no
\* tool call, GET stream or host is assumed to end.
Fairness == \A r \in Request : WF_vars(Handles(r))

FairSpec == Spec /\ Fairness

-----------------------------------------------------------------------------
(***************************************************************************)
(* Properties.                                                             *)
(***************************************************************************)
TypeOK ==
  /\ owner \in Session \cup {NoSession}
  /\ initializing \in BOOLEAN
  /\ deleting \in BOOLEAN
  /\ activePosts \in 0 .. Cardinality(Request)
  /\ req \in [Request -> Handler]
  /\ sdk \subseteq Session
  /\ issued \subseteq Session
  /\ rt \in Runtime

Active == {r \in Request : req[r].pc \in InitialPC \cup PostPC}

\* A tool call on the input Runtime runs for the session that owns it now,
\* however long ago the POST was admitted: no handshake and no DELETE can
\* replace or release the owner under a call.
CallsBelongToOwner ==
  \A r \in Request : req[r].pc \in PostPC =>
    req[r].sid = owner /\ owner # NoSession /\ ~deleting

\* A failed handshake leaves no SDK session that a request could use: while
\* one is open that is not the owner's, the handshake that opened it still
\* holds the transition and admission refuses everyone, even for good when the
\* session cannot be closed.
OrphanSessionsAreFenced ==
  sdk \subseteq {owner} \/ initializing

\* The count the DELETE relies on is the number of POSTs really in flight.
PostsAreCounted == activePosts = Cardinality(Active)

\* When the owner is released the Runtime is at rest at that moment, not only
\* when status was read: nothing pending, no host alive, cleanup proved or no
\* host ever tried, and no POST in flight.
ReleaseLeavesNothingRunning ==
  [][owner # NoSession /\ owner' = NoSession => Cleaned /\ Active = {}]_vars

\* A host this process launched and that cleaned up left no command behind:
\* what was submitted before the close command was answered before the host
\* left its loop, and nothing was submitted after.
CleanHostAnsweredAll == rt.own /\ rt.host \in {"cleaning", "clean"} => rt.pending = {}

\* Both transitions end: a DELETE always lowers its flag, a handshake does
\* unless its session could not be closed twice.
TransitionsEnd ==
  /\ deleting ~> ~deleting
  /\ initializing ~> (~initializing \/ \E r \in Request : At(r, "stuck"))

=============================================================================
