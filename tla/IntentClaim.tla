----------------------------- MODULE IntentClaim -----------------------------
(***************************************************************************)
(* The durable claim of one runtime intent: RuntimeIntentClaimStore        *)
(* (src/app/agent/runtime_intent_claim_store.py) and the LiveControllers   *)
(* (src/app/agent/live_controller.py) that drive it.                       *)
(*                                                                         *)
(* One observation of one session is claimed by one intent.  The claim's   *)
(* life is a set of marker files, each published once and never replaced;  *)
(* every operation of the store runs under the claim's file lock, so it is *)
(* one step here.  Controllers live in processes of their own: they share  *)
(* the markers, not their locks, sessions or window leases, and each can   *)
(* die at any step and start again with none of them.                      *)
(*                                                                         *)
(* A claim takes one of two roads: "legacy", where the intent runs at once *)
(* or after a confirmation by identity, and "grounded", where a preview is *)
(* reviewed before its one execution is consumed.                          *)
(***************************************************************************)
EXTENDS Naturals, FiniteSets

CONSTANTS
  Controller,   \* the LiveController instances, a process each
  Creator,      \* the one that opened the session
  MaxCrash,     \* how often each process may die
  MaxFault      \* how many store calls may raise though nothing forbids them

ASSUME ConstantsAssumption ==
  /\ Creator \in Controller
  /\ MaxCrash \in Nat
  /\ MaxFault \in Nat

VARIABLES
  store,        \* the marker files and the receipt of the claim
  expired,      \* the confirmation's time to live is over
  inputs,       \* how often the backend really sent the input
  boot,         \* per controller: its incarnation, the store's owner id
  session,      \* per controller: its entry in _sessions
  published,    \* per controller: its entry in _grounded_publications
  lease,        \* per controller: who holds the target window
  job,          \* per controller and slot: the call in progress
  faults        \* store calls that raised so far

vars == <<store, expired, inputs, boot, session, published, lease, job, faults>>
local == <<boot, session, published, lease>>

\* "free" runs outside the controller's lock (a fresh intent), "locked" under it
Slot == {"free", "locked"}

Legacy == {"request", "resume", "closed", "dispatch", "pending", "terminal"}
Review == {"g_request", "g_closed", "g_consume"}
Mark == {"claim"} \cup Legacy \cup Review
Decision == {"none", "approved", "denied"}
\* attempt_count 0 (BLOCKED, SAFE_STOP), not sent, result lost, verified or not
Receipt == {"none", "blocked", "failed", "lost", "semantic"}
Owner == Controller \X (0 .. MaxCrash)

Road == {"claim", "resume", "recheck", "grounded", "g_recheck"}
Place == {"idle", "approved", "execute", "mark", "dispatch", "checkpoint",
          "verify", "persist", "done", "end", "publish", "review", "preview",
          "consume", "release"}

Idle == [at |-> "idle", road |-> "claim", receipt |-> "none"]

Init ==
  /\ store = [marks |-> {}, decision |-> "none", review |-> "none",
              owner |-> <<Creator, 0>>, receipt |-> "none"]
  /\ expired = FALSE
  /\ inputs = 0
  /\ boot = [k \in Controller |-> 0]
  /\ session = [k \in Controller |-> IF k = Creator THEN "ready" ELSE "none"]
  /\ published = [k \in Controller |-> FALSE]
  /\ lease = [k \in Controller |-> IF k = Creator THEN "session" ELSE "none"]
  /\ job = [k \in Controller |-> [s \in Slot |-> Idle]]
  /\ faults = 0

-----------------------------------------------------------------------------
(* What the marker files say. *)

Grounded(st) == st.marks \cap Review # {}
With(st, m) == [st EXCEPT !.marks = @ \cup m]
Has(st, m) == m \in st.marks

\* get_for_observation on the grounded road: a receipt without its terminal
\* marker counts only when the verification marker is there
ReviewPhase(st) ==
  CASE Has(st, "g_consume") ->
         (CASE Has(st, "terminal") -> "terminal"
            [] ~Has(st, "terminal") /\ Has(st, "pending")
                 -> IF st.receipt # "none" THEN "terminal" ELSE "verification_pending"
            [] ~Has(st, "terminal") /\ ~Has(st, "pending")
                 -> IF Has(st, "dispatch") THEN "dispatch_started" ELSE "consume_started")
    [] ~Has(st, "g_consume") /\ Has(st, "g_closed") -> "review_closed"
    [] ~Has(st, "g_consume") /\ ~Has(st, "g_closed")
         -> CASE st.review = "none" -> "review_pending"
              [] st.review = "approved" -> "review_approved"
              [] st.review = "denied" -> "review_denied"

\* get_for_observation otherwise: the furthest marker wins
LegacyPhase(st) ==
  CASE st.receipt # "none" -> "terminal"
    [] st.receipt = "none" /\ Has(st, "pending") -> "verification_pending"
    [] st.receipt = "none" /\ ~Has(st, "pending") /\ Has(st, "dispatch") -> "dispatch_started"
    [] st.receipt = "none" /\ st.marks \cap {"pending", "dispatch"} = {}
         -> CASE Has(st, "closed") -> "confirmation_closed"
              [] ~Has(st, "closed") /\ Has(st, "resume") -> "resume_started"
              [] st.marks \cap {"closed", "resume"} = {}
                   -> CASE st.decision = "approved" -> "confirmation_approved"
                        [] st.decision = "denied" -> "confirmation_denied"
                        [] st.decision = "none"
                             -> IF Has(st, "request") THEN "confirmation_pending" ELSE "claimed"

Phase(st) ==
  CASE ~Has(st, "claim") -> "none"
    [] Has(st, "claim") /\ Grounded(st) -> ReviewPhase(st)
    [] Has(st, "claim") /\ ~Grounded(st) -> LegacyPhase(st)

\* reading a claim publishes the terminal marker its receipt still lacks
Read(st) == IF Phase(st) = "terminal" THEN With(st, {"terminal"}) ELSE st

-----------------------------------------------------------------------------
(* The store's operations: when each one accepts, and what it publishes. *)

\* mark_confirmation_pending, called before anything was attempted
CanRequest(st) ==
  /\ ~Grounded(st)
  /\ st.marks \cap {"request", "dispatch", "terminal"} = {}
  /\ st.receipt = "none"

\* begin_confirmation_resume: one resume, of an approved and unexpired request
CanResume(st) ==
  /\ ~Grounded(st)
  /\ st.decision = "approved"
  /\ ~Has(st, "closed") => ~Has(st, "resume")
AfterResume(st) ==
  CASE Has(st, "closed") -> st
    [] ~Has(st, "closed") /\ expired -> With(st, {"closed"})
    [] ~Has(st, "closed") /\ ~expired -> With(st, {"resume"})

\* close_confirmation: never after the dispatch marker
CanClose(st) ==
  /\ ~Grounded(st)
  /\ Has(st, "request")
  /\ st.marks \cap {"dispatch", "pending", "terminal"} = {}
  /\ st.receipt = "none"

\* record_confirmation_decision
CanDecide(st, d) == ~Grounded(st) /\ Has(st, "request") /\ st.decision \in {"none", d}
AfterDecide(st, d) ==
  CASE Has(st, "closed") \/ Has(st, "resume") -> st
    [] st.marks \cap {"closed", "resume"} = {} /\ expired -> With(st, {"closed"})
    [] st.marks \cap {"closed", "resume"} = {} /\ ~expired -> [st EXCEPT !.decision = d]

\* mutant: the confirmation's phase is not read again before the dispatch
CanMark_AnyPhase(st, road) ==
  /\ st.marks \cap {"pending", "terminal"} = {}
  /\ st.receipt = "none"
  /\ IF road = "grounded" THEN Has(st, "g_consume") ELSE Has(st, "claim") /\ ~Grounded(st)
\* mark_dispatch_started and mark_grounded_dispatch_started: a marker with the
\* same bytes is accepted again, so who may call it is what keeps it single
CanMark(st, road) ==
  /\ st.marks \cap {"pending", "terminal"} = {}
  /\ st.receipt = "none"
  /\ IF road = "grounded"
     THEN Has(st, "g_consume")
     ELSE /\ Has(st, "claim") /\ ~Grounded(st)
          /\ Has(st, "request") => Phase(st) = "resume_started"

\* mark_verification_pending and mark_grounded_verification_pending
CanCheckpoint(st, road) ==
  /\ IF road = "grounded" THEN Has(st, "g_consume") ELSE ~Grounded(st)
  /\ Has(st, "dispatch")
  /\ st.marks \cap {"pending", "terminal"} = {}
  /\ st.receipt = "none"

\* persist_terminal and persist_grounded_terminal: the receipt must fit the
\* markers, and the receipt store takes one receipt per intent
CanPersist(st, road, r) ==
  /\ IF road \in {"grounded", "g_recheck"}
     THEN Has(st, "g_consume")
     ELSE /\ ~Grounded(st)
          /\ Has(st, "request") => /\ ~Has(st, "closed")
                                   /\ st.decision = "approved"
                                   /\ Has(st, "resume")
  /\ (r = "blocked") <=> ~Has(st, "dispatch")
  /\ (r = "semantic") <=> Has(st, "pending")
  /\ st.receipt = "none"
Received(st, r) == [st EXCEPT !.receipt = r]

\* mark_grounded_confirmation_pending
CanReview(st) ==
  /\ Has(st, "claim")
  /\ ~Has(st, "g_consume")
  /\ st.marks \cap Legacy = {}
  /\ st.receipt = "none"
AfterReview(st, k) ==
  IF Has(st, "g_request") THEN st
  ELSE [With(st, {"g_request"}) EXCEPT !.owner = <<k, boot[k]>>]

\* record_grounded_confirmation_decision
CanJudge(st, d) ==
  /\ Has(st, "g_request") /\ ~Has(st, "g_consume")
  /\ st.marks \cap Legacy = {}
  /\ st.receipt = "none"
  /\ IF Has(st, "g_closed") THEN st.review = d ELSE st.review \in {"none", d}
AfterJudge(st, d, k) ==
  LET changed == st.owner # <<k, boot[k]>> IN
  CASE Has(st, "g_closed") \/ st.review = "denied" -> st
    [] ~Has(st, "g_closed") /\ st.review = "approved"
         -> IF changed \/ expired THEN With(st, {"g_closed"}) ELSE st
    [] ~Has(st, "g_closed") /\ st.review = "none"
         -> IF expired \/ (changed /\ d = "approved") THEN With(st, {"g_closed"})
            ELSE [st EXCEPT !.review = d]

\* close_grounded_confirmation
CanCloseReview(st) ==
  /\ Has(st, "g_request") /\ ~Has(st, "g_consume")
  /\ st.marks \cap Legacy = {}
  /\ st.receipt = "none"
  /\ st.review # "denied"

\* _get_grounded_execution_evidence and begin_grounded_confirmation_consume
CanConsume(st, k) ==
  /\ Has(st, "g_request")
  /\ st.marks \cap {"g_closed", "g_consume", "dispatch", "pending", "terminal"} = {}
  /\ st.review = "approved"
  /\ st.owner = <<k, boot[k]>>
  /\ ~expired
  /\ st.receipt = "none"

-----------------------------------------------------------------------------
(* A call of the store by a job: accepted, refused, or lost in a fault. *)

Start(k, s, at, road) ==
  job' = [job EXCEPT ![k][s] = IF at = "idle" THEN Idle
                               ELSE [at |-> at, road |-> road, receipt |-> "none"]]
Go(k, s, at) == Start(k, s, at, job[k][s].road)
Rest(k, s) == job' = [job EXCEPT ![k][s] = Idle]
Free(k, s) == job[k][s].at = "idle"

\* the exception of a failed call ends the road: the legacy ones unwind
\* through their finally block, the grounded ones just return
Failure(road) == IF road \in {"grounded", "g_recheck"} THEN "idle" ELSE "end"

\* a call can raise before its marker is written (the lock's timeout, the
\* disk), or after it is durable (the read that follows it)
Raise(can, new) ==
  /\ faults < MaxFault /\ faults' = faults + 1
  /\ store' \in {store} \cup (IF can THEN {new} ELSE {})
Call(can, new) ==
  \/ can /\ store' = new /\ UNCHANGED faults
  \/ Raise(can, new)
Step(k, s, can, new, next) ==
  \/ can /\ store' = new /\ Go(k, s, next) /\ UNCHANGED faults
  \/ ~can /\ Go(k, s, Failure(job[k][s].road)) /\ UNCHANGED <<store, faults>>
  \/ Raise(can, new) /\ Go(k, s, Failure(job[k][s].road))

-----------------------------------------------------------------------------
(* submit_intent and the legacy road. *)

\* the session's first submit: claim, then run outside the lock
SubmitNew(k) ==
  /\ Free(k, "locked") /\ session[k] = "ready" /\ ~published[k]
  /\ ~Has(store, "claim")
  /\ \/ /\ store' = With(store, {"claim"})
        /\ session' = [session EXCEPT ![k] = "consumed"]
        /\ Start(k, "free", "execute", "claim")
        /\ UNCHANGED <<lease, faults>>
     \/ \* the claim raised: it is found durable, or the lookup raised as well
        /\ faults < MaxFault /\ faults' = faults + 1
        /\ store' \in {store, With(store, {"claim"})}
        /\ session' = [session EXCEPT ![k] = "consumed"]
        /\ lease' = [lease EXCEPT ![k] = "none"]
        /\ UNCHANGED job
     \/ \* the claim raised and the lookup finds nothing
        /\ faults < MaxFault /\ faults' = faults + 1
        /\ UNCHANGED <<store, session, lease, job>>
  /\ UNCHANGED <<expired, inputs, boot, published>>

\* the session was spent on a claim that never became durable
SubmitSpent(k) ==
  /\ Free(k, "locked") /\ session[k] = "consumed" /\ ~published[k]
  /\ ~Has(store, "claim")
  /\ lease' = [lease EXCEPT ![k] = "none"]
  /\ UNCHANGED <<store, expired, inputs, boot, session, published, job, faults>>

\* abandon_session: an unused session, no claim
Abandon(k) ==
  /\ Free(k, "locked") /\ session[k] = "ready" /\ ~Has(store, "claim")
  /\ session' = [session EXCEPT ![k] = "none"]
  /\ lease' = [lease EXCEPT ![k] = "none"]
  /\ UNCHANGED <<store, expired, inputs, boot, published, job, faults>>

\* _recover_existing_claim, for every phase it only reports
SubmitKnown(k) ==
  /\ Free(k, "locked") /\ Has(store, "claim") /\ ~published[k]
  /\ Phase(store) \notin {"confirmation_approved", "verification_pending"}
     \/ Grounded(store)
  /\ store' = Read(store)
  /\ session' = [session EXCEPT ![k] = IF @ = "ready" THEN "consumed" ELSE @]
  /\ lease' = [lease EXCEPT ![k] =
                 IF /\ @ = "session"
                    /\ session[k] = "ready" \/ Phase(store) = "terminal"
                 THEN "none" ELSE @]
  /\ UNCHANGED <<expired, inputs, boot, published, job, faults>>

\* the phase it read is approved: it is acted on later, in _resume_confirmed_claim
SubmitApproved(k) ==
  /\ Free(k, "locked") /\ Has(store, "claim") /\ ~published[k]
  /\ Phase(store) = "confirmation_approved"
  /\ Start(k, "locked", "approved", "resume")
  /\ UNCHANGED <<store, expired, inputs, local, faults>>

\* _resume_confirmed_claim: a binding or asset that changed closes the
\* confirmation; otherwise the window is leased and the resume is begun
ResumeStale(k) ==
  /\ job[k]["locked"].at = "approved"
  /\ Step(k, "locked", CanClose(store), With(store, {"closed"}), "end")
  /\ UNCHANGED <<expired, inputs, local>>
Resume(k) ==
  /\ job[k]["locked"].at = "approved"
  /\ IF lease[k] # "none"
     THEN Rest(k, "locked") /\ UNCHANGED <<store, lease, faults>>
     ELSE /\ lease' = [lease EXCEPT ![k] = "job"]
          /\ Step(k, "locked", CanResume(store), AfterResume(store),
                  IF Has(AfterResume(store), "closed") THEN "end" ELSE "execute")
  /\ UNCHANGED <<expired, inputs, boot, session, published>>

\* _recover_verification_pending: verify again, never dispatch again
Recheck(k) ==
  /\ Free(k, "locked") /\ ~published[k]
  /\ Phase(store) = "verification_pending" /\ ~Grounded(store)
  /\ lease[k] = "none"
  /\ lease' = [lease EXCEPT ![k] = "job"]
  /\ Start(k, "locked", "verify", "recheck")
  /\ UNCHANGED <<store, expired, inputs, boot, session, published, faults>>

\* record_confirmation_decision: any controller, without its lock
Decide(d) ==
  /\ Call(CanDecide(store, d), AfterDecide(store, d))
  /\ UNCHANGED <<expired, inputs, local, job>>

-----------------------------------------------------------------------------
(* _execute_accepted_intent and _dispatch_validated_grounding. *)

\* capture, selection, grounding and gate: an early receipt, a decision for
\* the caller, or an action that may be dispatched
Execute(k, s) ==
  /\ job[k][s].at = "execute"
  /\ \/ Go(k, s, "end")
     \/ job' = [job EXCEPT ![k][s].at = "persist", ![k][s].receipt = "blocked"]
     \/ /\ job[k][s].road = "resume" => Phase(store) = "resume_started"
        /\ Go(k, s, "mark")
  /\ UNCHANGED <<store, expired, inputs, local, faults>>
\* the transition needs a human: mark_confirmation_pending
AskHuman(k, s) ==
  /\ job[k][s].at = "execute" /\ job[k][s].road = "claim"
  /\ Step(k, s, CanRequest(store), With(store, {"request"}), "end")
  /\ UNCHANGED <<expired, inputs, local>>
\* the target process changed under a confirmation
CloseChanged(k, s) ==
  /\ job[k][s].at = "execute" /\ job[k][s].road = "resume"
  /\ Step(k, s, CanClose(store), With(store, {"closed"}), "end")
  /\ UNCHANGED <<expired, inputs, local>>

MarkDispatch(k, s) ==
  /\ job[k][s].at = "mark"
  /\ Step(k, s, CanMark(store, job[k][s].road), With(store, {"dispatch"}), "dispatch")
  /\ UNCHANGED <<expired, inputs, local>>

\* _dispatch_command_once: a lost result is "indeterminate", never a retry
BackendOutcome == {[sent |-> 1, at |-> "checkpoint", receipt |-> "none"],
                   [sent |-> 0, at |-> "persist", receipt |-> "failed"],
                   [sent |-> 0, at |-> "persist", receipt |-> "lost"],
                   [sent |-> 1, at |-> "persist", receipt |-> "lost"]}
Dispatch(k, s) ==
  /\ job[k][s].at = "dispatch"
  /\ \E o \in BackendOutcome :
       /\ inputs' = inputs + o.sent
       /\ job' = [job EXCEPT ![k][s].at = o.at, ![k][s].receipt = o.receipt]
  /\ UNCHANGED <<store, expired, local, faults>>

Checkpoint(k, s) ==
  /\ job[k][s].at = "checkpoint"
  /\ Step(k, s, CanCheckpoint(store, job[k][s].road), With(store, {"pending"}), "verify")
  /\ UNCHANGED <<expired, inputs, local>>

\* _verify_pending_checkpoint: a verdict, or captures that cannot be trusted
Verify(k, s) ==
  /\ job[k][s].at = "verify"
  /\ job' = [job EXCEPT ![k][s].at = "persist", ![k][s].receipt = "semantic"]
  /\ UNCHANGED <<store, expired, inputs, local, faults>>
VerifyFails(k, s) ==
  /\ job[k][s].at = "verify"
  /\ Go(k, s, Failure(job[k][s].road))
  /\ UNCHANGED <<store, expired, inputs, local, faults>>

Persist(k, s) ==
  /\ job[k][s].at = "persist"
  /\ LET j == job[k][s] IN
     Step(k, s, CanPersist(store, j.road, j.receipt),
          With(Received(store, j.receipt), {"terminal"}), "done")
  /\ UNCHANGED <<expired, inputs, local>>

\* mutant: a resumed call keeps the window when it ends
Finish_KeepsWindow(k, s) ==
  /\ job[k][s].at \in {"end", "done"}
  /\ job[k][s].road \in {"claim", "resume", "recheck"}
  /\ session' = [session EXCEPT ![k] = IF job[k][s].road = "claim" THEN "none" ELSE @]
  /\ lease' = [lease EXCEPT ![k] =
                 IF job[k][s].road # "resume" /\ @ \in {"session", "job"} THEN "none" ELSE @]
  /\ Rest(k, s)
  /\ UNCHANGED <<store, expired, inputs, boot, published, faults>>
\* the finally blocks of the legacy roads
Finish(k, s) ==
  /\ job[k][s].at \in {"end", "done"}
  /\ job[k][s].road \in {"claim", "resume", "recheck"}
  /\ session' = [session EXCEPT ![k] = IF job[k][s].road = "claim" THEN "none" ELSE @]
  /\ lease' = [lease EXCEPT ![k] =
                 IF @ = (IF job[k][s].road = "claim" THEN "session" ELSE "job")
                 THEN "none" ELSE @]
  /\ Rest(k, s)
  /\ UNCHANGED <<store, expired, inputs, boot, published, faults>>

-----------------------------------------------------------------------------
(* The grounded road, all of it under the controller's lock. *)

\* request_grounded_confirmation: the context is frozen before any write
RequestReview(k) ==
  /\ Free(k, "locked")
  /\ \/ published[k]
     \/ ~published[k] /\ session[k] = "ready" /\ ~Has(store, "claim")
  /\ published' = [published EXCEPT ![k] = TRUE]
  /\ session' = [session EXCEPT ![k] = "consumed"]
  /\ Start(k, "locked", "publish", "grounded")
  /\ UNCHANGED <<store, expired, inputs, boot, lease, faults>>
PublishClaim(k) ==
  /\ job[k]["locked"].at = "publish"
  /\ Step(k, "locked", ~Has(store, "request"), With(store, {"claim"}), "review")
  /\ UNCHANGED <<expired, inputs, local>>
AfterVerdict(st) ==
  IF Phase(st) \in {"review_denied", "review_closed"} THEN "release" ELSE "idle"
PublishReview(k) ==
  /\ job[k]["locked"].at = "review"
  /\ Step(k, "locked", CanReview(store), AfterReview(store, k),
          AfterVerdict(AfterReview(store, k)))
  /\ UNCHANGED <<expired, inputs, local>>

\* record_grounded_confirmation_decision, only with the owner's context
Judge(k, d) ==
  /\ Free(k, "locked") /\ published[k] /\ Has(store, "g_request")
  /\ \/ /\ CanJudge(store, d) /\ store' = AfterJudge(store, d, k) /\ UNCHANGED faults
        /\ Start(k, "locked", AfterVerdict(AfterJudge(store, d, k)), "grounded")
     \/ Raise(CanJudge(store, d), AfterJudge(store, d, k)) /\ UNCHANGED job
  /\ UNCHANGED <<expired, inputs, local>>

\* cancel_grounded_review: "先关闭持久事实，再释放确切窗口 lease"
CanCancel(st, k) ==
  \/ ~Has(st, "claim")
  \/ Phase(st) \in {"review_denied", "review_closed"}
  \/ CanReview(st) /\ CanCloseReview(AfterReview(st, k))
AfterCancel(st, k) ==
  IF ~Has(st, "claim") \/ Phase(st) \in {"review_denied", "review_closed"} THEN st
  ELSE With(AfterReview(st, k), {"g_closed"})
\* mutant: the window is released although the close did not become durable
Cancel_Releases(k) ==
  /\ \/ Free(k, "locked") \/ job[k]["locked"].at = "preview"
  /\ published[k]
  /\ Call(CanCancel(store, k), AfterCancel(store, k))
  /\ Start(k, "locked", "release", "grounded")
  /\ UNCHANGED <<expired, inputs, local>>
Cancel(k) ==
  /\ \/ Free(k, "locked") \/ job[k]["locked"].at = "preview"
  /\ published[k]
  /\ \/ /\ CanCancel(store, k) /\ store' = AfterCancel(store, k) /\ UNCHANGED faults
        /\ Start(k, "locked", "release", "grounded")
     \/ ~CanCancel(store, k) /\ Rest(k, "locked") /\ UNCHANGED <<store, faults>>
     \/ Raise(CanCancel(store, k), AfterCancel(store, k)) /\ Rest(k, "locked")
  /\ UNCHANGED <<expired, inputs, local>>

\* another process closes the review: AgentRuntimeCallsite's close (cancelled)
\* or the history's (restarted)
CloseElsewhere(k) ==
  /\ Free(k, "locked") /\ ~published[k] /\ Has(store, "g_request")
  /\ Call(CanCloseReview(store), With(store, {"g_closed"}))
  /\ UNCHANGED <<expired, inputs, local, job>>

\* _release_grounded_session
Release(k) ==
  /\ job[k]["locked"].at = "release"
  /\ session' = [session EXCEPT ![k] = "none"]
  /\ published' = [published EXCEPT ![k] = FALSE]
  /\ lease' = [lease EXCEPT ![k] = "none"]
  /\ Rest(k, "locked")
  /\ UNCHANGED <<store, expired, inputs, boot, faults>>

\* consume_grounded_confirmation, by the phase it reads: approved, with the
\* decision recorded once more
Consume(k) ==
  /\ Free(k, "locked") /\ published[k]
  /\ Phase(store) = "review_approved"
  /\ \/ /\ CanJudge(store, "approved") /\ store' = AfterJudge(store, "approved", k)
        /\ Start(k, "locked",
                 IF Phase(store') = "review_closed" THEN "release" ELSE "preview",
                 "grounded")
        /\ UNCHANGED faults
     \/ /\ Raise(CanJudge(store, "approved"), AfterJudge(store, "approved", k))
        /\ UNCHANGED job
  /\ UNCHANGED <<expired, inputs, local>>
\* the fresh capture, selection, grounding and gate agree with the preview and
\* the store issues the execution evidence; anything stale is Cancel
Preview(k) ==
  /\ job[k]["locked"].at = "preview"
  /\ \/ CanConsume(store, k) /\ Go(k, "locked", "consume")
     \/ Rest(k, "locked")
  /\ UNCHANGED <<store, expired, inputs, local, faults>>
BeginConsume(k) ==
  /\ job[k]["locked"].at = "consume"
  /\ Step(k, "locked", CanConsume(store, k), With(store, {"g_consume"}), "mark")
  /\ UNCHANGED <<expired, inputs, local>>
\* terminal: the window kept for the review, or for its recovery, is released
ConsumeTerminal(k) ==
  /\ Free(k, "locked") /\ Grounded(store) /\ Phase(store) = "terminal"
  /\ store' = Read(store)
  /\ lease' = [lease EXCEPT ![k] =
                 IF published[k] \/ @ = "recovery" THEN "none" ELSE @]
  /\ session' = [session EXCEPT ![k] = IF published[k] THEN "none" ELSE @]
  /\ published' = [published EXCEPT ![k] = FALSE]
  /\ UNCHANGED <<expired, inputs, boot, job, faults>>
\* verification pending: with the owner's context, or with a recovery session
\* that keeps the window until it succeeds
ConsumePending(k) ==
  /\ Free(k, "locked") /\ Grounded(store) /\ Phase(store) = "verification_pending"
  /\ published[k] \/ lease[k] \in {"none", "recovery"}
  /\ lease' = [lease EXCEPT ![k] = IF published[k] THEN @ ELSE "recovery"]
  /\ Start(k, "locked", "verify", "g_recheck")
  /\ UNCHANGED <<store, expired, inputs, boot, session, published, faults>>
\* the grounded tail after its receipt is durable
FinishReview(k) ==
  /\ job[k]["locked"].at = "done"
  /\ job[k]["locked"].road \in {"grounded", "g_recheck"}
  /\ lease' = [lease EXCEPT ![k] = "none"]
  /\ session' = [session EXCEPT ![k] = IF published[k] THEN "none" ELSE @]
  /\ published' = [published EXCEPT ![k] = FALSE]
  /\ Rest(k, "locked")
  /\ UNCHANGED <<store, expired, inputs, boot, faults>>

-----------------------------------------------------------------------------
(* Time and death. *)

Expire ==
  /\ ~expired /\ store.marks \cap {"request", "g_request"} # {}
  /\ expired' = TRUE
  /\ UNCHANGED <<store, inputs, local, job, faults>>

Die(k) ==
  /\ boot[k] < MaxCrash
  /\ boot' = [boot EXCEPT ![k] = @ + 1]
  /\ session' = [session EXCEPT ![k] = "none"]
  /\ published' = [published EXCEPT ![k] = FALSE]
  /\ lease' = [lease EXCEPT ![k] = "none"]
  /\ job' = [job EXCEPT ![k] = [s \in Slot |-> Idle]]
  /\ UNCHANGED <<expired, inputs, faults>>
Crash(k) == Die(k) /\ UNCHANGED store
\* between the receipt and its terminal marker
CrashInPersist(k, s) ==
  /\ job[k][s].at = "persist"
  /\ CanPersist(store, job[k][s].road, job[k][s].receipt)
  /\ store' = Received(store, job[k][s].receipt)
  /\ Die(k)

-----------------------------------------------------------------------------
Work(k, s) ==
  \/ Execute(k, s) \/ AskHuman(k, s) \/ CloseChanged(k, s)
  \/ MarkDispatch(k, s) \/ Dispatch(k, s) \/ Checkpoint(k, s)
  \/ Verify(k, s) \/ VerifyFails(k, s) \/ Persist(k, s) \/ Finish(k, s)
Locked(k) ==
  \/ ResumeStale(k) \/ Resume(k)
  \/ PublishClaim(k) \/ PublishReview(k) \/ Release(k)
  \/ Preview(k) \/ BeginConsume(k) \/ FinishReview(k)
Calls(k) ==
  \/ SubmitNew(k) \/ SubmitSpent(k) \/ Abandon(k) \/ SubmitKnown(k) \/ SubmitApproved(k) \/ Recheck(k)
  \/ RequestReview(k) \/ Cancel(k) \/ CloseElsewhere(k)
  \/ Consume(k) \/ ConsumeTerminal(k) \/ ConsumePending(k)
  \/ \E d \in {"approved", "denied"} : Judge(k, d)

Next ==
  \/ \E k \in Controller : Calls(k) \/ Locked(k) \/ Crash(k)
  \/ \E k \in Controller, s \in Slot : Work(k, s) \/ CrashInPersist(k, s)
  \/ \E d \in {"approved", "denied"} : Decide(d)
  \/ Expire

Spec == Init /\ [][Next]_vars

\* Calls end, by an answer or an exception; a client told RECOVERY_REQUIRED asks
\* again; a verification that keeps being tried is one day conclusive.
Fairness ==
  /\ \A k \in Controller, s \in Slot :
       /\ WF_vars(Work(k, s))
       /\ SF_vars(Verify(k, s))
  /\ \A k \in Controller :
       WF_vars(Locked(k)) /\ SF_vars(Recheck(k) \/ ConsumePending(k))
FairSpec == Spec /\ Fairness

-----------------------------------------------------------------------------
(* Properties. *)

\* The shapes of the state.
TypeOK ==
  /\ store \in [marks : SUBSET Mark, decision : Decision, review : Decision,
                owner : Owner, receipt : Receipt]
  /\ expired \in BOOLEAN
  /\ inputs \in Nat
  /\ boot \in [Controller -> 0 .. MaxCrash]
  /\ session \in [Controller -> {"none", "ready", "consumed"}]
  /\ published \in [Controller -> BOOLEAN]
  /\ lease \in [Controller -> {"none", "session", "job", "recovery"}]
  /\ job \in [Controller -> [Slot -> [at : Place, road : Road, receipt : Receipt]]]
  /\ faults \in 0 .. MaxFault

\* However many controllers submit the intent, resume it, consume its review or
\* recover it, and wherever they die, the claimed action is sent to the desktop
\* at most once (mark_dispatch_started accepts its own bytes again, so this
\* rests on who may reach it).
OneInput == inputs <= 1

\* Once the input was sent, or is about to be, the dispatch marker is durable:
\* no process that starts later can take the claim for one never attempted.
InputIsRecorded ==
  \/ inputs > 0
  \/ \E k \in Controller, s \in Slot : job[k][s].at \in {"dispatch", "checkpoint", "verify"}
  => Has(store, "dispatch")

\* A confirmation that was denied, expired or closed as stale, by whichever
\* process, never leads to an input: close races begin_confirmation_resume,
\* begin_grounded_confirmation_consume and the marks that follow them.
RefusalHolds ==
  \/ Has(store, "closed") \/ store.decision = "denied"
  \/ Has(store, "g_closed") \/ store.review = "denied"
  => inputs = 0 /\ ~Has(store, "dispatch")

\* The durable receipt says what happened at the desktop: nothing was sent when
\* it reports no attempt or a failed one, and the input was sent when it reports
\* a verdict; only a lost result leaves it open.
ReceiptIsTrue ==
  /\ store.receipt \in {"blocked", "failed"} => inputs = 0
  /\ store.receipt = "blocked" => ~Has(store, "dispatch")
  /\ store.receipt = "semantic" => inputs = 1

Driving == {"execute", "mark", "dispatch", "checkpoint", "verify", "preview", "consume"}
Holder(road) ==
  CASE road = "claim" -> {"session"}
    [] road \in {"resume", "recheck"} -> {"job"}
    [] road = "grounded" -> {"session"}
    [] road = "g_recheck" -> {"session", "recovery"}

\* Until the claim has its receipt, a call that looks at or drives the target
\* window holds the window's lease in its process, whatever other calls of the
\* same controller release meanwhile.  (Once another process has written the
\* receipt, submit_intent releases the session's window although the first call
\* may still be verifying: what it captures then is refused by the store.)
WindowIsHeld ==
  \A k \in Controller, s \in Slot :
    job[k][s].at \in Driving /\ store.receipt = "none"
    => lease[k] \in Holder(job[k][s].road)

\* While its owner lives, a grounded review that is not settled keeps the
\* owner's context and window: the durable close comes before the release
\* (cancel_grounded_review), so no open review can be left without an owner.
OpenReviewKeepsOwner ==
  \A k \in Controller :
    /\ Has(store, "g_request") /\ store.owner = <<k, boot[k]>>
    /\ Phase(store) \notin {"review_denied", "review_closed", "terminal"}
    => published[k] /\ lease[k] = "session"

\* One input for one claim, recorded before it is sent, never behind a refusal,
\* and a receipt that tells what came of it (submit_intent, the claim store).
OneTrueInput == TypeOK /\ OneInput /\ InputIsRecorded /\ RefusalHolds /\ ReceiptIsTrue

\* The window stays with the call, or the review, that needs it.
WindowIsKept == WindowIsHeld /\ OpenReviewKeepsOwner

\* A dispatched action whose verification was interrupted, by an exception, a
\* lost reply or the death of its process, is one day settled by a receipt, and
\* the window does not stay leased to a dead call in between.
VerificationSettles == Phase(store) = "verification_pending" ~> Phase(store) = "terminal"

\* The window a legacy call leased, and the one a session kept after its intent
\* was spent on the legacy road, come free again whatever happens to the call.
Leftover(k) == \/ lease[k] = "job"
               \/ lease[k] = "session" /\ session[k] = "consumed" /\ ~published[k]

WindowComesBack == []<>(\A k \in Controller : ~Leftover(k))

\* Neither the claim nor the window it uses stays behind an interrupted call.
ClaimSettles == VerificationSettles /\ WindowComesBack
==============================================================================
