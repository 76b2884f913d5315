------------------------- MODULE GroundingPrefetch -------------------------
(***************************************************************************)
(* The grounding of the next step, asked for while the judgment of the     *)
(* previous one still runs (app/vision/task_grounding_prefetch.py), with   *)
(* its callers: the verification of a plan step, the plan's controls, the  *)
(* command thread that may use the answer, and the manager's close.        *)
(*                                                                         *)
(* The host's main thread verifies, controls and closes; a request has a   *)
(* thread of its own, and so has the command that consumes it.  A step is  *)
(* one hold of TaskGroundingPrefetch._lock, or what a thread does between  *)
(* two of them.  The provider answers when it likes, or never; the clock   *)
(* passes a request's deadline when it likes.                              *)
(***************************************************************************)
EXTENDS Naturals, FiniteSets

CONSTANT MaxStep   \* visual steps of the plan

ASSUME StepAssumption == MaxStep \in Nat /\ MaxStep > 1

VARIABLES plan,     \* the step the plan is at, and how the steps were settled
          entry,    \* _entries: the prefetched request of each step but the first
          late,     \* requests whose deadline has passed
          thread,   \* where the thread of each request is
          active,   \* _active, or 0
          store,    \* grounding/pf-<key>.json
          worker,   \* the thread of the step's command
          job,      \* what was done to that command from outside
          closer    \* AgentCommandJobs.close

vars == <<plan, entry, late, thread, active, store, worker, job, closer>>

Step == 1..MaxStep
Key  == 2..MaxStep   \* the request for step k is made while k - 1 is judged

Over   == {"consumed", "discarded"}
Phase  == Over \cup {"none", "requesting", "ready", "failed"}
Open   == {"awaiting_grounding", "grounding_ready"}
Stored == Open \cup {"none", "absent", "executing", "cancelled", "expired"}

NoEntry == [phase |-> "none", released |-> FALSE, attempts |-> 0, error |-> FALSE]
NewEntry == [NoEntry EXCEPT !.phase = "requesting"]

\* What settled a step: the decision service alone, or a reviewer.
SettledBy == {"nobody", "decision", "review"}

NoWorker == [at |-> "none", entry |-> 0, wait |-> {}]

PC == {"none", "check", "branch", "stale", "current", "wait", "take", "claim",
       "fresh", "http", "input", "failed", "done"}

Init ==
  /\ plan = [step |-> 1, at |-> "verify", by |-> [s \in Step |-> "nobody"], cancelled |-> FALSE]
  /\ entry = [k \in Key |-> NoEntry]
  /\ late = {}
  /\ thread = [k \in Key |-> "none"]
  /\ active = 0
  /\ store = [k \in Key |-> "none"]
  /\ worker = NoWorker
  /\ job = [cancelled |-> FALSE, drifted |-> FALSE]
  /\ closer = "no"

\* Every call is of its declared kind.
TypeOK ==
  /\ plan \in [step : Step, at : {"verify", "assess", "settle", "ready", "command", "review",
                                  "cancel", "over"},
               by : [Step -> SettledBy], cancelled : BOOLEAN]
  /\ entry \in [Key -> [phase : Phase, released : BOOLEAN, attempts : 0..1, error : BOOLEAN]]
  /\ late \subseteq Key
  /\ thread \in [Key -> {"none", "start", "http", "answered", "failed", "end", "done"}]
  /\ active \in Key \cup {0}
  /\ store \in [Key -> Stored]
  /\ worker \in [at : PC, entry : Key \cup {0}, wait : SUBSET Key]
  /\ job \in [cancelled : BOOLEAN, drifted : BOOLEAN]
  /\ closer \in {"no", "closing", "joining", "joined", "unfinished"}

-----------------------------------------------------------------------------
Done(k)  == thread[k] \in {"none", "done"}
Closed   == closer \in {"joining", "joined", "unfinished"}
InFlight == {k \in Key : thread[k] = "http"}

\* store.cancel refuses what is claimed and keeps what has expired.
Withdrawn(k) == IF store[k] \in {"executing", "expired", "none"} THEN store[k] ELSE "cancelled"

Live(k) == k # 0 /\ entry[k].phase \notin Over

\* _discard, under the lock.
Discarded(k) ==
  IF Live(k) THEN [entry EXCEPT ![k].phase = "discarded", ![k].released = FALSE] ELSE entry

StoreWithout(k) == IF Live(k) THEN [store EXCEPT ![k] = Withdrawn(k)] ELSE store

Discard(k) == entry' = Discarded(k) /\ store' = StoreWithout(k)

-----------------------------------------------------------------------------
(***************************************************************************)
(* The host's main thread: the verification of plan.step.                  *)
(***************************************************************************)
Main(p) == closer = "no" /\ plan.at = p
Goto(p) == plan' = [plan EXCEPT !.at = p]

NextKey == plan.step + 1

\* Mutant: a superseded request is abandoned without a look at its thread.
MayRequest_Always == TRUE

\* The request before it has left the provider.
MayRequest == active = 0 \/ Done(active)

\* A new request: prepared in the store, recorded, its thread started.
Request(k) ==
  /\ active' = k
  /\ thread' = [thread EXCEPT ![k] = "start"]
  /\ entry' = [Discarded(active) EXCEPT ![k] = NewEntry]
  /\ store' = [StoreWithout(active) EXCEPT ![k] = "awaiting_grounding"]

\* begin: one look ahead, one request per key, none beside another's.
Begin ==
  /\ Main("verify") /\ NextKey \in Key
  /\ \/ entry[NextKey].phase # "none" /\ UNCHANGED <<entry, store, thread, active>>
     \/ /\ entry[NextKey].phase = "none"
        /\ IF MayRequest THEN Request(NextKey)
           ELSE Discard(active) /\ UNCHANGED <<thread, active>>
  /\ Goto("assess")
  /\ UNCHANGED <<late, worker, job, closer>>

\* The step, the policy or the window is not of the kind that is prefetched.
Ineligible ==
  /\ Main("verify")
  /\ Goto("assess")
  /\ UNCHANGED <<entry, late, thread, active, store, worker, job, closer>>

\* The judgment passes; only the record of it is left.
AssessPass ==
  /\ Main("assess")
  /\ Goto("settle")
  /\ UNCHANGED <<entry, late, thread, active, store, worker, job, closer>>

\* Any other judgment discards, and asks a reviewer.
AssessNonpass ==
  /\ Main("assess")
  /\ Discard(active)
  /\ Goto("review")
  /\ UNCHANGED <<late, thread, active, worker, job, closer>>

\* An exception before the result is recorded: the next tick verifies again.
Interrupted ==
  /\ Main("assess") \/ Main("settle")
  /\ Discard(active)
  /\ Goto("verify")
  /\ UNCHANGED <<late, thread, active, worker, job, closer>>

Settle(by) == plan' = [plan EXCEPT !.at = "ready", !.by[plan.step] = by]

\* record_verified_result, then settled: the success is on disk before the
\* request is released.
SettleReleases ==
  /\ Main("settle")
  /\ Settle("decision")
  /\ entry' = IF active = NextKey /\ entry[active].phase # "discarded"
              THEN [entry EXCEPT ![active].released = TRUE] ELSE entry
  /\ UNCHANGED <<late, thread, active, store, worker, job, closer>>

\* The window is another one, or settled raised after the result was recorded.
SettleDiscards ==
  /\ Main("settle")
  /\ Settle("decision")
  /\ Discard(active)
  /\ UNCHANGED <<late, thread, active, worker, job, closer>>

\* The review of a waiting step is a control, and every control discards.
ReviewPasses ==
  /\ Main("review") /\ ~plan.cancelled
  /\ Settle("review")
  /\ Discard(active)
  /\ UNCHANGED <<late, thread, active, worker, job, closer>>

\* The runner enqueues the next step; its command gets a thread.
StartCommand ==
  /\ Main("ready") /\ ~plan.cancelled
  /\ IF plan.step = MaxStep
     THEN Goto("over") /\ UNCHANGED <<worker, job>>
     ELSE /\ plan' = [plan EXCEPT !.step = @ + 1, !.at = "command"]
          /\ worker' = [NoWorker EXCEPT !.at = "check"]
          /\ job' = [cancelled |-> FALSE, drifted |-> FALSE]
  /\ UNCHANGED <<entry, late, thread, active, store, closer>>

\* The command is over and the main thread has read its receipt.
CommandOver ==
  /\ Main("command")
  /\ worker.at \in {"done", "failed"}
  /\ Goto(IF plan.cancelled THEN "over" ELSE IF worker.at = "done" THEN "verify" ELSE "review")
  /\ worker' = NoWorker
  /\ UNCHANGED <<entry, late, thread, active, store, job, closer>>

-----------------------------------------------------------------------------
(***************************************************************************)
(* Controls.  One that is refused has discarded all the same.              *)
(***************************************************************************)
RefusedControl ==
  /\ Main("command")
  /\ Live(active)
  /\ Discard(active)
  /\ UNCHANGED <<plan, late, thread, active, worker, job, closer>>

\* cancel discards first and writes the plan after that.
CancelDiscards ==
  /\ closer = "no" /\ plan.at \in {"command", "review", "ready"} /\ ~plan.cancelled
  /\ Discard(active)
  /\ plan' = [plan EXCEPT !.at = "cancel"]
  /\ UNCHANGED <<late, thread, active, worker, job, closer>>

CancelWrites ==
  /\ Main("cancel")
  /\ plan' = [plan EXCEPT !.cancelled = TRUE, !.at = IF worker.at = "none" THEN "over" ELSE "command"]
  /\ UNCHANGED <<entry, late, thread, active, store, worker, job, closer>>

\* A cancel of the command itself, under the manager's Condition.
CancelCommand ==
  /\ worker.at \notin {"none", "done", "failed"}
  /\ closer = "no"
  /\ job' = [job EXCEPT !.cancelled = TRUE]
  /\ UNCHANGED <<plan, entry, late, thread, active, store, worker, closer>>

\* The window, the configuration or the image changes under the command.
Drift ==
  /\ worker.at \in {"current", "wait", "take"} /\ ~job.drifted
  /\ job' = [job EXCEPT !.drifted = TRUE]
  /\ UNCHANGED <<plan, entry, late, thread, active, store, worker, closer>>

\* AgentCommandJobs.close: the active command first, then the prefetch.
CloseCommands ==
  /\ closer = "no"
  /\ closer' = "closing"
  /\ job' = [job EXCEPT !.cancelled = @ \/ worker.at \notin {"none", "done", "failed"}]
  /\ UNCHANGED <<plan, entry, late, thread, active, store, worker>>

\* close takes the lock, shuts the door and discards ...
ClosePrefetch ==
  /\ closer = "closing"
  /\ closer' = "joining"
  /\ Discard(active)
  /\ UNCHANGED <<plan, late, thread, active, worker, job>>

\* ... and joins the threads outside it, for as long as its timeout allows.
CloseReturns ==
  /\ closer = "joining"
  /\ closer' \in (IF \A k \in Key : Done(k) THEN {"joined"} ELSE {"unfinished"})
  /\ UNCHANGED <<plan, entry, late, thread, active, store, worker, job>>

-----------------------------------------------------------------------------
(***************************************************************************)
(* _invoke, in the thread of request k.                                    *)
(***************************************************************************)
Become(k, p) == thread' = [thread EXCEPT ![k] = p]
Stopped(k) == entry[k].phase = "discarded"

\* The attempt is on disk before the request leaves.
InvokeBegins(k) ==
  /\ thread[k] = "start"
  /\ IF Stopped(k)
     THEN Become(k, "end") /\ UNCHANGED entry
     ELSE /\ entry' = [entry EXCEPT ![k].attempts = 1]
          /\ Become(k, IF k \in late THEN "failed" ELSE "http")
  /\ UNCHANGED <<plan, late, active, store, worker, job, closer>>

ProviderAnswers(k) ==
  /\ thread[k] = "http"
  /\ \E outcome \in {"answered", "failed"} : Become(k, outcome)
  /\ UNCHANGED <<plan, entry, late, active, store, worker, job, closer>>

\* An answer in time, to a request that is still wanted, is resolved.
InvokeResolves(k) ==
  /\ thread[k] = "answered"
  /\ IF Stopped(k)
     THEN Become(k, "end") /\ UNCHANGED <<entry, store>>
     ELSE IF k \in late \/ store[k] # "awaiting_grounding"
     THEN Become(k, "failed") /\ UNCHANGED <<entry, store>>
     ELSE \/ /\ store' = [store EXCEPT ![k] = "grounding_ready"]
             /\ entry' = [entry EXCEPT ![k].phase = "ready"]
             /\ Become(k, "end")
          \/ /\ store' = [store EXCEPT ![k] = "absent"]
             /\ Become(k, "failed")
             /\ UNCHANGED entry
  /\ UNCHANGED <<plan, late, active, worker, job, closer>>

\* The except clause: the error is kept even when the request was discarded.
InvokeFails(k) ==
  /\ thread[k] = "failed"
  /\ entry' = [entry EXCEPT ![k].error = TRUE, ![k].phase = IF Stopped(k) THEN @ ELSE "failed"]
  /\ store' = [store EXCEPT ![k] = Withdrawn(k)]
  /\ Become(k, "end")
  /\ UNCHANGED <<plan, late, active, worker, job, closer>>

InvokeEnds(k) ==
  /\ thread[k] = "end"
  /\ Become(k, "done")
  /\ UNCHANGED <<plan, entry, late, active, store, worker, job, closer>>

\* The clock: a request's deadline, and the store's own expiry.
Overdue(k) ==
  /\ k \notin late /\ ~Done(k)
  /\ late' = late \cup {k}
  /\ UNCHANGED <<plan, entry, thread, active, store, worker, job, closer>>

Expire(k) ==
  /\ store[k] \in Open
  /\ store' = [store EXCEPT ![k] = "expired"]
  /\ UNCHANGED <<plan, entry, late, thread, active, worker, job, closer>>

-----------------------------------------------------------------------------
(***************************************************************************)
(* consume, in the thread of the command of plan.step.                     *)
(***************************************************************************)
Work(p) == worker' = [worker EXCEPT !.at = p]

Usable == Live(active) /\ ~Closed

\* The first hold: the active request, or what is still in flight of the others.
Check ==
  /\ worker.at = "check"
  /\ worker' = [at |-> "branch", entry |-> active,
                wait |-> IF Usable THEN {} ELSE {k \in Key : ~Done(k)}]
  /\ UNCHANGED <<plan, entry, late, thread, active, store, job, closer>>

\* The same question asked again, after the lock was dropped.
Branch ==
  /\ worker.at = "branch"
  /\ Work(IF Live(worker.entry) /\ ~Closed THEN "current" ELSE "stale")
  /\ UNCHANGED <<plan, entry, late, thread, active, store, job, closer>>

\* Mutant: an error counts only while its request was wanted.
Failed_IfWanted(k) == k = plan.step /\ entry[k].error /\ entry[k].phase # "discarded"

\* A failed request of this very step is not asked again.
Failed(k) == k = plan.step /\ entry[k].error /\ entry[k].attempts = 1

StaleSettled ==
  /\ worker.at = "stale"
  /\ \A k \in worker.wait : Done(k)
  /\ Work(IF worker.entry # 0 /\ Failed(worker.entry) THEN "failed" ELSE "fresh")
  /\ UNCHANGED <<plan, entry, late, thread, active, store, job, closer>>

StaleUnsettled ==
  /\ worker.at = "stale"
  /\ \E k \in worker.wait : ~Done(k) /\ k \in late
  /\ Work("failed")
  /\ UNCHANGED <<plan, entry, late, thread, active, store, job, closer>>

\* _current: why request k is not the one this command needs.
Obsolete(k) == k # plan.step \/ job.drifted \/ job.cancelled \/ plan.cancelled \/ closer # "no"

\* The second hold.
Current ==
  /\ worker.at = "current"
  /\ IF Obsolete(worker.entry)
     THEN Discard(worker.entry) /\ Work("failed")
     ELSE /\ Work(IF entry[worker.entry].released THEN "wait" ELSE "failed")
          /\ UNCHANGED <<entry, store>>
  /\ UNCHANGED <<plan, late, thread, active, job, closer>>

\* _current raises: the queue is busy, or holds a cancel.  Nothing is discarded.
CurrentRaises ==
  /\ worker.at \in {"current", "take"}
  /\ Work("failed")
  /\ UNCHANGED <<plan, entry, late, thread, active, store, job, closer>>

WaitEnds ==
  /\ worker.at = "wait"
  /\ Done(worker.entry)
  /\ Work("take")
  /\ UNCHANGED <<plan, entry, late, thread, active, store, job, closer>>

\* Mutant: the wait for the answer has no timeout.
WaitOverdue_Patient == FALSE

WaitOverdue ==
  /\ worker.at = "wait"
  /\ ~Done(worker.entry) /\ worker.entry \in late
  /\ Discard(active)
  /\ Work("failed")
  /\ UNCHANGED <<plan, late, thread, active, job, closer>>

\* The third hold: every question again, then the request is used up.
TakeDiscarded ==
  /\ worker.at = "take"
  /\ Stopped(worker.entry)
  /\ Work(IF Failed(worker.entry) THEN "failed" ELSE "fresh")
  /\ UNCHANGED <<plan, entry, late, thread, active, store, job, closer>>

Take ==
  /\ worker.at = "take"
  /\ LET k == worker.entry IN
     /\ ~Stopped(k)
     /\ IF Obsolete(k)
        THEN Discard(k) /\ Work("failed")
        ELSE IF entry[k].phase = "failed" \/ store[k] # "grounding_ready"
        THEN Work("failed") /\ UNCHANGED <<entry, store>>
        ELSE /\ entry' = [entry EXCEPT ![k].phase = "consumed"]
             /\ Work("claim")
             /\ UNCHANGED store
  /\ UNCHANGED <<plan, late, thread, active, job, closer>>

\* execute_local_step: the claim, under the manager's Condition.
Claim ==
  /\ worker.at = "claim"
  /\ LET k == worker.entry IN
     IF job.cancelled
     THEN store' = [store EXCEPT ![k] = Withdrawn(k)] /\ Work("failed")
     ELSE IF store[k] # "grounding_ready" THEN Work("failed") /\ UNCHANGED store
     ELSE store' = [store EXCEPT ![k] = "executing"] /\ Work("input")
  /\ UNCHANGED <<plan, entry, late, thread, active, job, closer>>

\* consume returned None: a request of the command's own.
Fresh ==
  /\ worker.at = "fresh"
  /\ Work(IF job.cancelled THEN "failed" ELSE "http")
  /\ UNCHANGED <<plan, entry, late, thread, active, store, job, closer>>

FreshAnswered ==
  /\ worker.at = "http"
  /\ \E p \in {"input", "failed"} : Work(p)
  /\ UNCHANGED <<plan, entry, late, thread, active, store, job, closer>>

\* The step is executed from here on as in AgentCommandJobs.
Execute ==
  /\ worker.at = "input"
  /\ \E p \in {"done", "failed"} : Work(p)
  /\ UNCHANGED <<plan, entry, late, thread, active, store, job, closer>>

-----------------------------------------------------------------------------
Verification == \/ Begin \/ Ineligible \/ AssessPass \/ AssessNonpass \/ Interrupted
                \/ SettleReleases \/ SettleDiscards \/ ReviewPasses \/ StartCommand \/ CommandOver

Outside == \/ RefusedControl \/ CancelDiscards \/ CancelWrites \/ CancelCommand \/ Drift
           \/ CloseCommands

Closer == ClosePrefetch \/ CloseReturns

Invoke(k) == InvokeBegins(k) \/ InvokeResolves(k) \/ InvokeFails(k) \/ InvokeEnds(k)

Clock(k) == Overdue(k) \/ Expire(k)

Consume == \/ Check \/ Branch \/ StaleSettled \/ StaleUnsettled \/ Current \/ CurrentRaises
           \/ WaitEnds \/ WaitOverdue \/ TakeDiscarded \/ Take \/ Claim \/ Fresh

Next == \/ Verification \/ Outside \/ Closer \/ Consume \/ FreshAnswered \/ Execute
        \/ \E k \in Key : Invoke(k) \/ ProviderAnswers(k) \/ Clock(k)

Spec == Init /\ [][Next]_vars

\* Threads run and deadlines pass; that the provider ever answers is not assumed.
Fairness ==
  /\ WF_vars(Consume)
  /\ WF_vars(Closer)
  /\ \A k \in Key : WF_vars(Invoke(k)) /\ WF_vars(Overdue(k))

FairSpec == Spec /\ Fairness

-----------------------------------------------------------------------------
(***************************************************************************)
(* Properties.                                                             *)
(***************************************************************************)
\* One prefetched request at most is with the provider at any time, whatever
\* supersedes, retries and interruptions the verifications go through.
OnePrefetchInFlight == Cardinality(InFlight) <= 1

\* A prefetched answer carries input only when the step before it was passed
\* by the decision service alone, that success was recorded before the
\* release, and nothing discarded the request in between.
TicketNeedsSuccess ==
  \A k \in Key : store[k] = "executing" =>
    /\ plan.by[k - 1] = "decision" /\ plan.step >= k
    /\ entry[k].released /\ entry[k].attempts = 1 /\ entry[k].phase = "consumed"

\* What was discarded or has failed stays unusable in the store as well: an
\* answer that comes late cannot make its request ready again.
DiscardedIsClosed ==
  \A k \in Key : entry[k].phase = "discarded" \/ (entry[k].phase = "failed" /\ thread[k] = "done")
                   => store[k] \in {"cancelled", "expired"}

\* A command does not ask the provider again when the request made for its
\* step has already failed there, discarded or not: the failure is the answer.
FailureIsNotHidden ==
  [][(worker.at # "fresh" /\ worker'.at = "fresh") => ~(entry[plan.step].error /\ entry[plan.step].attempts = 1)]_vars

\* When the prefetch has been closed, no request of it is left open, but for
\* one that a command has taken and is about to claim or withdraw.
ClosedLeavesNothingOpen ==
  Closed => \A k \in Key : store[k] \in Open => worker.at = "claim" /\ worker.entry = k

\* One request at a time is with the provider, and one that was given up,
\* superseded or closed over is out of use for good (begin, _discard, close).
OneRequestCounts ==
  TypeOK /\ OnePrefetchInFlight /\ DiscardedIsClosed /\ ClosedLeavesNothingOpen

\* What a step is told is what happened to the request made for it: a ticket
\* after the success alone, a failure when there was one (settled, consume).
AnswersAreEarned == []TicketNeedsSuccess /\ FailureIsNotHidden

\* A command that looks for a prefetched answer gets past it, with a request
\* that nobody answers, a discard at any moment and the manager closing.
ConsumeEnds == worker.at = "check" ~> worker.at \in {"http", "input", "failed"}

\* close returns, with all threads joined or with the report that some are not.
CloseEnds == closer = "closing" ~> closer \in {"joined", "unfinished"}

\* Neither side waits for a provider that never answers (consume, close).
WaitsEnd == ConsumeEnds /\ CloseEnds
=============================================================================
