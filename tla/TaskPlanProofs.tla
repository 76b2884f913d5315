--------------------------- MODULE TaskPlanProofs ---------------------------
(***************************************************************************)
(* Proofs about TaskPlan, for plans of any length, any set of client       *)
(* commands and any number of failing writes.                              *)
(*                                                                         *)
(* The argument: the ticket in hand is the step the trial waits for, until *)
(* the trial has settled it (TicketInv); the trial only moves on behind a  *)
(* proved success (OrderInv); and a command leaves the host's hand for the *)
(* set of handled ones, so the input behind it happens once (InputInv).    *)
(* The second half is about the queue that two processes write (QInv).     *)
(***************************************************************************)
EXTENDS TaskPlan, FiniteSetTheorems, TLAPS

StepVerdict == {"none", "success", "failure", "cancelled"}

TrialSet == [status : Terminal \cup {"none", "ready", "pending", "cancel_requested"},
             pending : BOOLEAN, step : Step]

RunnerSet == [state : RunnerState, ticket : 0..MaxStep,
              dispatch : {"none", "dispatching", "submitted", "deferred"},
              wait : Wait, cancel : Cancel \cup {NoCommand}]

HostSet == [at : Place, command : Command \cup {NoCommand}, verdict : StepVerdict,
            input : BOOLEAN]

\* The type invariant in parts.
QueueOK ==
  /\ commands \subseteq Command /\ done \subseteq commands
  /\ response \in [Command -> StepResponse \cup ControlResponse]
  /\ \A s \in Step : response[s] \in StepResponse
  /\ \A c \in Client \cup {Close} : response[c] \in ControlResponse
  /\ lock \in Client \cup {NoCommand}
  /\ stop \in {"no", "marked", "queued", "lost"}
  /\ argument \in [Continue -> Wait]

PlanOK ==
  /\ trial \in TrialSet
  /\ verdict \in [Step -> StepVerdict]
  /\ unsure \subseteq Step
  /\ runner \in RunnerSet

FlagsOK == active \in BOOLEAN /\ enabled \in BOOLEAN

HostOK ==
  /\ host \in HostSet
  /\ job \in 0..MaxStep
  /\ faults \in 0..MaxFaults

\* What the host has in hand: outside "command" it is a control of the plan.
HandInv ==
  /\ host.at = "command" => host.command \in commands \ done
  /\ host.at # "command" => host.command \in (Control \cap commands) \cup {NoCommand}
  /\ host.at = "loop" => host.command = NoCommand

\* Places where the host has a ticket, and where the trial waits for it.
Ticketed  == {"submit", "enqueue", "reconcile", "verify", "judge", "record", "write", "settle"}
Verifying == {"verify", "judge", "record", "write"}

TicketInv ==
  /\ trial.pending => trial.status \in {"pending", "cancel_requested"}
  /\ runner.ticket # 0 /\ trial.pending => runner.ticket = trial.step
  /\ runner.ticket # 0 /\ ~trial.pending => verdict[runner.ticket] # "none"
  /\ runner.ticket <= trial.step
  /\ host.at \in Ticketed => runner.ticket # 0
  /\ host.at \in Verifying =>
       trial.pending /\ response[runner.ticket] \notin {"none", "running"}
  /\ host.at \in {"record", "write"} => host.verdict # "none"
  /\ host.at \in {"record", "write"} /\ host.verdict = "success"
       => response[runner.ticket] = "success"

\* A plan is started once, and nothing moves before that.
StartInv ==
  /\ trial.status # "none" =>
       Start \in done \/ (host.command = Start /\ host.at # "command")
  /\ trial.status = "none" =>
       runner = NoRunner /\ ~enabled /\ host.at \in {"loop", "command", "exited"}

\* Steps in front of the trial's were successful, and none behind it is queued.
OrderInv ==
  /\ \A t \in Step : t < trial.step => verdict[t] = "success"
  /\ \A t \in Step : verdict[t] = "success" => response[t] \in Completed
  /\ \A t \in Step : t \in commands => t <= trial.step

\* An input happens to a command that is out of hand, and a receipt of an
\* ended step stays.
InputInv ==
  /\ inputs \in [Step \cup Other -> 0..1]
  /\ \A c \in Step \cup Other : inputs[c] = 1 => c \in done
  /\ job # 0 => job \in done /\ response[job] = "running" /\ inputs[job] = 0
  /\ \A t \in Step : response[t] \in Completed => t \in done /\ inputs[t] = 1

IInv == /\ QueueOK /\ PlanOK /\ FlagsOK /\ HostOK
        /\ HandInv /\ TicketInv /\ StartInv /\ OrderInv /\ InputInv

\* What the action property says of one step.
StepQuiet ==
  \A o \in Other : inputs'[o] # inputs[o] =>
    trial.status \in Terminal \cup {"none"} /\ job = 0 /\ ~trial.pending

-----------------------------------------------------------------------------
(* Records with some of their fields replaced.                              *)

LEMMA HostMoves ==
  ASSUME HostOK, NEW p \in Place
  PROVE  /\ [host EXCEPT !.at = p] \in HostSet
         /\ [host EXCEPT !.at = p].at = p
         /\ [host EXCEPT !.at = p].command = host.command
         /\ [host EXCEPT !.at = p].verdict = host.verdict
  BY DEF HostOK, HostSet

LEMMA HostIdle ==
  /\ Idle \in HostSet /\ Idle.at = "loop" /\ Idle.command = NoCommand
  BY DEF Idle, HostSet, Place, StepVerdict

LEMMA NoWaitIsOne == NoWait \in Wait
  BY DEF Wait

LEMMA RunnerWaits ==
  ASSUME PlanOK, runner.ticket # 0,
         NEW r \in {"queue_busy", "execution_pending", "result_unknown", "verification_required"}
  PROVE  \A w \in {WaitFor(r), [WaitFor(r) EXCEPT !.dispatch = "deferred"]} :
           w \in RunnerSet /\ w.ticket = runner.ticket /\ w.state = "waiting"
           /\ w.cancel = runner.cancel
  <1>1. runner \in RunnerSet /\ runner.ticket \in Step
    BY BoundAssumption DEF PlanOK, RunnerSet, Step
  <1>2. [reason |-> r, step |-> runner.ticket] \in Wait
    BY <1>1 DEF Wait
  <1> QED
    BY <1>1, <1>2 DEF WaitFor, RunnerSet, RunnerState

LEMMA RunnerDispatches ==
  ASSUME PlanOK, NEW d \in {"dispatching", "submitted", "deferred"}
  PROVE  LET r == [runner EXCEPT !.dispatch = d]
         IN  r \in RunnerSet /\ r.ticket = runner.ticket /\ r.state = runner.state
             /\ r.cancel = runner.cancel
  BY DEF PlanOK, RunnerSet

LEMMA RunnerSettles ==
  ASSUME PlanOK, NEW t \in TrialSet, NEW c \in Cancel \cup {NoCommand}
  PROVE  RunnerSettled(t, c) \in RunnerSet /\ RunnerSettled(t, c).ticket = 0
         /\ RunnerSettled(t, c).cancel = c
  <1> DEFINE st == IF t.status \in Terminal THEN t.status
                   ELSE IF c # NoCommand THEN "cancel_requested" ELSE "ready"
  <1>1. st \in RunnerState /\ NoWait \in Wait /\ runner \in RunnerSet
    BY DEF RunnerState, Wait, PlanOK
  <1>2. RunnerSettled(t, c) = [runner EXCEPT !.ticket = 0, !.dispatch = "none",
                                 !.wait = NoWait, !.cancel = c, !.state = st]
    BY DEF RunnerSettled
  <1> HIDE DEF st
  <1>3. RunnerSettled(t, c) = [state |-> st, ticket |-> 0, dispatch |-> "none",
                               wait |-> NoWait, cancel |-> c]
    BY <1>1, <1>2 DEF RunnerSet
  <1>4. 0 \in 0..MaxStep
    BY BoundAssumption
  <1> QED
    BY <1>1, <1>3, <1>4 DEF RunnerSet

LEMMA TrialSettles ==
  ASSUME NEW s \in Step, NEW v \in {"success", "failure", "cancelled"}
  PROVE  /\ Settled(s, v) \in TrialSet /\ Settled(s, v).pending = FALSE
         /\ Settled(s, v).step = IF v = "success" /\ s < MaxStep THEN s + 1 ELSE s
         /\ Settled(s, v).status \in Terminal \cup {"ready"}
  <1> DEFINE st == CASE v = "success" -> "completed" [] v = "failure" -> "failed"
                     [] OTHER -> "cancelled"
  <1>1. st \in Terminal
    BY DEF Terminal
  <1>2. s \in Nat /\ MaxStep \in Nat /\ (s < MaxStep => s + 1 \in Step)
    BY BoundAssumption DEF Step
  <1>3. CASE v = "success" /\ s < MaxStep
    BY <1>2, <1>3 DEF Settled, TrialSet
  <1>4. CASE ~(v = "success" /\ s < MaxStep)
    <2>1. Settled(s, v) = [status |-> st, pending |-> FALSE, step |-> s]
      BY <1>4 DEF Settled
    <2> HIDE DEF st
    <2> QED
      BY <1>1, <1>4, <2>1 DEF TrialSet
  <1> QED
    BY <1>3, <1>4

LEMMA TrialCancels ==
  ASSUME PlanOK
  PROVE  /\ CancelledTrial \in TrialSet /\ CancelledTrial.pending = trial.pending
         /\ CancelledTrial.step = trial.step
         /\ CancelledTrial.status # "none"
         /\ trial.pending => CancelledTrial.status \in {trial.status, "cancel_requested"}
  BY DEF PlanOK, CancelledTrial, TrialSet, Terminal

\* A command gets its answer.
LEMMA Responds ==
  ASSUME QueueOK, NEW c \in commands, NEW r, Respond(c, r),
         c \in Step => r \in StepResponse,
         c \notin Step => r \in ControlResponse,
         UNCHANGED <<commands, lock, stop, argument>>
  PROVE  /\ QueueOK'
         /\ \A d \in Command \ {c} : response'[d] = response[d]
         /\ response'[c] = r /\ done' = done \cup {c}
  <1> USE DEF QueueOK, Respond, Command, Client
  <1>1. c \in Command /\ response' = [response EXCEPT ![c] = r] /\ done' = done \cup {c}
    OBVIOUS
  <1>2. \A d \in Command : response'[d] = IF d = c THEN r ELSE response[d]
    BY <1>1
  <1>3. response' \in [Command -> StepResponse \cup ControlResponse]
    BY <1>1
  <1>4. \A s \in Step : response'[s] \in StepResponse
    BY <1>2
  <1>5. \A d \in Client \cup {Close} : response'[d] \in ControlResponse
    BY <1>2, IdAssumption DEF Step
  <1> QED
    BY <1>1, <1>2, <1>3, <1>4, <1>5

-----------------------------------------------------------------------------
USE IdAssumption, BoundAssumption
USE DEF Step, Control, Client, Command, Terminal, Completed, Outcome, StepResponse,
        ControlResponse, Place, RunnerState, StepVerdict, Ticketed, Verifying,
        NoRunner, Idle

LEMMA InitInv == ASSUME Init PROVE IInv
  <1>1. QueueOK
    BY NoWaitIsOne DEF Init, QueueOK
  <1>5. FlagsOK
    BY Zenon DEF Init, FlagsOK
  <1>6. HostOK
    BY DEF Init, HostOK, HostSet
  <1>2. PlanOK
    BY NoWaitIsOne DEF Init, PlanOK, RunnerSet, TrialSet
  <1>3. HandInv /\ TicketInv /\ StartInv
    BY DEF Init, HandInv, TicketInv, StartInv
  <1>4. OrderInv /\ InputInv
    BY DEF Init, OrderInv, InputInv
  <1> QED
    BY <1>1, <1>2, <1>3, <1>4, <1>5, <1>6 DEF IInv

-----------------------------------------------------------------------------
(* Effects, field by field.                                                 *)
SameQueue == UNCHANGED <<commands, response, lock, stop, argument, done>>
SamePlan == UNCHANGED <<trial, verdict, unsure, runner, active>>
SameWorld == UNCHANGED <<job, inputs, faults>>
HostIdles == host' \in HostSet /\ host'.at = "loop" /\ host'.command = NoCommand
HostTo(p) == host' \in HostSet /\ host'.at = p /\ host'.command = host.command
RunnerTo(t) == runner' \in RunnerSet /\ runner'.ticket = t
TrialTo(status, p, s) ==
  trial' \in TrialSet /\ trial'.status = status /\ trial'.pending = p /\ trial'.step = s

\* The command in hand is answered, if there is one.
Replies ==
  /\ QueueOK' /\ commands' = commands
  /\ \A d \in Command \ {host.command} : response'[d] = response[d]
  /\ done' = done \cup ({host.command} \ {NoCommand})
  /\ HostIdles

\* The host goes on with its ticket.
Advances ==
  /\ SameQueue
  /\ UNCHANGED <<trial, verdict, active, enabled, job, inputs>>
  /\ unsure' \subseteq Step /\ faults' \in 0..MaxFaults
  /\ RunnerTo(runner.ticket)
  /\ host' \in HostSet /\ host'.command = host.command
  /\ host'.at \in Ticketed \cup {"end"}
  /\ host'.at \in Verifying => trial.pending /\ response[runner.ticket] \notin {"none", "running"}
  /\ host'.at \in {"record", "write"} =>
       /\ host'.verdict # "none"
       /\ host'.verdict = "success" => response[runner.ticket] = "success"

LEMMA AnswerEffect ==
  ASSUME IInv, host.at = "command", NEW r, Answer(r),
         host.command \in Step => r \in StepResponse,
         host.command \notin Step => r \in ControlResponse,
         UNCHANGED <<commands, lock, stop, argument>>
  PROVE  Replies /\ response'[host.command] = r
  <1>1. QueueOK /\ host.command \in commands /\ host.command # NoCommand
    <2> HIDE DEF Command
    <2> QED
      BY DEF IInv, HandInv, QueueOK
  <1>2. host' = Idle /\ Respond(host.command, r)
    BY DEF Answer
  <1>3. QueueOK' /\ (\A d \in Command \ {host.command} : response'[d] = response[d])
        /\ done' = done \cup {host.command} /\ response'[host.command] = r
    <2> HIDE DEF Step, StepResponse, ControlResponse, Command
    <2> QED
      BY <1>1, <1>2, Responds
  <1> QED
    BY <1>1, <1>2, <1>3, HostIdle DEF Replies, HostIdles

LEMMA RaiseEffect ==
  ASSUME IInv, host.at # "command", Raise, host' = Idle,
         UNCHANGED <<commands, lock, stop, argument>>
  PROVE  Replies /\ enabled' \in {enabled, FALSE}
  <1>1. QueueOK /\ (host.command # NoCommand => host.command \in Control \cap commands)
    BY DEF IInv, HandInv
  <1>2. CASE host.command = NoCommand
    <2>1. UNCHANGED <<response, done>> /\ enabled' = FALSE
      BY <1>2 DEF Raise
    <2> QED
      BY <1>1, <1>2, <2>1, HostIdle DEF Replies, HostIdles, QueueOK
  <1>3. CASE host.command # NoCommand
    <2>1. PICK r \in {"failed", "rejected"} : Respond(host.command, r) /\ enabled' = enabled
      BY <1>3 DEF Raise
    <2>2. host.command \notin Step /\ r \in ControlResponse /\ host.command \in commands
      BY <1>1, <1>3
    <2>3. QueueOK' /\ (\A d \in Command \ {host.command} : response'[d] = response[d])
          /\ done' = done \cup {host.command}
      <3> HIDE DEF Step, StepResponse, ControlResponse, Command
      <3> QED
        BY <1>1, <2>1, <2>2, Responds
    <2> QED
      BY <1>3, <2>1, <2>3, HostIdle DEF Replies, HostIdles
  <1> QED
    BY <1>2, <1>3

LEMMA AdvanceInv ==
  ASSUME IInv, host.at \in Ticketed \cup {"drive"}, runner.ticket # 0, Advances
  PROVE  IInv' /\ StepQuiet
  <1> USE DEF Advances, RunnerTo, SameQueue
  <1>1. QueueOK'
    BY DEF IInv, QueueOK
  <1>2. PlanOK'
    BY DEF IInv, PlanOK
  <1>3. FlagsOK'
    BY Zenon DEF IInv, FlagsOK
  <1>4. HostOK'
    BY DEF IInv, HostOK
  <1>5. HandInv'
    BY DEF IInv, HandInv
  <1>6. TicketInv'
    BY DEF IInv, TicketInv
  <1>7. StartInv'
    BY DEF IInv, StartInv, HandInv
  <1>8. OrderInv'
    BY DEF IInv, OrderInv
  <1>9. InputInv'
    BY DEF IInv, InputInv
  <1>10. StepQuiet
    BY DEF StepQuiet
  <1> QED
    BY <1>1, <1>2, <1>3, <1>4, <1>5, <1>6, <1>7, <1>8, <1>9, <1>10 DEF IInv

\* A command of the client is answered, and nothing else happens.
LEMMA ReplyInv ==
  ASSUME IInv, host.at = "command", Replies, SamePlan, SameWorld,
         enabled' \in {enabled, FALSE},
         host.command \in Step => response'[host.command] \notin Completed
  PROVE  IInv' /\ StepQuiet
  <1> USE DEF Replies, HostIdles, SamePlan, SameWorld
  <1>1. QueueOK'
    OBVIOUS
  <1>2. PlanOK'
    BY DEF IInv, PlanOK
  <1>3. FlagsOK'
    BY Zenon DEF IInv, FlagsOK
  <1>4. HostOK'
    BY DEF IInv, HostOK
  <1>5. HandInv'
    BY DEF HandInv
  <1>6. TicketInv'
    BY DEF IInv, TicketInv
  <1>7. StartInv'
    <2>2. ~enabled => ~enabled'
      BY Zenon
    <2>3. /\ trial'.status # "none" => Start \in done'
          /\ trial'.status = "none" => runner' = NoRunner /\ ~enabled /\ host'.at = "loop"
      BY DEF IInv, StartInv
    <2> QED
      BY <2>2, <2>3 DEF StartInv
  <1>8. OrderInv'
    BY DEF IInv, OrderInv, InputInv, HandInv
  <1>9. InputInv'
    BY DEF IInv, InputInv, HandInv, HostOK
  <1>10. StepQuiet
    BY DEF StepQuiet
  <1> QED
    BY <1>1, <1>2, <1>3, <1>4, <1>5, <1>6, <1>7, <1>8, <1>9, <1>10 DEF IInv

LEMMA AcquireLockInv ==
  ASSUME IInv, NEW c \in Client, AcquireLock(c)
  PROVE  IInv' /\ StepQuiet
  <1> USE DEF AcquireLock, Closing, HostUp, planVars, hostVars, worldVars
  <1>1. QueueOK'
    <2>1. runner.wait \in Wait
      BY DEF IInv, PlanOK, RunnerSet
    <2>2. argument' \in [Continue -> Wait]
      BY <2>1 DEF IInv, QueueOK
    <2> QED
      BY <2>2 DEF IInv, QueueOK
  <1>2. PlanOK'
    BY DEF IInv, PlanOK, HostOK, TicketInv, QueueOK, HostSet, RunnerSet, TrialSet
  <1>3. FlagsOK'
    BY Zenon DEF IInv, FlagsOK
  <1>4. HostOK'
    BY DEF IInv, HostOK, PlanOK, QueueOK, HostSet, RunnerSet, TrialSet
  <1>5. HandInv'
    BY DEF IInv, HandInv, HostOK, QueueOK, HostSet, RunnerSet, TrialSet
  <1>6. TicketInv'
    BY DEF IInv, TicketInv, PlanOK, HostOK, QueueOK, HandInv, StartInv, InputInv, HostSet,
      RunnerSet, TrialSet
  <1>7. StartInv'
    BY DEF IInv, StartInv, HostOK, QueueOK, PlanOK, HandInv, TicketInv, HostSet, RunnerSet,
      TrialSet
  <1>8. OrderInv'
    BY DEF IInv, OrderInv, TicketInv, PlanOK, HostOK, QueueOK, HandInv, InputInv, HostSet,
      RunnerSet, TrialSet
  <1>9. InputInv'
    BY DEF IInv, InputInv, HostOK, QueueOK, HandInv, PlanOK, HostSet, RunnerSet, TrialSet
  <1>10. StepQuiet
    BY DEF IInv, StepQuiet, TicketInv, PlanOK, HostOK, InputInv
  <1> QED
    BY <1>1, <1>2, <1>3, <1>4, <1>5, <1>6, <1>7, <1>8, <1>9, <1>10 DEF IInv

LEMMA ClientEnqueuesInv ==
  ASSUME IInv, ClientEnqueues
  PROVE  IInv' /\ StepQuiet
  <1> USE DEF ClientEnqueues, planVars, hostVars, worldVars
  <1>1. QueueOK'
    <2>1. QueueOK /\ lock \in Client
      BY DEF IInv, QueueOK
    <2>2. commands' \in {commands, commands \cup {lock}} /\ lock' = NoCommand
          /\ UNCHANGED <<response, stop, argument, done>>
      BY Zenon DEF ClientEnqueues, hostVars
    <2>3. commands' \subseteq Command /\ done' \subseteq commands'
      BY <2>1, <2>2 DEF QueueOK
    <2> QED
      BY <2>1, <2>2, <2>3 DEF QueueOK
  <1>2. PlanOK'
    BY DEF IInv, PlanOK, HostOK, TicketInv, QueueOK, HostSet, RunnerSet, TrialSet
  <1>3. FlagsOK'
    BY Zenon DEF IInv, FlagsOK
  <1>4. HostOK'
    BY DEF IInv, HostOK, PlanOK, QueueOK, HostSet, RunnerSet, TrialSet
  <1>5. HandInv'
    BY DEF IInv, HandInv, HostOK, QueueOK, HostSet, RunnerSet, TrialSet
  <1>6. TicketInv'
    BY DEF IInv, TicketInv, PlanOK, HostOK, QueueOK, HandInv, StartInv, InputInv, HostSet,
      RunnerSet, TrialSet
  <1>7. StartInv'
    BY DEF IInv, StartInv, HostOK, QueueOK, PlanOK, HandInv, TicketInv, HostSet, RunnerSet,
      TrialSet
  <1>8. OrderInv'
    BY DEF IInv, OrderInv, TicketInv, PlanOK, HostOK, QueueOK, HandInv, InputInv, HostSet,
      RunnerSet, TrialSet
  <1>9. InputInv'
    BY DEF IInv, InputInv, HostOK, QueueOK, HandInv, PlanOK, HostSet, RunnerSet, TrialSet
  <1>10. StepQuiet
    BY DEF IInv, StepQuiet, TicketInv, PlanOK, HostOK, InputInv
  <1> QED
    BY <1>1, <1>2, <1>3, <1>4, <1>5, <1>6, <1>7, <1>8, <1>9, <1>10 DEF IInv

LEMMA StopMarkerInv ==
  ASSUME IInv, StopMarker
  PROVE  IInv' /\ StepQuiet
  <1> USE DEF StopMarker, Closing, HostUp, planVars, hostVars, worldVars
  <1>1. QueueOK'
    BY DEF IInv, QueueOK, PlanOK, HostOK, HandInv, InputInv
  <1>2. PlanOK'
    BY DEF IInv, PlanOK, HostOK, TicketInv, QueueOK, HostSet, RunnerSet, TrialSet
  <1>3. FlagsOK'
    BY Zenon DEF IInv, FlagsOK
  <1>4. HostOK'
    BY DEF IInv, HostOK, PlanOK, QueueOK, HostSet, RunnerSet, TrialSet
  <1>5. HandInv'
    BY DEF IInv, HandInv, HostOK, QueueOK, HostSet, RunnerSet, TrialSet
  <1>6. TicketInv'
    BY DEF IInv, TicketInv, PlanOK, HostOK, QueueOK, HandInv, StartInv, InputInv, HostSet,
      RunnerSet, TrialSet
  <1>7. StartInv'
    BY DEF IInv, StartInv, HostOK, QueueOK, PlanOK, HandInv, TicketInv, HostSet, RunnerSet,
      TrialSet
  <1>8. OrderInv'
    BY DEF IInv, OrderInv, TicketInv, PlanOK, HostOK, QueueOK, HandInv, InputInv, HostSet,
      RunnerSet, TrialSet
  <1>9. InputInv'
    BY DEF IInv, InputInv, HostOK, QueueOK, HandInv, PlanOK, HostSet, RunnerSet, TrialSet
  <1>10. StepQuiet
    BY DEF IInv, StepQuiet, TicketInv, PlanOK, HostOK, InputInv
  <1> QED
    BY <1>1, <1>2, <1>3, <1>4, <1>5, <1>6, <1>7, <1>8, <1>9, <1>10 DEF IInv

LEMMA StopCommandInv ==
  ASSUME IInv, StopCommand
  PROVE  IInv' /\ StepQuiet
  <1> USE DEF StopCommand, planVars, hostVars, worldVars
  <1>1. QueueOK'
    BY DEF IInv, QueueOK, PlanOK, HostOK, HandInv, InputInv
  <1>2. PlanOK'
    BY DEF IInv, PlanOK, HostOK, TicketInv, QueueOK, HostSet, RunnerSet, TrialSet
  <1>3. FlagsOK'
    BY Zenon DEF IInv, FlagsOK
  <1>4. HostOK'
    BY DEF IInv, HostOK, PlanOK, QueueOK, HostSet, RunnerSet, TrialSet
  <1>5. HandInv'
    BY DEF IInv, HandInv, HostOK, QueueOK, HostSet, RunnerSet, TrialSet
  <1>6. TicketInv'
    BY DEF IInv, TicketInv, PlanOK, HostOK, QueueOK, HandInv, StartInv, InputInv, HostSet,
      RunnerSet, TrialSet
  <1>7. StartInv'
    BY DEF IInv, StartInv, HostOK, QueueOK, PlanOK, HandInv, TicketInv, HostSet, RunnerSet,
      TrialSet
  <1>8. OrderInv'
    BY DEF IInv, OrderInv, TicketInv, PlanOK, HostOK, QueueOK, HandInv, InputInv, HostSet,
      RunnerSet, TrialSet
  <1>9. InputInv'
    BY DEF IInv, InputInv, HostOK, QueueOK, HandInv, PlanOK, HostSet, RunnerSet, TrialSet
  <1>10. StepQuiet
    BY DEF IInv, StepQuiet, TicketInv, PlanOK, HostOK, InputInv
  <1> QED
    BY <1>1, <1>2, <1>3, <1>4, <1>5, <1>6, <1>7, <1>8, <1>9, <1>10 DEF IInv

LEMMA StopLostInv ==
  ASSUME IInv, StopLost
  PROVE  IInv' /\ StepQuiet
  <1> USE DEF StopLost, planVars, hostVars
  <1>1. QueueOK'
    BY DEF IInv, QueueOK, PlanOK, HostOK, HandInv, InputInv
  <1>2. PlanOK'
    BY DEF IInv, PlanOK, HostOK, TicketInv, QueueOK, HostSet, RunnerSet, TrialSet
  <1>3. FlagsOK'
    BY Zenon DEF IInv, FlagsOK
  <1>4. HostOK'
    BY DEF IInv, HostOK, PlanOK, QueueOK, HostSet, RunnerSet, TrialSet
  <1>5. HandInv'
    BY DEF IInv, HandInv, HostOK, QueueOK, HostSet, RunnerSet, TrialSet
  <1>6. TicketInv'
    BY DEF IInv, TicketInv, PlanOK, HostOK, QueueOK, HandInv, StartInv, InputInv, HostSet,
      RunnerSet, TrialSet
  <1>7. StartInv'
    BY DEF IInv, StartInv, HostOK, QueueOK, PlanOK, HandInv, TicketInv, HostSet, RunnerSet,
      TrialSet
  <1>8. OrderInv'
    BY DEF IInv, OrderInv, TicketInv, PlanOK, HostOK, QueueOK, HandInv, InputInv, HostSet,
      RunnerSet, TrialSet
  <1>9. InputInv'
    BY DEF IInv, InputInv, HostOK, QueueOK, HandInv, PlanOK, HostSet, RunnerSet, TrialSet
  <1>10. StepQuiet
    BY DEF IInv, StepQuiet, TicketInv, PlanOK, HostOK, InputInv
  <1> QED
    BY <1>1, <1>2, <1>3, <1>4, <1>5, <1>6, <1>7, <1>8, <1>9, <1>10 DEF IInv

LEMMA PickInv ==
  ASSUME IInv, NEW c \in Command, Pick(c)
  PROVE  IInv' /\ StepQuiet
  <1> USE DEF Pick, At, queueVars, planVars, worldVars
  <1>1. QueueOK'
    BY DEF IInv, QueueOK, PlanOK, HostOK, HandInv, InputInv
  <1>2. PlanOK'
    BY DEF IInv, PlanOK, HostOK, TicketInv, QueueOK, HostSet, RunnerSet, TrialSet
  <1>3. FlagsOK'
    BY Zenon DEF IInv, FlagsOK
  <1>4. HostOK'
    BY DEF IInv, HostOK, PlanOK, QueueOK, HostSet, RunnerSet, TrialSet
  <1>5. HandInv'
    BY DEF IInv, HandInv, HostOK, QueueOK, HostSet, RunnerSet, TrialSet
  <1>6. TicketInv'
    BY DEF IInv, TicketInv, PlanOK, HostOK, QueueOK, HandInv, StartInv, InputInv, HostSet,
      RunnerSet, TrialSet
  <1>7. StartInv'
    BY DEF IInv, StartInv, HostOK, QueueOK, PlanOK, HandInv, TicketInv, HostSet, RunnerSet,
      TrialSet
  <1>8. OrderInv'
    BY DEF IInv, OrderInv, TicketInv, PlanOK, HostOK, QueueOK, HandInv, InputInv, HostSet,
      RunnerSet, TrialSet
  <1>9. InputInv'
    BY DEF IInv, InputInv, HostOK, QueueOK, HandInv, PlanOK, HostSet, RunnerSet, TrialSet
  <1>10. StepQuiet
    BY DEF IInv, StepQuiet, TicketInv, PlanOK, HostOK, InputInv
  <1> QED
    BY <1>1, <1>2, <1>3, <1>4, <1>5, <1>6, <1>7, <1>8, <1>9, <1>10 DEF IInv

LEMMA TickStopsInv ==
  ASSUME IInv, TickStops
  PROVE  IInv' /\ StepQuiet
  <1> USE DEF TickStops, Closing, At, Quiet, queueVars, planVars, worldVars
  <1>1. QueueOK'
    BY DEF IInv, QueueOK, PlanOK, HostOK, HandInv, InputInv
  <1>2. PlanOK'
    BY DEF IInv, PlanOK, HostOK, TicketInv, QueueOK, HostSet, RunnerSet, TrialSet
  <1>3. FlagsOK'
    BY Zenon DEF IInv, FlagsOK
  <1>4. HostOK'
    BY DEF IInv, HostOK, PlanOK, QueueOK, HostSet, RunnerSet, TrialSet
  <1>5. HandInv'
    BY DEF IInv, HandInv, HostOK, QueueOK, HostSet, RunnerSet, TrialSet
  <1>6. TicketInv'
    BY DEF IInv, TicketInv, PlanOK, HostOK, QueueOK, HandInv, StartInv, InputInv, HostSet,
      RunnerSet, TrialSet
  <1>7. StartInv'
    BY DEF IInv, StartInv, HostOK, QueueOK, PlanOK, HandInv, TicketInv, HostSet, RunnerSet,
      TrialSet
  <1>8. OrderInv'
    BY DEF IInv, OrderInv, TicketInv, PlanOK, HostOK, QueueOK, HandInv, InputInv, HostSet,
      RunnerSet, TrialSet
  <1>9. InputInv'
    BY DEF IInv, InputInv, HostOK, QueueOK, HandInv, PlanOK, HostSet, RunnerSet, TrialSet
  <1>10. StepQuiet
    BY DEF IInv, StepQuiet, TicketInv, PlanOK, HostOK, InputInv
  <1> QED
    BY <1>1, <1>2, <1>3, <1>4, <1>5, <1>6, <1>7, <1>8, <1>9, <1>10 DEF IInv

LEMMA TickWithdrawsInv ==
  ASSUME IInv, TickWithdraws
  PROVE  IInv' /\ StepQuiet
  <1> USE DEF TickWithdraws, Closing, At, Goto, Quiet, Unsubmitted, planVars, worldVars
  <1>1. QueueOK'
    <2>1. runner.ticket \in Step
      BY DEF Unsubmitted, IInv, PlanOK, RunnerSet
    <2>2. CASE runner.ticket \in commands
      BY <2>2 DEF IInv, QueueOK
    <2>3. CASE runner.ticket \notin commands
      <3>1. /\ commands' \subseteq Command /\ done' \subseteq commands'
        BY <2>1, <2>3 DEF IInv, QueueOK
      <3>2. \A d \in Command : response'[d] = IF d = runner.ticket THEN "withdrawn" ELSE response[d]
        BY <2>1, <2>3 DEF IInv, QueueOK
      <3>3. response' \in [Command -> StepResponse \cup ControlResponse]
        BY <2>1, <2>3 DEF IInv, QueueOK
      <3>4. /\ \A d \in Step : response'[d] \in StepResponse
            /\ \A d \in Client \cup {Close} : response'[d] \in ControlResponse
        BY <2>1, <3>2 DEF IInv, QueueOK
      <3> QED
        BY <3>1, <3>3, <3>4 DEF IInv, QueueOK
    <2> QED
      BY <2>2, <2>3
  <1>2. PlanOK'
    BY DEF IInv, PlanOK, HostOK, TicketInv, QueueOK, HostSet, RunnerSet, TrialSet
  <1>3. FlagsOK'
    BY Zenon DEF IInv, FlagsOK
  <1>4. HostOK'
    BY DEF IInv, HostOK, PlanOK, QueueOK, HostSet, RunnerSet, TrialSet
  <1>5. HandInv'
    BY DEF IInv, HandInv, HostOK, QueueOK, HostSet, RunnerSet, TrialSet
  <1>6. TicketInv'
    BY DEF IInv, TicketInv, PlanOK, HostOK, QueueOK, HandInv, StartInv, InputInv, HostSet,
      RunnerSet, TrialSet
  <1>7. StartInv'
    BY DEF IInv, StartInv, HostOK, QueueOK, PlanOK, HandInv, TicketInv, HostSet, RunnerSet,
      TrialSet
  <1>8. OrderInv'
    BY DEF IInv, OrderInv, TicketInv, PlanOK, HostOK, QueueOK, HandInv, InputInv, HostSet,
      RunnerSet, TrialSet
  <1>9. InputInv'
    BY DEF IInv, InputInv, HostOK, QueueOK, HandInv, PlanOK, HostSet, RunnerSet, TrialSet
  <1>10. StepQuiet
    BY DEF IInv, StepQuiet, TicketInv, PlanOK, HostOK, InputInv
  <1> QED
    BY <1>1, <1>2, <1>3, <1>4, <1>5, <1>6, <1>7, <1>8, <1>9, <1>10 DEF IInv

LEMMA TickDrivesInv ==
  ASSUME IInv, TickDrives
  PROVE  IInv' /\ StepQuiet
  <1> USE DEF TickDrives, Closing, At, Goto, Quiet, Unsubmitted, queueVars, planVars,
          worldVars
  <1>1. QueueOK'
    BY DEF IInv, QueueOK, PlanOK, HostOK, HandInv, InputInv
  <1>2. PlanOK'
    BY DEF IInv, PlanOK, HostOK, TicketInv, QueueOK, HostSet, RunnerSet, TrialSet
  <1>3. FlagsOK'
    BY Zenon DEF IInv, FlagsOK
  <1>4. HostOK'
    BY DEF IInv, HostOK, PlanOK, QueueOK, HostSet, RunnerSet, TrialSet
  <1>5. HandInv'
    BY DEF IInv, HandInv, HostOK, QueueOK, HostSet, RunnerSet, TrialSet
  <1>6. TicketInv'
    BY DEF IInv, TicketInv, PlanOK, HostOK, QueueOK, HandInv, StartInv, InputInv, HostSet,
      RunnerSet, TrialSet
  <1>7. StartInv'
    BY DEF IInv, StartInv, HostOK, QueueOK, PlanOK, HandInv, TicketInv, HostSet, RunnerSet,
      TrialSet
  <1>8. OrderInv'
    BY DEF IInv, OrderInv, TicketInv, PlanOK, HostOK, QueueOK, HandInv, InputInv, HostSet,
      RunnerSet, TrialSet
  <1>9. InputInv'
    BY DEF IInv, InputInv, HostOK, QueueOK, HandInv, PlanOK, HostSet, RunnerSet, TrialSet
  <1>10. StepQuiet
    BY DEF IInv, StepQuiet, TicketInv, PlanOK, HostOK, InputInv
  <1> QED
    BY <1>1, <1>2, <1>3, <1>4, <1>5, <1>6, <1>7, <1>8, <1>9, <1>10 DEF IInv

LEMMA DriveEndsInv ==
  ASSUME IInv, DriveEnds
  PROVE  IInv' /\ StepQuiet
  <1> USE DEF DriveEnds, At, Goto, queueVars, planVars, worldVars
  <1>1. QueueOK'
    BY DEF IInv, QueueOK, PlanOK, HostOK, HandInv, InputInv
  <1>2. PlanOK'
    BY DEF IInv, PlanOK, HostOK, TicketInv, QueueOK, HostSet, RunnerSet, TrialSet
  <1>3. FlagsOK'
    BY Zenon DEF IInv, FlagsOK
  <1>4. HostOK'
    BY DEF IInv, HostOK, PlanOK, QueueOK, HostSet, RunnerSet, TrialSet
  <1>5. HandInv'
    BY DEF IInv, HandInv, HostOK, QueueOK, HostSet, RunnerSet, TrialSet
  <1>6. TicketInv'
    BY DEF IInv, TicketInv, PlanOK, HostOK, QueueOK, HandInv, StartInv, InputInv, HostSet,
      RunnerSet, TrialSet
  <1>7. StartInv'
    BY DEF IInv, StartInv, HostOK, QueueOK, PlanOK, HandInv, TicketInv, HostSet, RunnerSet,
      TrialSet
  <1>8. OrderInv'
    BY DEF IInv, OrderInv, TicketInv, PlanOK, HostOK, QueueOK, HandInv, InputInv, HostSet,
      RunnerSet, TrialSet
  <1>9. InputInv'
    BY DEF IInv, InputInv, HostOK, QueueOK, HandInv, PlanOK, HostSet, RunnerSet, TrialSet
  <1>10. StepQuiet
    BY DEF IInv, StepQuiet, TicketInv, PlanOK, HostOK, InputInv
  <1> QED
    BY <1>1, <1>2, <1>3, <1>4, <1>5, <1>6, <1>7, <1>8, <1>9, <1>10 DEF IInv

LEMMA DriveTicketInv ==
  ASSUME IInv, DriveTicket
  PROVE  IInv' /\ StepQuiet
  <1>1. /\ PlanOK /\ HostOK /\ runner.ticket # 0 /\ runner.ticket \in Step
        /\ host.at \in Ticketed \cup {"drive"}
    BY DEF IInv, TicketInv, PlanOK, RunnerSet, DriveTicket, At
  <1>2. Advances
    BY <1>1 DEF IInv, TicketInv, PlanOK, HostOK, HostSet, DriveTicket, At, Goto, queueVars,
      planVars, worldVars, Advances, SameQueue,
          RunnerTo
  <1> QED
    BY <1>1, <1>2, AdvanceInv

LEMMA DriveFinishesInv ==
  ASSUME IInv, DriveFinishes
  PROVE  IInv' /\ StepQuiet
  <1> USE DEF DriveFinishes, At, Goto, queueVars, worldVars
  <1>1. QueueOK'
    BY DEF IInv, QueueOK, PlanOK, HostOK, HandInv, InputInv
  <1>2. PlanOK'
    BY DEF IInv, PlanOK, HostOK, TicketInv, QueueOK, HostSet, RunnerSet, TrialSet
  <1>3. FlagsOK'
    BY Zenon DEF IInv, FlagsOK
  <1>4. HostOK'
    BY DEF IInv, HostOK, PlanOK, QueueOK, HostSet, RunnerSet, TrialSet
  <1>5. HandInv'
    BY DEF IInv, HandInv, HostOK, QueueOK, HostSet, RunnerSet, TrialSet
  <1>6. TicketInv'
    BY DEF IInv, TicketInv, PlanOK, HostOK, QueueOK, HandInv, StartInv, InputInv, HostSet,
      RunnerSet, TrialSet
  <1>7. StartInv'
    BY DEF IInv, StartInv, HostOK, QueueOK, PlanOK, HandInv, TicketInv, HostSet, RunnerSet,
      TrialSet
  <1>8. OrderInv'
    BY DEF IInv, OrderInv, TicketInv, PlanOK, HostOK, QueueOK, HandInv, InputInv, HostSet,
      RunnerSet, TrialSet
  <1>9. InputInv'
    BY DEF IInv, InputInv, HostOK, QueueOK, HandInv, PlanOK, HostSet, RunnerSet, TrialSet
  <1>10. StepQuiet
    BY DEF IInv, StepQuiet, TicketInv, PlanOK, HostOK, InputInv
  <1> QED
    BY <1>1, <1>2, <1>3, <1>4, <1>5, <1>6, <1>7, <1>8, <1>9, <1>10 DEF IInv

LEMMA DrivePreparesInv ==
  ASSUME IInv, DrivePrepares
  PROVE  IInv' /\ StepQuiet
  <1>a. /\ host.at = "drive" /\ runner.ticket = 0 /\ trial.status = "ready"
        /\ PlanOK /\ HostOK /\ trial.step \in Step /\ ~trial.pending
    BY DEF IInv, PlanOK, TrialSet, DrivePrepares, At, TicketInv
  <1>b. /\ TrialTo("pending", TRUE, trial.step)
        /\ UNCHANGED <<verdict, unsure, active, job, inputs, lock, stop, argument, commands>>
    BY <1>a DEF DrivePrepares, PlanOK, TrialTo, TrialSet
  <1>1. CASE /\ runner' = [runner EXCEPT !.state = "dispatching", !.ticket = trial.step,
                              !.dispatch = "dispatching", !.wait = NoWait]
             /\ Goto("submit") /\ UNCHANGED <<response, enabled, done, faults>>
    <2>a. RunnerTo(trial.step)
      <3>1. runner' = [state |-> "dispatching", ticket |-> trial.step,
                       dispatch |-> "dispatching", wait |-> NoWait, cancel |-> runner.cancel]
        BY <1>a, <1>1 DEF PlanOK, RunnerSet
      <3>2. trial.step \in 0..MaxStep
        BY <1>a
      <3>3. runner.cancel \in Cancel \cup {NoCommand}
        BY <1>a DEF PlanOK, RunnerSet
      <3> QED
        BY <3>1, <3>2, <3>3, NoWaitIsOne DEF RunnerTo, RunnerSet
    <2>b. HostTo("submit")
      BY <1>a, <1>1, HostMoves DEF HostTo, Goto
    <2>c. SameQueue /\ UNCHANGED <<enabled, faults>>
      BY <1>1, <1>b DEF SameQueue
    <2>1. QueueOK'
      BY <1>a, <1>b, <2>a, <2>b, <2>c DEF IInv, QueueOK, PlanOK, HostOK, HandInv, InputInv,
        SameQueue, HostTo,
          RunnerTo, TrialTo
    <2>2. PlanOK'
      BY <1>a, <1>b, <2>a, <2>b, <2>c DEF IInv, PlanOK, HostOK, TicketInv, QueueOK, SameQueue,
        HostTo, RunnerTo,
          TrialTo
    <2>3. FlagsOK'
      BY <1>b, <2>c, Zenon DEF IInv, FlagsOK
    <2>4. HostOK'
      BY <1>a, <1>b, <2>a, <2>b, <2>c DEF IInv, HostOK, PlanOK, QueueOK, SameQueue, HostTo,
        RunnerTo, TrialTo
    <2>5. HandInv'
      BY <1>a, <1>b, <2>a, <2>b, <2>c DEF IInv, HandInv, HostOK, QueueOK, SameQueue, HostTo,
        RunnerTo, TrialTo
    <2>6. TicketInv'
      BY <1>a, <1>b, <2>a, <2>b, <2>c DEF IInv, TicketInv, PlanOK, HostOK, QueueOK, HandInv,
        StartInv, InputInv,
          SameQueue, HostTo, RunnerTo, TrialTo
    <2>7. StartInv'
      BY <1>a, <1>b, <2>a, <2>b, <2>c DEF IInv, StartInv, HostOK, QueueOK, PlanOK, HandInv,
        TicketInv, SameQueue,
          HostTo, RunnerTo, TrialTo
    <2>8. OrderInv'
      BY <1>a, <1>b, <2>a, <2>b, <2>c DEF IInv, OrderInv, TicketInv, PlanOK, HostOK, QueueOK,
        HandInv, InputInv,
          SameQueue, HostTo, RunnerTo, TrialTo
    <2>9. InputInv'
      BY <1>a, <1>b, <2>a, <2>b, <2>c DEF IInv, InputInv, HostOK, QueueOK, HandInv, PlanOK,
        SameQueue, HostTo,
          RunnerTo, TrialTo
    <2>10. StepQuiet
      BY <1>a, <1>b, <2>a, <2>b, <2>c DEF StepQuiet
    <2> QED
      BY <2>1, <2>2, <2>3, <2>4, <2>5, <2>6, <2>7, <2>8, <2>9, <2>10 DEF IInv
  <1>2. CASE Fails /\ Raise /\ host' = Idle /\ UNCHANGED runner
    <2>a. Replies
      BY <1>a, <1>b, <1>2, RaiseEffect
    <2>b. enabled' \in {enabled, FALSE}
      BY <1>2, Zenon DEF Raise
    <2>c. runner' = runner /\ faults' \in 0..MaxFaults
      BY <1>a, <1>2 DEF Fails, HostOK
    <2>1. QueueOK'
      BY <1>a, <1>b, <2>a, <2>c DEF IInv, QueueOK, PlanOK, HostOK, HandInv, InputInv,
        HostIdles, Replies,
          TrialTo
    <2>2. PlanOK'
      BY <1>a, <1>b, <2>a, <2>c DEF IInv, PlanOK, HostOK, TicketInv, QueueOK, HostIdles,
        Replies, TrialTo
    <2>3. FlagsOK'
      BY <1>b, <2>b, Zenon DEF IInv, FlagsOK
    <2>4. HostOK'
      BY <1>a, <1>b, <2>a, <2>c DEF IInv, HostOK, PlanOK, QueueOK, HostIdles, Replies, TrialTo
    <2>5. HandInv'
      BY <1>a, <1>b, <2>a, <2>c DEF IInv, HandInv, HostOK, QueueOK, HostIdles, Replies, TrialTo
    <2>6. TicketInv'
      BY <1>a, <1>b, <2>a, <2>c DEF IInv, TicketInv, PlanOK, HostOK, QueueOK, HandInv,
        StartInv, InputInv,
          HostIdles, Replies, TrialTo
    <2>7. StartInv'
      BY <1>a, <1>b, <2>a, <2>c DEF IInv, StartInv, HostOK, QueueOK, PlanOK, HandInv,
        TicketInv, HostIdles,
          Replies, TrialTo
    <2>8. OrderInv'
      BY <1>a, <1>b, <2>a, <2>c DEF IInv, OrderInv, TicketInv, PlanOK, HostOK, QueueOK,
        HandInv, InputInv,
          HostIdles, Replies, TrialTo
    <2>9. InputInv'
      BY <1>a, <1>b, <2>a, <2>c DEF IInv, InputInv, HostOK, QueueOK, HandInv, PlanOK,
        HostIdles, Replies,
          TrialTo
    <2>10. StepQuiet
      BY <1>a, <1>b, <2>a, <2>c DEF StepQuiet
    <2> QED
      BY <2>1, <2>2, <2>3, <2>4, <2>5, <2>6, <2>7, <2>8, <2>9, <2>10 DEF IInv
  <1> QED
    BY <1>1, <1>2 DEF DrivePrepares

LEMMA SubmitLooksInv ==
  ASSUME IInv, SubmitLooks
  PROVE  IInv' /\ StepQuiet
  <1>1. /\ PlanOK /\ HostOK /\ runner.ticket # 0 /\ runner.ticket \in Step
        /\ host.at \in Ticketed \cup {"drive"}
    BY DEF IInv, TicketInv, PlanOK, RunnerSet, SubmitLooks, At
  <1>2. Advances
    <2>1. /\ SameQueue /\ UNCHANGED <<trial, verdict, active, enabled, job, inputs, faults>>
          /\ unsure' \in {unsure, unsure \cup {runner.ticket}}
      BY DEF SameQueue, SubmitLooks, At, Goto, Defer, Refuse, queueVars, worldVars
    <2>2. \/ runner' = [WaitFor("queue_busy") EXCEPT !.dispatch = "deferred"]
           \/ runner' = [runner EXCEPT !.dispatch = "dispatching"]
      BY DEF SubmitLooks, At, Goto, Defer, Refuse, queueVars, worldVars
    <2>3. RunnerTo(runner.ticket)
      BY <1>1, <2>2, RunnerWaits, RunnerDispatches DEF RunnerTo, PlanOK
    <2>4. \/ host' = [host EXCEPT !.at = "end"]
           \/ host' = [host EXCEPT !.at = "reconcile"]
           \/ host' = [host EXCEPT !.at = "enqueue", !.input = TRUE]
      BY DEF SubmitLooks, At, Goto, Defer, Refuse, queueVars, worldVars
    <2>5. /\ host' \in HostSet /\ host'.command = host.command /\ host'.verdict = host.verdict
          /\ host'.at \in {"end", "reconcile", "enqueue"}
      <3>1. CASE host' = [host EXCEPT !.at = "end"]
        <4>1. "end" \in Place /\ HostOK
          BY <1>1
        <4> HIDE DEF Place
        <4> QED
          BY <3>1, <4>1 DEF HostOK, HostSet
      <3>2. CASE host' = [host EXCEPT !.at = "reconcile"]
        <4>1. "reconcile" \in Place /\ HostOK
          BY <1>1
        <4> HIDE DEF Place
        <4> QED
          BY <3>2, <4>1 DEF HostOK, HostSet
      <3>3. CASE host' = [host EXCEPT !.at = "enqueue", !.input = TRUE]
        <4>1. "enqueue" \in Place /\ HostOK
          BY <1>1
        <4> HIDE DEF Place
        <4> QED
          BY <3>3, <4>1 DEF HostOK, HostSet
      <3> QED
        BY <2>4, <3>1, <3>2, <3>3
    <2> QED
      BY <1>1, <2>1, <2>3, <2>5 DEF IInv, TicketInv, HostOK, PlanOK, Advances, SubmitLooks, At
  <1> QED
    BY <1>1, <1>2, AdvanceInv

LEMMA SubmitEnqueuesInv ==
  ASSUME IInv, SubmitEnqueues
  PROVE  IInv' /\ StepQuiet
  <1>a. /\ host.at = "enqueue" /\ runner.ticket # 0 /\ runner.ticket \in Step
        /\ PlanOK /\ HostOK /\ QueueOK
        /\ host.command # NoCommand => host.command \in Control \cap commands
    BY DEF IInv, TicketInv, PlanOK, RunnerSet, SubmitEnqueues, At, HandInv
  <1>b. /\ UNCHANGED <<trial, verdict, unsure, active, job, inputs, lock, stop, argument>>
        /\ commands' = commands \cup {runner.ticket}
    BY DEF SubmitEnqueues
  <1>t. /\ commands' \subseteq Command /\ commands \subseteq commands'
        /\ \A t \in Step : t \in commands' => t \in commands \/ t = runner.ticket
    BY <1>a, <1>b DEF QueueOK
  <1>1. CASE /\ runner' = [runner EXCEPT !.dispatch = "submitted"]
             /\ Goto("reconcile") /\ UNCHANGED <<response, enabled, done, faults>>
    <2>a. RunnerTo(runner.ticket) /\ HostTo("reconcile")
      BY <1>a, <1>1, RunnerDispatches, HostMoves DEF RunnerTo, HostTo, Goto
    <2>1. QueueOK'
      BY <1>a, <1>b, <1>t, <1>1, <2>a DEF IInv, QueueOK, PlanOK, HostOK, HandInv, InputInv,
        RunnerTo, HostTo
    <2>2. PlanOK'
      BY <1>a, <1>b, <1>t, <1>1, <2>a DEF IInv, PlanOK, HostOK, TicketInv, QueueOK, RunnerTo,
        HostTo
    <2>3. FlagsOK'
      BY <1>b, <1>1, Zenon DEF IInv, FlagsOK
    <2>4. HostOK'
      BY <1>a, <1>b, <1>t, <1>1, <2>a DEF IInv, HostOK, PlanOK, QueueOK, RunnerTo, HostTo
    <2>5. HandInv'
      BY <1>a, <1>b, <1>t, <1>1, <2>a DEF IInv, HandInv, HostOK, QueueOK, RunnerTo, HostTo
    <2>6. TicketInv'
      BY <1>a, <1>b, <1>t, <1>1, <2>a DEF IInv, TicketInv, PlanOK, HostOK, QueueOK, HandInv,
        StartInv, InputInv,
          RunnerTo, HostTo
    <2>7. StartInv'
      BY <1>a, <1>b, <1>t, <1>1, <2>a DEF IInv, StartInv, HostOK, QueueOK, PlanOK, HandInv,
        TicketInv, RunnerTo,
          HostTo
    <2>8. OrderInv'
      BY <1>a, <1>b, <1>t, <1>1, <2>a DEF IInv, OrderInv, TicketInv, PlanOK, HostOK, QueueOK,
        HandInv, InputInv,
          RunnerTo, HostTo
    <2>9. InputInv'
      BY <1>a, <1>b, <1>t, <1>1, <2>a DEF IInv, InputInv, HostOK, QueueOK, HandInv, PlanOK,
        RunnerTo, HostTo
    <2>10. StepQuiet
      BY <1>a, <1>b, <1>t, <1>1, <2>a DEF StepQuiet
    <2> QED
      BY <2>1, <2>2, <2>3, <2>4, <2>5, <2>6, <2>7, <2>8, <2>9, <2>10 DEF IInv
  <1>2. CASE Fails /\ Raise /\ host' = Idle /\ UNCHANGED runner
    <2>a. HostIdles
      BY <1>2, HostIdle DEF HostIdles
    <2>b. enabled' \in {enabled, FALSE}
      BY <1>2, Zenon DEF Raise
    <2>c. runner' = runner /\ faults' \in 0..MaxFaults
      BY <1>a, <1>2 DEF Fails, HostOK
    <2>d. /\ \A d \in Command \ {host.command} : response'[d] = response[d]
          /\ done' = done \cup ({host.command} \ {NoCommand})
          /\ response' \in [Command -> StepResponse \cup ControlResponse]
          /\ \A d \in Step : response'[d] \in StepResponse
          /\ \A d \in Client \cup {Close} : response'[d] \in ControlResponse
      <3>1. CASE host.command = NoCommand
        <4>1. UNCHANGED <<response, done>>
          BY <1>2, <3>1 DEF Raise
        <4> QED
          BY <1>a, <3>1, <4>1 DEF QueueOK
      <3>2. CASE host.command # NoCommand
        <4>1. PICK r \in {"failed", "rejected"} : Respond(host.command, r)
          BY <1>2, <3>2 DEF Raise
        <4>2. host.command \in Command /\ host.command \notin Step
          BY <1>a, <3>2
        <4>3. \A d \in Command : response'[d] = IF d = host.command THEN r ELSE response[d]
          BY <1>a, <4>1 DEF Respond, QueueOK
        <4>4. response' \in [Command -> StepResponse \cup ControlResponse]
          BY <1>a, <4>1 DEF Respond, QueueOK
        <4>5. done' = done \cup ({host.command} \ {NoCommand})
          BY <3>2, <4>1 DEF Respond
        <4>6. \A d \in Step : response'[d] \in StepResponse
          <5>1. \A d \in Step : d \in Command /\ d # host.command /\ response[d] \in StepResponse
            BY <1>a, <4>2 DEF QueueOK
          <5> HIDE DEF Step, Command, StepResponse
          <5> QED
            BY <4>3, <5>1
        <4>7. \A d \in Client \cup {Close} : response'[d] \in ControlResponse
          <5>1. \A d \in Client \cup {Close} : d \in Command /\ response[d] \in ControlResponse
            BY <1>a DEF QueueOK
          <5>2. r \in ControlResponse
            OBVIOUS
          <5> HIDE DEF Client, Command, ControlResponse
          <5> QED
            BY <4>3, <5>1, <5>2
        <4> QED
          BY <4>3, <4>4, <4>5, <4>6, <4>7
      <3> QED
        BY <3>1, <3>2
    <2>1. QueueOK'
      <3>1. done' \subseteq commands'
        <4>1. done \subseteq commands /\ (host.command # NoCommand => host.command \in commands)
          BY <1>a DEF QueueOK
        <4> HIDE DEF Step
        <4> QED
          BY <1>t, <2>d, <4>1
      <3> QED
        BY <1>a, <1>b, <1>t, <2>d, <3>1 DEF QueueOK
    <2>2. PlanOK'
      BY <1>a, <1>b, <1>t, <2>a, <2>c, <2>d DEF IInv, PlanOK, HostOK, TicketInv, QueueOK,
        HostIdles
    <2>3. FlagsOK'
      BY <1>b, <2>b, Zenon DEF IInv, FlagsOK
    <2>4. HostOK'
      BY <1>a, <1>b, <1>t, <2>a, <2>c, <2>d DEF IInv, HostOK, PlanOK, QueueOK, HostIdles
    <2>5. HandInv'
      BY <1>a, <1>b, <1>t, <2>a, <2>c, <2>d DEF IInv, HandInv, HostOK, QueueOK, HostIdles
    <2>6. TicketInv'
      BY <1>a, <1>b, <1>t, <2>a, <2>c, <2>d DEF IInv, TicketInv, PlanOK, HostOK, QueueOK,
        HandInv, StartInv, InputInv,
          HostIdles
    <2>7. StartInv'
      BY <1>a, <1>b, <1>t, <2>a, <2>c, <2>d DEF IInv, StartInv, HostOK, QueueOK, PlanOK,
        HandInv, TicketInv, HostIdles
    <2>8. OrderInv'
      BY <1>a, <1>b, <1>t, <2>a, <2>c, <2>d DEF IInv, OrderInv, TicketInv, PlanOK, HostOK,
        QueueOK, HandInv, InputInv,
          HostIdles
    <2>9. InputInv'
      BY <1>a, <1>b, <1>t, <2>a, <2>c, <2>d DEF IInv, InputInv, HostOK, QueueOK, HandInv,
        PlanOK, HostIdles
    <2>10. StepQuiet
      BY <1>a, <1>b, <1>t, <2>a, <2>c, <2>d DEF StepQuiet
    <2> QED
      BY <2>1, <2>2, <2>3, <2>4, <2>5, <2>6, <2>7, <2>8, <2>9, <2>10 DEF IInv
  <1> QED
    BY <1>1, <1>2 DEF SubmitEnqueues

LEMMA SubmitDefersInv ==
  ASSUME IInv, SubmitDefers
  PROVE  IInv' /\ StepQuiet
  <1>1. /\ PlanOK /\ HostOK /\ runner.ticket # 0 /\ runner.ticket \in Step
        /\ host.at \in Ticketed \cup {"drive"}
    BY DEF IInv, TicketInv, PlanOK, RunnerSet, SubmitDefers, At
  <1>2. Advances
    <2>1. /\ SameQueue /\ UNCHANGED <<trial, verdict, active, enabled, job, inputs, faults>>
          /\ unsure' \in {unsure, unsure \cup {runner.ticket}}
      BY DEF SameQueue, SubmitDefers, At, Goto, Defer, queueVars, worldVars
    <2>2. \/ runner' = [WaitFor("queue_busy") EXCEPT !.dispatch = "deferred"]
      BY DEF SubmitDefers, At, Goto, Defer, queueVars, worldVars
    <2>3. RunnerTo(runner.ticket)
      BY <1>1, <2>2, RunnerWaits, RunnerDispatches DEF RunnerTo, PlanOK
    <2>4. \/ host' = [host EXCEPT !.at = "end"]
      BY DEF SubmitDefers, At, Goto, Defer, queueVars, worldVars
    <2>5. /\ host' \in HostSet /\ host'.command = host.command /\ host'.verdict = host.verdict
          /\ host'.at \in {"end"}
      BY <1>1, <2>4, HostMoves
    <2> QED
      BY <1>1, <2>1, <2>3, <2>5 DEF IInv, TicketInv, HostOK, PlanOK, Advances, SubmitDefers, At
  <1> QED
    BY <1>1, <1>2, AdvanceInv

LEMMA SubmitRefusedInv ==
  ASSUME IInv, SubmitRefused
  PROVE  IInv' /\ StepQuiet
  <1>1. /\ PlanOK /\ HostOK /\ runner.ticket # 0 /\ runner.ticket \in Step
        /\ host.at \in Ticketed \cup {"drive"}
    BY DEF IInv, TicketInv, PlanOK, RunnerSet, SubmitRefused, At
  <1>2. Advances
    <2>1. /\ SameQueue /\ UNCHANGED <<trial, verdict, active, enabled, job, inputs, faults>>
          /\ unsure' \in {unsure, unsure \cup {runner.ticket}}
      BY DEF SameQueue, SubmitRefused, At, Goto, Refuse, queueVars, worldVars
    <2>2. \/ runner' = [runner EXCEPT !.dispatch = "dispatching"]
      BY DEF SubmitRefused, At, Goto, Refuse, queueVars, worldVars
    <2>3. RunnerTo(runner.ticket)
      BY <1>1, <2>2, RunnerWaits, RunnerDispatches DEF RunnerTo, PlanOK
    <2>4. \/ host' = [host EXCEPT !.at = "reconcile"]
      BY DEF SubmitRefused, At, Goto, Refuse, queueVars, worldVars
    <2>5. /\ host' \in HostSet /\ host'.command = host.command /\ host'.verdict = host.verdict
          /\ host'.at \in {"reconcile"}
      BY <1>1, <2>4, HostMoves
    <2> QED
      BY <1>1, <2>1, <2>3, <2>5 DEF IInv, TicketInv, HostOK, PlanOK, Advances, SubmitRefused, At
  <1> QED
    BY <1>1, <1>2, AdvanceInv

LEMMA ReconcileSettledInv ==
  ASSUME IInv, ReconcileSettled
  PROVE  IInv' /\ StepQuiet
  <1>1. /\ PlanOK /\ HostOK /\ runner.ticket # 0 /\ runner.ticket \in Step
        /\ host.at \in Ticketed \cup {"drive"}
    BY DEF IInv, TicketInv, PlanOK, RunnerSet, ReconcileSettled, At
  <1>2. Advances
    BY <1>1 DEF IInv, TicketInv, PlanOK, HostOK, HostSet, ReconcileSettled, At, Goto, Reviewed,
      queueVars, planVars, worldVars,
          Advances, SameQueue, RunnerTo
  <1> QED
    BY <1>1, <1>2, AdvanceInv

LEMMA ReconcileWaitsInv ==
  ASSUME IInv, ReconcileWaits
  PROVE  IInv' /\ StepQuiet
  <1>1. /\ PlanOK /\ HostOK /\ runner.ticket # 0 /\ runner.ticket \in Step
        /\ host.at \in Ticketed \cup {"drive"}
    BY DEF IInv, TicketInv, PlanOK, RunnerSet, ReconcileWaits, At
  <1>2. Advances
    <2>1. /\ SameQueue /\ UNCHANGED <<trial, verdict, active, enabled, job, inputs, faults>>
          /\ unsure' \in {unsure, unsure \cup {runner.ticket}}
      BY DEF SameQueue, ReconcileWaits, At, Goto, WaitAndEnd, queueVars, worldVars
    <2>2. \/ runner' = WaitFor("execution_pending")
           \/ runner' = WaitFor("result_unknown")
      BY DEF ReconcileWaits, At, Goto, WaitAndEnd, queueVars, worldVars
    <2>3. RunnerTo(runner.ticket)
      BY <1>1, <2>2, RunnerWaits, RunnerDispatches DEF RunnerTo, PlanOK
    <2>4. \/ host' = [host EXCEPT !.at = "end"]
      BY DEF ReconcileWaits, At, Goto, WaitAndEnd, queueVars, worldVars
    <2>5. /\ host' \in HostSet /\ host'.command = host.command /\ host'.verdict = host.verdict
          /\ host'.at \in {"end"}
      BY <1>1, <2>4, HostMoves
    <2> QED
      BY <1>1, <2>1, <2>3, <2>5 DEF IInv, TicketInv, HostOK, PlanOK, Advances, ReconcileWaits,
        At
  <1> QED
    BY <1>1, <1>2, AdvanceInv

LEMMA ReconcileEndedInv ==
  ASSUME IInv, ReconcileEnded
  PROVE  IInv' /\ StepQuiet
  <1>1. /\ PlanOK /\ HostOK /\ runner.ticket # 0 /\ runner.ticket \in Step
        /\ host.at \in Ticketed \cup {"drive"}
    BY DEF IInv, TicketInv, PlanOK, RunnerSet, ReconcileEnded, At
  <1>2. Advances
    BY <1>1 DEF IInv, TicketInv, PlanOK, HostOK, HostSet, ReconcileEnded, At, Goto, Reviewed,
      queueVars, planVars, worldVars,
          Advances, SameQueue, RunnerTo
  <1> QED
    BY <1>1, <1>2, AdvanceInv

LEMMA VerifyBeginsInv ==
  ASSUME IInv, VerifyBegins
  PROVE  IInv' /\ StepQuiet
  <1>1. /\ PlanOK /\ HostOK /\ runner.ticket # 0 /\ runner.ticket \in Step
        /\ host.at \in Ticketed \cup {"drive"}
    BY DEF IInv, TicketInv, PlanOK, RunnerSet, VerifyBegins, At
  <1>2. Advances
    <2>1. /\ SameQueue /\ UNCHANGED <<trial, verdict, active, enabled, job, inputs, faults>>
          /\ unsure' \in {unsure, unsure \cup {runner.ticket}}
      BY DEF SameQueue, VerifyBegins, At, Goto, WaitAndEnd, queueVars, planVars, worldVars
    <2>2. \/ runner' = runner
           \/ runner' = WaitFor("verification_required")
      BY DEF VerifyBegins, At, Goto, WaitAndEnd, queueVars, planVars, worldVars
    <2>3. RunnerTo(runner.ticket)
      BY <1>1, <2>2, RunnerWaits, RunnerDispatches DEF RunnerTo, PlanOK
    <2>4. \/ host' = [host EXCEPT !.at = "end"]
           \/ host' = [host EXCEPT !.at = "judge"]
      BY DEF VerifyBegins, At, Goto, WaitAndEnd, queueVars, planVars, worldVars
    <2>5. /\ host' \in HostSet /\ host'.command = host.command /\ host'.verdict = host.verdict
          /\ host'.at \in {"end", "judge"}
      BY <1>1, <2>4, HostMoves
    <2> QED
      BY <1>1, <2>1, <2>3, <2>5 DEF IInv, TicketInv, HostOK, PlanOK, Advances, VerifyBegins, At
  <1> QED
    BY <1>1, <1>2, AdvanceInv

LEMMA VerifyUnsureInv ==
  ASSUME IInv, VerifyUnsure
  PROVE  IInv' /\ StepQuiet
  <1>1. /\ PlanOK /\ HostOK /\ runner.ticket # 0 /\ runner.ticket \in Step
        /\ host.at \in Ticketed \cup {"drive"}
    BY DEF IInv, TicketInv, PlanOK, RunnerSet, VerifyUnsure, At
  <1>2. Advances
    <2>1. /\ SameQueue /\ UNCHANGED <<trial, verdict, active, enabled, job, inputs, faults>>
          /\ unsure' \in {unsure, unsure \cup {runner.ticket}}
      BY DEF SameQueue, VerifyUnsure, At, Goto, queueVars, worldVars
    <2>2. \/ runner' = WaitFor("verification_required")
      BY DEF VerifyUnsure, At, Goto, queueVars, worldVars
    <2>3. RunnerTo(runner.ticket)
      BY <1>1, <2>2, RunnerWaits, RunnerDispatches DEF RunnerTo, PlanOK
    <2>4. \/ host' = [host EXCEPT !.at = "end"]
      BY DEF VerifyUnsure, At, Goto, queueVars, worldVars
    <2>5. /\ host' \in HostSet /\ host'.command = host.command /\ host'.verdict = host.verdict
          /\ host'.at \in {"end"}
      BY <1>1, <2>4, HostMoves
    <2> QED
      BY <1>1, <2>1, <2>3, <2>5 DEF IInv, TicketInv, HostOK, PlanOK, Advances, VerifyUnsure, At
  <1> QED
    BY <1>1, <1>2, AdvanceInv

LEMMA VerifyJudgesInv ==
  ASSUME IInv, VerifyJudges
  PROVE  IInv' /\ StepQuiet
  <1>1. /\ PlanOK /\ HostOK /\ runner.ticket # 0 /\ runner.ticket \in Step
        /\ host.at \in Ticketed \cup {"drive"}
    BY DEF IInv, TicketInv, PlanOK, RunnerSet, VerifyJudges, At
  <1>2. Advances
    <2>1. /\ SameQueue /\ UNCHANGED <<trial, verdict, active, enabled, job, inputs, faults>>
          /\ unsure' \in {unsure, unsure \cup {runner.ticket}}
      BY DEF SameQueue, VerifyJudges, At, Goto, WaitAndEnd, queueVars, planVars, worldVars
    <2>2. \/ runner' = runner
           \/ runner' = WaitFor("verification_required")
      BY DEF VerifyJudges, At, Goto, WaitAndEnd, queueVars, planVars, worldVars
    <2>3. RunnerTo(runner.ticket)
      BY <1>1, <2>2, RunnerWaits, RunnerDispatches DEF RunnerTo, PlanOK
    <2>4. \/ host' = [host EXCEPT !.at = "end"]
          \/ host' = [host EXCEPT !.at = "record", !.verdict = Judgment(runner.ticket)]
      BY DEF VerifyJudges, At, Goto, WaitAndEnd, queueVars, planVars, worldVars
    <2>5. response[runner.ticket] \in StepResponse \ {"none", "running"} /\ trial.pending
      BY <1>1 DEF IInv, QueueOK, TicketInv, VerifyJudges, At
    <2>6. /\ Judgment(runner.ticket) \in {"success", "failure"}
          /\ Judgment(runner.ticket) = "success" => response[runner.ticket] = "success"
      BY <2>5 DEF Judgment, VerifyJudges
    <2>7. /\ host' \in HostSet /\ host'.command = host.command
          /\ \/ host'.at = "end"
             \/ host'.at = "record" /\ host'.verdict = Judgment(runner.ticket)
      <3>1. CASE host' = [host EXCEPT !.at = "end"]
        BY <1>1, <3>1, HostMoves
      <3>2. CASE host' = [host EXCEPT !.at = "record", !.verdict = Judgment(runner.ticket)]
        <4>1. Judgment(runner.ticket) \in StepVerdict /\ "record" \in Place /\ HostOK
          BY <1>1, <2>6
        <4> HIDE DEF StepVerdict, Place
        <4> QED
          BY <3>2, <4>1 DEF HostOK, HostSet
      <3> QED
        BY <2>4, <3>1, <3>2
    <2> QED
      BY <1>1, <2>1, <2>3, <2>5, <2>6, <2>7 DEF IInv, HostOK, PlanOK, Advances
  <1> QED
    BY <1>1, <1>2, AdvanceInv

LEMMA RecordLooksInv ==
  ASSUME IInv, RecordLooks
  PROVE  IInv' /\ StepQuiet
  <1>1. /\ PlanOK /\ HostOK /\ runner.ticket # 0 /\ runner.ticket \in Step
        /\ host.at \in Ticketed \cup {"drive"}
    BY DEF IInv, TicketInv, PlanOK, RunnerSet, RecordLooks, At
  <1>2. Advances
    <2>1. /\ SameQueue /\ UNCHANGED <<trial, verdict, active, enabled, job, inputs, faults>>
          /\ unsure' \in {unsure, unsure \cup {runner.ticket}}
      BY DEF SameQueue, RecordLooks, At, Goto, WaitAndEnd, queueVars, planVars, worldVars
    <2>2. \/ runner' = runner
           \/ runner' = WaitFor("verification_required")
      BY DEF RecordLooks, At, Goto, WaitAndEnd, queueVars, planVars, worldVars
    <2>3. RunnerTo(runner.ticket)
      BY <1>1, <2>2, RunnerWaits, RunnerDispatches DEF RunnerTo, PlanOK
    <2>4. host.verdict \in StepVerdict \ {"none"}
      BY DEF IInv, TicketInv, HostOK, HostSet, RecordLooks, At
    <2>5. \/ host' = [host EXCEPT !.at = "end"]
          \/ \E v \in {host.verdict, "cancelled"} : host' = [host EXCEPT !.at = "write", !.verdict = v]
      BY DEF RecordLooks, At, Goto, WaitAndEnd, queueVars, planVars, worldVars
    <2>6. /\ host' \in HostSet /\ host'.command = host.command
          /\ \/ host'.at = "end"
             \/ host'.at = "write" /\ host'.verdict \in {host.verdict, "cancelled"}
      <3>1. CASE host' = [host EXCEPT !.at = "end"]
        BY <1>1, <3>1, HostMoves
      <3>2. ASSUME NEW v \in {host.verdict, "cancelled"},
                   host' = [host EXCEPT !.at = "write", !.verdict = v]
            PROVE  host' \in HostSet /\ host'.command = host.command /\ host'.at = "write"
                   /\ host'.verdict = v
        <4>1. v \in StepVerdict /\ "write" \in Place /\ HostOK
          BY <1>1, <2>4
        <4> HIDE DEF StepVerdict, Place
        <4> QED
          BY <3>2, <4>1 DEF HostOK, HostSet
      <3> QED
        BY <2>5, <3>1, <3>2
    <2> QED
      BY <1>1, <2>1, <2>3, <2>4, <2>6 DEF IInv, TicketInv, HostOK, PlanOK, Advances,
        RecordLooks, At
  <1> QED
    BY <1>1, <1>2, AdvanceInv

LEMMA RecordWritesInv ==
  ASSUME IInv, RecordWrites
  PROVE  IInv' /\ StepQuiet
  <1>a. /\ host.at = "write" /\ runner.ticket # 0 /\ runner.ticket \in Step
        /\ PlanOK /\ HostOK /\ trial.pending /\ runner.ticket = trial.step
        /\ host.verdict \in {"success", "failure", "cancelled"}
        /\ host.verdict = "success" => response[runner.ticket] = "success"
    BY DEF IInv, TicketInv, PlanOK, RunnerSet, HostOK, HostSet, RecordWrites, At
  <1>b. SameQueue /\ UNCHANGED <<unsure, active, enabled, job, inputs>>
    BY DEF SameQueue, RecordWrites, queueVars
  <1>1. CASE /\ trial' = Settled(runner.ticket, host.verdict)
             /\ verdict' = [verdict EXCEPT ![runner.ticket] = host.verdict]
             /\ Goto("settle") /\ UNCHANGED <<runner, faults>>
    <2>a. /\ trial' \in TrialSet /\ trial'.pending = FALSE
          /\ trial'.step = IF host.verdict = "success" /\ runner.ticket < MaxStep
                           THEN runner.ticket + 1 ELSE runner.ticket
          /\ trial'.status \in Terminal \cup {"ready"}
      <3>1. PICK s \in Step, v \in {"success", "failure", "cancelled"} :
              s = runner.ticket /\ v = host.verdict /\ trial' = Settled(s, v)
        BY <1>a, <1>1
      <3>2. /\ Settled(s, v) \in TrialSet /\ Settled(s, v).pending = FALSE
            /\ Settled(s, v).step = IF v = "success" /\ s < MaxStep THEN s + 1 ELSE s
            /\ Settled(s, v).status \in Terminal \cup {"ready"}
        BY TrialSettles
      <3> HIDE DEF Step, Terminal
      <3> QED
        BY <3>1, <3>2
    <2>b. /\ verdict' \in [Step -> StepVerdict] /\ verdict'[runner.ticket] = host.verdict
          /\ \A t \in Step \ {runner.ticket} : verdict'[t] = verdict[t]
      BY <1>a, <1>1 DEF PlanOK
    <2>c. HostTo("settle") /\ UNCHANGED <<runner, faults>>
      BY <1>a, <1>1, HostMoves DEF HostTo, Goto
    <2>1. QueueOK'
      BY <1>a, <1>b, <2>a, <2>b, <2>c DEF IInv, QueueOK, PlanOK, HostOK, HandInv, InputInv,
        HostTo, SameQueue
    <2>2. PlanOK'
      BY <1>a, <1>b, <2>a, <2>b, <2>c DEF IInv, PlanOK, HostOK, TicketInv, QueueOK, HostTo,
        SameQueue
    <2>3. FlagsOK'
      BY <1>b, Zenon DEF IInv, FlagsOK
    <2>4. HostOK'
      BY <1>a, <1>b, <2>a, <2>b, <2>c DEF IInv, HostOK, PlanOK, QueueOK, HostTo, SameQueue
    <2>5. HandInv'
      BY <1>a, <1>b, <2>a, <2>b, <2>c DEF IInv, HandInv, HostOK, QueueOK, HostTo, SameQueue
    <2>6. TicketInv'
      BY <1>a, <1>b, <2>a, <2>b, <2>c DEF IInv, TicketInv, PlanOK, HostOK, QueueOK, HandInv,
        StartInv, InputInv,
          HostTo, SameQueue
    <2>7. StartInv'
      BY <1>a, <1>b, <2>a, <2>b, <2>c DEF IInv, StartInv, HostOK, QueueOK, PlanOK, HandInv,
        TicketInv, HostTo,
          SameQueue
    <2>8. OrderInv'
      <3>1. OrderInv /\ UNCHANGED <<commands, response>> /\ trial.step \in Step /\ trial'.step \in Step
        BY <1>a, <1>b, <2>a DEF IInv, SameQueue, PlanOK, TrialSet
      <3>2. ASSUME NEW t \in Step, t < trial'.step PROVE verdict'[t] = "success"
        BY <1>a, <2>a, <2>b, <3>1, <3>2 DEF OrderInv
      <3>3. ASSUME NEW t \in Step, verdict'[t] = "success" PROVE response'[t] \in Completed
        BY <1>a, <2>b, <3>1, <3>3 DEF OrderInv
      <3>4. ASSUME NEW t \in Step, t \in commands' PROVE t <= trial'.step
        BY <1>a, <2>a, <3>1, <3>4 DEF OrderInv
      <3> QED
        BY <3>2, <3>3, <3>4 DEF OrderInv
    <2>9. InputInv'
      BY <1>a, <1>b, <2>a, <2>b, <2>c DEF IInv, InputInv, HostOK, QueueOK, HandInv, PlanOK,
        HostTo, SameQueue
    <2>10. StepQuiet
      BY <1>a, <1>b, <2>a, <2>b, <2>c DEF StepQuiet
    <2> QED
      BY <2>1, <2>2, <2>3, <2>4, <2>5, <2>6, <2>7, <2>8, <2>9, <2>10 DEF IInv
  <1>2. CASE /\ Fails /\ runner' = WaitFor("verification_required") /\ Goto("end")
             /\ UNCHANGED <<trial, verdict>>
    <2>1. Advances
      <3>1. RunnerTo(runner.ticket)
        BY <1>a, <1>2, RunnerWaits DEF RunnerTo
      <3>2. HostTo("end")
        BY <1>a, <1>2, HostMoves DEF HostTo, Goto
      <3>3. faults' \in 0..MaxFaults /\ unsure' \subseteq Step
        BY <1>a, <1>b, <1>2 DEF Fails, HostOK, PlanOK
      <3> QED
        BY <1>b, <1>2, <3>1, <3>2, <3>3 DEF Advances, HostTo
    <2> QED
      BY <1>a, <2>1, AdvanceInv
  <1> QED
    BY <1>1, <1>2 DEF RecordWrites

LEMMA SettleReviewedInv ==
  ASSUME IInv, SettleReviewed
  PROVE  IInv' /\ StepQuiet
  <1>a. /\ host.at = "settle" /\ runner.ticket # 0
        /\ PlanOK /\ HostOK /\ trial \in TrialSet /\ runner.cancel \in Cancel \cup {NoCommand}
    BY DEF IInv, TicketInv, PlanOK, RunnerSet, SettleReviewed, At
  <1>b. UNCHANGED <<commands, lock, stop, argument, trial, verdict, unsure, active, job, inputs>>
    BY DEF SettleReviewed
  <1>c. trial.status # "none"
    BY <1>a DEF IInv, StartInv, NoRunner
  <1>1. CASE /\ runner' = RunnerSettled(trial, runner.cancel)
             /\ Goto("drive")
             /\ UNCHANGED <<response, enabled, done, faults>>
    <2>a. RunnerTo(0)
      <3> HIDE DEF Terminal
      <3> QED
        BY <1>a, <1>1, RunnerSettles DEF RunnerTo
    <2>b. /\ host' \in HostSet /\ host'.command = host.command
          /\ host'.at = "drive"
      <3>1. host' = [host EXCEPT !.at = "drive"]
        BY <1>1, Zenon DEF Goto
      <3> QED
        BY <1>a, <3>1, HostMoves
    <2>1. QueueOK'
      BY <1>a, <1>b, <1>c, <1>1, <2>a, <2>b DEF IInv, QueueOK, PlanOK, HostOK, HandInv,
        InputInv, RunnerTo
    <2>2. PlanOK'
      BY <1>a, <1>b, <1>c, <1>1, <2>a, <2>b DEF IInv, PlanOK, HostOK, TicketInv, QueueOK,
        RunnerTo
    <2>3. FlagsOK'
      BY <1>b, <1>1, Zenon DEF IInv, FlagsOK
    <2>4. HostOK'
      BY <1>a, <1>b, <1>c, <1>1, <2>a, <2>b DEF IInv, HostOK, PlanOK, QueueOK, RunnerTo
    <2>5. HandInv'
      BY <1>a, <1>b, <1>c, <1>1, <2>a, <2>b DEF IInv, HandInv, HostOK, QueueOK, RunnerTo
    <2>6. TicketInv'
      BY <1>a, <1>b, <2>a, <2>b DEF IInv, TicketInv, TrialSet, RunnerTo
    <2>7. StartInv'
      BY <1>a, <1>b, <1>c, <1>1, <2>a, <2>b DEF IInv, StartInv, HostOK, QueueOK, PlanOK,
        HandInv, TicketInv, RunnerTo
    <2>8. OrderInv'
      BY <1>a, <1>b, <1>c, <1>1, <2>a, <2>b DEF IInv, OrderInv, TicketInv, PlanOK, HostOK,
        QueueOK, HandInv, InputInv,
          RunnerTo
    <2>9. InputInv'
      BY <1>a, <1>b, <1>c, <1>1, <2>a, <2>b DEF IInv, InputInv, HostOK, QueueOK, HandInv,
        PlanOK, RunnerTo
    <2>10. StepQuiet
      BY <1>a, <1>b, <1>c, <1>1, <2>a, <2>b DEF StepQuiet
    <2> QED
      BY <2>1, <2>2, <2>3, <2>4, <2>5, <2>6, <2>7, <2>8, <2>9, <2>10 DEF IInv
  <1>2. CASE Fails /\ Raise /\ host' = Idle /\ UNCHANGED runner
    <2>a. Replies
      BY <1>a, <1>b, <1>2, RaiseEffect
    <2>b. enabled' \in {enabled, FALSE}
      BY <1>2, Zenon DEF Raise
    <2>c. runner' = runner /\ faults' \in 0..MaxFaults
      BY <1>a, <1>2 DEF Fails, HostOK
    <2>1. QueueOK'
      BY <1>a, <1>b, <1>c, <2>a, <2>c DEF IInv, QueueOK, PlanOK, HostOK, HandInv, InputInv,
        HostIdles, Replies
    <2>2. PlanOK'
      BY <1>a, <1>b, <1>c, <2>a, <2>c DEF IInv, PlanOK, HostOK, TicketInv, QueueOK, HostIdles,
        Replies
    <2>3. FlagsOK'
      BY <1>b, <2>b, Zenon DEF IInv, FlagsOK
    <2>4. HostOK'
      BY <1>a, <1>b, <1>c, <2>a, <2>c DEF IInv, HostOK, PlanOK, QueueOK, HostIdles, Replies
    <2>5. HandInv'
      BY <1>a, <1>b, <1>c, <2>a, <2>c DEF IInv, HandInv, HostOK, QueueOK, HostIdles, Replies
    <2>6. TicketInv'
      BY <1>a, <1>b, <1>c, <2>a, <2>c DEF IInv, TicketInv, PlanOK, HostOK, QueueOK, HandInv,
        StartInv, InputInv,
          HostIdles, Replies
    <2>7. StartInv'
      BY <1>a, <1>b, <1>c, <2>a, <2>c DEF IInv, StartInv, HostOK, QueueOK, PlanOK, HandInv,
        TicketInv, HostIdles,
          Replies
    <2>8. OrderInv'
      BY <1>a, <1>b, <1>c, <2>a, <2>c DEF IInv, OrderInv, TicketInv, PlanOK, HostOK, QueueOK,
        HandInv, InputInv,
          HostIdles, Replies
    <2>9. InputInv'
      BY <1>a, <1>b, <1>c, <2>a, <2>c DEF IInv, InputInv, HostOK, QueueOK, HandInv, PlanOK,
        HostIdles, Replies
    <2>10. StepQuiet
      BY <1>a, <1>b, <1>c, <2>a, <2>c DEF StepQuiet
    <2> QED
      BY <2>1, <2>2, <2>3, <2>4, <2>5, <2>6, <2>7, <2>8, <2>9, <2>10 DEF IInv
  <1> QED
    BY <1>1, <1>2 DEF SettleReviewed

LEMMA EndDriveInv ==
  ASSUME IInv, EndDrive
  PROVE  IInv' /\ StepQuiet
  <1>a. /\ host.at = "end" /\ QueueOK /\ HostOK
        /\ host.command # NoCommand => host.command \in Control \cap commands
    BY DEF IInv, EndDrive, At, HandInv
  <1>b. UNCHANGED <<commands, lock, stop, argument>> /\ SamePlan /\ SameWorld /\ host' = Idle
    BY DEF EndDrive, planVars, worldVars, SamePlan, SameWorld
  <1>c. enabled' \in BOOLEAN
    <2>1. enabled' = StaysEnabled(runner, trial)
      BY DEF EndDrive
    <2> QED
      BY <2>1, Zenon DEF StaysEnabled
  <1>d. Replies
    <2>1. CASE host.command = NoCommand
      <3>1. UNCHANGED <<response, done>>
        BY <2>1 DEF EndDrive
      <3> QED
        BY <1>a, <1>b, <2>1, <3>1, HostIdle DEF Replies, HostIdles, QueueOK
    <2>2. CASE host.command # NoCommand
      <3>1. Respond(host.command, "returned") /\ host.command \notin Step
            /\ host.command \in commands /\ "returned" \in ControlResponse
        BY <1>a, <2>2 DEF EndDrive
      <3>2. QueueOK' /\ (\A d \in Command \ {host.command} : response'[d] = response[d])
            /\ done' = done \cup {host.command}
        <4> HIDE DEF Step, StepResponse, ControlResponse, Command
        <4> QED
          BY <1>a, <1>b, <3>1, Responds
      <3> QED
        BY <1>b, <2>2, <3>2, HostIdle DEF Replies, HostIdles
    <2> QED
      BY <2>1, <2>2
  <1>e. trial.status # "none"
    BY <1>a DEF IInv, StartInv
  <1>1. QueueOK'
    BY <1>a, <1>b, <1>d, <1>e DEF IInv, QueueOK, PlanOK, HostOK, HandInv, InputInv, HostIdles,
      Replies,
        SamePlan, SameWorld
  <1>2. PlanOK'
    BY <1>a, <1>b, <1>d, <1>e DEF IInv, PlanOK, HostOK, TicketInv, QueueOK, HostIdles, Replies,
      SamePlan,
        SameWorld
  <1>3. FlagsOK'
    BY <1>b, <1>c, Zenon DEF IInv, FlagsOK, SamePlan
  <1>4. HostOK'
    BY <1>a, <1>b, <1>d, <1>e DEF IInv, HostOK, PlanOK, QueueOK, HostIdles, Replies, SamePlan,
      SameWorld
  <1>5. HandInv'
    BY <1>a, <1>b, <1>d, <1>e DEF IInv, HandInv, HostOK, QueueOK, HostIdles, Replies, SamePlan,
      SameWorld
  <1>6. TicketInv'
    BY <1>a, <1>b, <1>d, <1>e DEF IInv, TicketInv, PlanOK, HostOK, QueueOK, HandInv, StartInv,
      InputInv,
        HostIdles, Replies, SamePlan, SameWorld
  <1>7. StartInv'
    BY <1>a, <1>b, <1>d, <1>e DEF IInv, StartInv, HostOK, QueueOK, PlanOK, HandInv, TicketInv,
      HostIdles,
        Replies, SamePlan, SameWorld
  <1>8. OrderInv'
    BY <1>a, <1>b, <1>d, <1>e DEF IInv, OrderInv, TicketInv, PlanOK, HostOK, QueueOK, HandInv,
      InputInv,
        HostIdles, Replies, SamePlan, SameWorld
  <1>9. InputInv'
    BY <1>a, <1>b, <1>d, <1>e DEF IInv, InputInv, HostOK, QueueOK, HandInv, PlanOK, HostIdles,
      Replies,
        SamePlan, SameWorld
  <1>10. StepQuiet
    BY <1>b DEF StepQuiet, SameWorld
  <1> QED
    BY <1>1, <1>2, <1>3, <1>4, <1>5, <1>6, <1>7, <1>8, <1>9, <1>10 DEF IInv

LEMMA StartPlanInv ==
  ASSUME IInv, StartPlan
  PROVE  IInv' /\ StepQuiet
  <1>a. /\ host.at = "command" /\ host.command = Start /\ Start \in commands \ done
        /\ PlanOK /\ HostOK /\ Start \notin Step
        /\ UNCHANGED <<commands, lock, stop, argument, verdict, unsure, enabled, job, inputs>>
    BY DEF IInv, HandInv, StartPlan, Handles, At
  <1>b. trial.status = "none" /\ runner = NoRunner /\ ~trial.pending /\ NoRunner.ticket = 0
    <2>1. trial.status = "none" /\ runner = NoRunner
      BY <1>a DEF IInv, StartInv
    <2> QED
      BY <2>1 DEF IInv, TicketInv
  <1>c. TrialTo("ready", FALSE, trial.step)
    BY <1>a, <1>b DEF StartPlan, TrialTo, PlanOK, TrialSet
  <1>d. \A r \in {NoRunner, [NoRunner EXCEPT !.state = "ready"]} : r \in RunnerSet /\ r.ticket = 0
    <2>1. [NoRunner EXCEPT !.state = "ready"] =
            [state |-> "ready", ticket |-> 0, dispatch |-> "none", wait |-> NoWait,
             cancel |-> NoCommand]
      OBVIOUS
    <2> QED
      BY <2>1, NoWaitIsOne DEF RunnerSet
  <1>1. CASE /\ runner' = [NoRunner EXCEPT !.state = "ready"]
             /\ active' = TRUE
             /\ host' = [host EXCEPT !.at = "drive", !.input = TRUE]
             /\ UNCHANGED <<response, done, faults>>
    <2>a. RunnerTo(0)
      BY <1>d, <1>1 DEF RunnerTo
    <2>b. HostTo("drive")
      <3>1. "drive" \in Place
        OBVIOUS
      <3> HIDE DEF Place, StepVerdict
      <3> QED
        BY <1>a, <1>1, <3>1 DEF HostTo, HostOK, HostSet
    <2>c. SameQueue /\ faults' = faults
      BY <1>a, <1>1 DEF SameQueue
    <2>1. QueueOK'
      BY <1>a, <2>c DEF IInv, QueueOK, SameQueue
    <2>2. PlanOK'
      BY <1>a, <1>b, <1>c, <2>a, <2>b, <2>c DEF IInv, PlanOK, HostOK, TicketInv, QueueOK,
        SameQueue, HostTo, RunnerTo,
          TrialTo
    <2>3. FlagsOK'
      BY <1>a, <1>1, Zenon DEF IInv, FlagsOK
    <2>4. HostOK'
      BY <1>a, <1>b, <1>c, <2>a, <2>b, <2>c DEF IInv, HostOK, PlanOK, QueueOK, SameQueue,
        HostTo, RunnerTo, TrialTo
    <2>5. HandInv'
      BY <1>a, <1>b, <1>c, <2>a, <2>b, <2>c DEF IInv, HandInv, HostOK, QueueOK, SameQueue,
        HostTo, RunnerTo, TrialTo
    <2>6. TicketInv'
      BY <1>a, <1>b, <1>c, <2>a, <2>b, <2>c DEF IInv, TicketInv, PlanOK, HostOK, QueueOK,
        HandInv, StartInv, InputInv,
          SameQueue, HostTo, RunnerTo, TrialTo
    <2>7. StartInv'
      BY <1>a, <1>b, <1>c, <2>a, <2>b, <2>c DEF IInv, StartInv, HostOK, QueueOK, PlanOK,
        HandInv, TicketInv, SameQueue,
          HostTo, RunnerTo, TrialTo
    <2>8. OrderInv'
      BY <1>a, <1>b, <1>c, <2>a, <2>b, <2>c DEF IInv, OrderInv, TicketInv, PlanOK, HostOK,
        QueueOK, HandInv, InputInv,
          SameQueue, HostTo, RunnerTo, TrialTo
    <2>9. InputInv'
      BY <1>a, <1>b, <1>c, <2>a, <2>b, <2>c DEF IInv, InputInv, HostOK, QueueOK, HandInv,
        PlanOK, SameQueue, HostTo,
          RunnerTo, TrialTo
    <2>10. StepQuiet
      BY <1>a, <1>b, <1>c, <2>a, <2>b, <2>c DEF StepQuiet
    <2> QED
      BY <2>1, <2>2, <2>3, <2>4, <2>5, <2>6, <2>7, <2>8, <2>9, <2>10 DEF IInv
  <1>2. CASE /\ Fails /\ Answer("failed")
             /\ runner' \in {NoRunner, [NoRunner EXCEPT !.state = "ready"]}
             /\ UNCHANGED active
    <2>a. Replies
      BY <1>a, <1>2, AnswerEffect
    <2>b. RunnerTo(0) /\ faults' \in 0..MaxFaults
      BY <1>a, <1>d, <1>2 DEF RunnerTo, Fails, HostOK
    <2>1. QueueOK'
      BY <1>a, <1>b, <1>c, <2>a, <2>b DEF IInv, QueueOK, PlanOK, HostOK, HandInv, InputInv,
        HostIdles, Replies,
          RunnerTo, TrialTo
    <2>2. PlanOK'
      BY <1>a, <1>b, <1>c, <2>a, <2>b DEF IInv, PlanOK, HostOK, TicketInv, QueueOK, HostIdles,
        Replies, RunnerTo,
          TrialTo
    <2>3. FlagsOK'
      BY <1>a, <1>2, Zenon DEF IInv, FlagsOK
    <2>4. HostOK'
      BY <1>a, <1>b, <1>c, <2>a, <2>b DEF IInv, HostOK, PlanOK, QueueOK, HostIdles, Replies,
        RunnerTo, TrialTo
    <2>5. HandInv'
      BY <1>a, <1>b, <1>c, <2>a, <2>b DEF IInv, HandInv, HostOK, QueueOK, HostIdles, Replies,
        RunnerTo, TrialTo
    <2>6. TicketInv'
      BY <1>a, <1>b, <1>c, <2>a, <2>b DEF IInv, TicketInv, PlanOK, HostOK, QueueOK, HandInv,
        StartInv, InputInv,
          HostIdles, Replies, RunnerTo, TrialTo
    <2>7. StartInv'
      BY <1>a, <1>b, <1>c, <2>a, <2>b DEF IInv, StartInv, HostOK, QueueOK, PlanOK, HandInv,
        TicketInv, HostIdles,
          Replies, RunnerTo, TrialTo
    <2>8. OrderInv'
      BY <1>a, <1>b, <1>c, <2>a, <2>b DEF IInv, OrderInv, TicketInv, PlanOK, HostOK, QueueOK,
        HandInv, InputInv,
          HostIdles, Replies, RunnerTo, TrialTo
    <2>9. InputInv'
      BY <1>a, <1>b, <1>c, <2>a, <2>b DEF IInv, InputInv, HostOK, QueueOK, HandInv, PlanOK,
        HostIdles, Replies,
          RunnerTo, TrialTo
    <2>10. StepQuiet
      BY <1>a, <1>b, <1>c, <2>a, <2>b DEF StepQuiet
    <2> QED
      BY <2>1, <2>2, <2>3, <2>4, <2>5, <2>6, <2>7, <2>8, <2>9, <2>10 DEF IInv
  <1> QED
    BY <1>1, <1>2 DEF StartPlan

LEMMA CancelRejectedInv ==
  ASSUME IInv, CancelRejected
  PROVE  IInv' /\ StepQuiet
  <1>1. /\ host.at = "command" /\ Answer("rejected") /\ host.command \notin Step
        /\ UNCHANGED <<commands, lock, stop, argument>> /\ SamePlan /\ SameWorld
    BY DEF CancelRejected, Handles, At, planVars, worldVars, SamePlan, SameWorld
  <1>3. enabled' \in {enabled, FALSE}
    BY Zenon DEF CancelRejected
  <1>2. Replies
    BY <1>1, AnswerEffect
  <1> QED
    BY <1>1, <1>2, <1>3, ReplyInv

LEMMA CancelTooLateInv ==
  ASSUME IInv, CancelTooLate
  PROVE  IInv' /\ StepQuiet
  <1>1. /\ host.at = "command" /\ Answer("returned") /\ host.command \notin Step
        /\ UNCHANGED <<commands, lock, stop, argument>> /\ SamePlan /\ SameWorld
    BY DEF CancelTooLate, Handles, At, planVars, worldVars, SamePlan, SameWorld
  <1>3. enabled' \in {enabled, FALSE}
    BY Zenon DEF CancelTooLate
  <1>2. Replies
    BY <1>1, AnswerEffect
  <1> QED
    BY <1>1, <1>2, <1>3, ReplyInv

LEMMA CancelPlanInv ==
  ASSUME IInv, CancelPlan
  PROVE  IInv' /\ StepQuiet
  <1>a. /\ host.at = "command" /\ host.command \in Cancel /\ host.command \in commands \ done
        /\ PlanOK /\ HostOK /\ host.command \notin Step
        /\ trial \in TrialSet
        /\ UNCHANGED <<commands, lock, stop, argument, verdict, unsure, active, job, inputs>>
    BY DEF IInv, HandInv, CancelPlan, Handles, At, PlanOK
  <1>b. trial.status # "none"
    BY DEF IInv, StartInv, CancelPlan
  <1>c. /\ trial' \in TrialSet /\ trial'.pending = trial.pending /\ trial'.step = trial.step
        /\ trial'.status # "none"
        /\ trial.pending => trial'.status \in {trial.status, "cancel_requested"}
    <2>1. trial' = CancelledTrial
      BY DEF CancelPlan
    <2> HIDE DEF Terminal
    <2> QED
      BY <1>a, <1>b, <2>1, TrialCancels
  <1>1. CASE /\ runner' = CancelledRunner
             /\ Answer("returned")
             /\ enabled' = StaysEnabled(runner', trial')
             /\ UNCHANGED faults
    <2>a. Replies
      BY <1>a, <1>1, AnswerEffect
    <2>b. runner' \in RunnerSet /\ runner'.ticket \in {0, runner.ticket}
      <3>1. CASE runner' = RunnerSettled(CancelledTrial, host.command)
        <4>1. CancelledTrial \in TrialSet /\ host.command \in Cancel \cup {NoCommand}
          BY <1>a, TrialCancels
        <4> HIDE DEF Terminal
        <4> QED
          BY <1>a, <3>1, <4>1, RunnerSettles
      <3>2. CASE \E st \in {"cancel_requested", "cancelled"} :
                   runner' = [runner EXCEPT !.cancel = host.command, !.state = st]
        <4>1. PICK st \in {"cancel_requested", "cancelled"} :
                runner' = [runner EXCEPT !.cancel = host.command, !.state = st]
          BY <3>2
        <4>2. runner \in RunnerSet /\ st \in RunnerState /\ host.command \in Cancel \cup {NoCommand}
          BY <1>a DEF PlanOK
        <4> HIDE DEF RunnerState
        <4> QED
          BY <4>1, <4>2 DEF RunnerSet
      <3> QED
        BY <1>1, <3>1, <3>2 DEF CancelledRunner
    <2>c. enabled' \in BOOLEAN
      BY <1>1, Zenon DEF StaysEnabled
    <2>d. faults' = faults
      BY <1>1
    <2>1. QueueOK'
      BY <1>a, <1>b, <1>c, <2>a, <2>b, <2>d DEF IInv, QueueOK, PlanOK, HostOK, HandInv,
        InputInv, HostIdles, Replies
    <2>2. PlanOK'
      BY <1>a, <1>b, <1>c, <2>a, <2>b, <2>d DEF IInv, PlanOK, HostOK, TicketInv, QueueOK,
        HostIdles, Replies
    <2>3. FlagsOK'
      BY <1>a, <2>c, Zenon DEF IInv, FlagsOK
    <2>4. HostOK'
      BY <1>a, <1>b, <1>c, <2>a, <2>b, <2>d DEF IInv, HostOK, PlanOK, QueueOK, HostIdles,
        Replies
    <2>5. HandInv'
      BY <1>a, <1>b, <1>c, <2>a, <2>b, <2>d DEF IInv, HandInv, HostOK, QueueOK, HostIdles,
        Replies
    <2>6. TicketInv'
      BY <1>a, <1>c, <2>a, <2>b DEF IInv, TicketInv, TrialSet, RunnerSet, PlanOK, Replies,
         HostIdles
    <2>7. StartInv'
      BY <1>a, <1>b, <1>c, <2>a, <2>b, <2>d DEF IInv, StartInv, HostOK, QueueOK, PlanOK,
        HandInv, TicketInv, HostIdles,
          Replies
    <2>8. OrderInv'
      BY <1>a, <1>b, <1>c, <2>a, <2>b, <2>d DEF IInv, OrderInv, TicketInv, PlanOK, HostOK,
        QueueOK, HandInv, InputInv,
          HostIdles, Replies
    <2>9. InputInv'
      BY <1>a, <1>b, <1>c, <2>a, <2>b, <2>d DEF IInv, InputInv, HostOK, QueueOK, HandInv,
        PlanOK, HostIdles, Replies
    <2>10. StepQuiet
      BY <1>a, <1>b, <1>c, <2>a, <2>b, <2>d DEF StepQuiet
    <2> QED
      BY <2>1, <2>2, <2>3, <2>4, <2>5, <2>6, <2>7, <2>8, <2>9, <2>10 DEF IInv
  <1>2. CASE Fails /\ Answer("rejected") /\ UNCHANGED <<runner, enabled>>
    <2>a. Replies
      BY <1>a, <1>2, AnswerEffect
    <2>b. runner' = runner /\ faults' \in 0..MaxFaults
      BY <1>a, <1>2 DEF Fails, HostOK
    <2>1. QueueOK'
      BY <1>a, <1>b, <1>c, <2>a, <2>b DEF IInv, QueueOK, PlanOK, HostOK, HandInv, InputInv,
        HostIdles, Replies
    <2>2. PlanOK'
      BY <1>a, <1>b, <1>c, <2>a, <2>b DEF IInv, PlanOK, HostOK, TicketInv, QueueOK, HostIdles,
        Replies
    <2>3. FlagsOK'
      BY <1>a, <1>2, Zenon DEF IInv, FlagsOK
    <2>4. HostOK'
      BY <1>a, <1>b, <1>c, <2>a, <2>b DEF IInv, HostOK, PlanOK, QueueOK, HostIdles, Replies
    <2>5. HandInv'
      BY <1>a, <1>b, <1>c, <2>a, <2>b DEF IInv, HandInv, HostOK, QueueOK, HostIdles, Replies
    <2>6. TicketInv'
      BY <1>a, <1>b, <1>c, <2>a, <2>b DEF IInv, TicketInv, PlanOK, HostOK, QueueOK, HandInv,
        StartInv, InputInv,
          HostIdles, Replies
    <2>7. StartInv'
      BY <1>a, <1>b, <1>c, <2>a, <2>b DEF IInv, StartInv, HostOK, QueueOK, PlanOK, HandInv,
        TicketInv, HostIdles,
          Replies
    <2>8. OrderInv'
      BY <1>a, <1>b, <1>c, <2>a, <2>b DEF IInv, OrderInv, TicketInv, PlanOK, HostOK, QueueOK,
        HandInv, InputInv,
          HostIdles, Replies
    <2>9. InputInv'
      BY <1>a, <1>b, <1>c, <2>a, <2>b DEF IInv, InputInv, HostOK, QueueOK, HandInv, PlanOK,
        HostIdles, Replies
    <2>10. StepQuiet
      BY <1>a, <1>b, <1>c, <2>a, <2>b DEF StepQuiet
    <2> QED
      BY <2>1, <2>2, <2>3, <2>4, <2>5, <2>6, <2>7, <2>8, <2>9, <2>10 DEF IInv
  <1> QED
    BY <1>1, <1>2 DEF CancelPlan

LEMMA ContinueRejectedInv ==
  ASSUME IInv, ContinueRejected
  PROVE  IInv' /\ StepQuiet
  <1>1. /\ host.at = "command" /\ Answer("rejected") /\ host.command \notin Step
        /\ UNCHANGED <<commands, lock, stop, argument>> /\ SamePlan /\ SameWorld
    BY DEF ContinueRejected, Handles, At, planVars, worldVars, SamePlan, SameWorld
  <1>3. enabled' \in {enabled, FALSE}
    BY Zenon DEF ContinueRejected
  <1>2. Replies
    BY <1>1, AnswerEffect
  <1> QED
    BY <1>1, <1>2, <1>3, ReplyInv

LEMMA ContinuePlanInv ==
  ASSUME IInv, ContinuePlan
  PROVE  IInv' /\ StepQuiet
  <1>a. /\ host.at = "command" /\ host.command \in Continue /\ host.command \in commands \ done
        /\ PlanOK /\ HostOK /\ host.command \notin Step
        /\ runner.wait # NoWait
        /\ host' = [host EXCEPT !.at = "drive", !.input = TRUE]
        /\ UNCHANGED <<trial, verdict, unsure, active, enabled, job, inputs, faults>>
        /\ SameQueue
    BY DEF IInv, HandInv, ContinuePlan, Handles, At, Waits, worldVars, queueVars, SameQueue
  <1>b. trial.status # "none"
    BY <1>a DEF IInv, StartInv
  <1>c. RunnerTo(runner.ticket)
    <2>1. runner' = [state |-> "dispatching", ticket |-> runner.ticket,
                     dispatch |-> runner.dispatch, wait |-> NoWait, cancel |-> runner.cancel]
      BY <1>a DEF ContinuePlan, PlanOK, RunnerSet
    <2> QED
      BY <1>a, <2>1, NoWaitIsOne DEF RunnerTo, PlanOK, RunnerSet
  <1>d. HostTo("drive")
    <2>1. "drive" \in Place
      OBVIOUS
    <2> HIDE DEF Place, StepVerdict
    <2> QED
      BY <1>a, <2>1 DEF HostTo, HostOK, HostSet
  <1>1. QueueOK'
    BY <1>a, <1>b, <1>c, <1>d DEF IInv, QueueOK, PlanOK, HostOK, HandInv, InputInv, RunnerTo,
      HostTo, SameQueue
  <1>2. PlanOK'
    BY <1>a, <1>b, <1>c, <1>d DEF IInv, PlanOK, HostOK, TicketInv, QueueOK, RunnerTo, HostTo,
      SameQueue
  <1>3. FlagsOK'
    BY <1>a, Zenon DEF IInv, FlagsOK
  <1>4. HostOK'
    BY <1>a, <1>b, <1>c, <1>d DEF IInv, HostOK, PlanOK, QueueOK, RunnerTo, HostTo, SameQueue
  <1>5. HandInv'
    BY <1>a, <1>b, <1>c, <1>d DEF IInv, HandInv, HostOK, QueueOK, RunnerTo, HostTo, SameQueue
  <1>6. TicketInv'
    BY <1>a, <1>b, <1>c, <1>d DEF IInv, TicketInv, PlanOK, HostOK, QueueOK, HandInv, StartInv,
      InputInv,
        RunnerTo, HostTo, SameQueue
  <1>7. StartInv'
    BY <1>a, <1>b, <1>c, <1>d DEF IInv, StartInv, HostOK, QueueOK, PlanOK, HandInv, TicketInv,
      RunnerTo, HostTo,
        SameQueue
  <1>8. OrderInv'
    BY <1>a, <1>b, <1>c, <1>d DEF IInv, OrderInv, TicketInv, PlanOK, HostOK, QueueOK, HandInv,
      InputInv,
        RunnerTo, HostTo, SameQueue
  <1>9. InputInv'
    BY <1>a, <1>b, <1>c, <1>d DEF IInv, InputInv, HostOK, QueueOK, HandInv, PlanOK, RunnerTo,
      HostTo, SameQueue
  <1>10. StepQuiet
    BY <1>a, <1>b, <1>c, <1>d DEF StepQuiet
  <1> QED
    BY <1>1, <1>2, <1>3, <1>4, <1>5, <1>6, <1>7, <1>8, <1>9, <1>10 DEF IInv

LEMMA ReviewRejectedInv ==
  ASSUME IInv, ReviewRejected
  PROVE  IInv' /\ StepQuiet
  <1>1. /\ host.at = "command" /\ Answer("rejected") /\ host.command \notin Step
        /\ UNCHANGED <<commands, lock, stop, argument>> /\ SamePlan /\ SameWorld
    BY DEF ReviewRejected, Handles, At, planVars, worldVars, SamePlan, SameWorld
  <1>3. enabled' \in {enabled, FALSE}
    BY Zenon DEF ReviewRejected
  <1>2. Replies
    BY <1>1, AnswerEffect
  <1> QED
    BY <1>1, <1>2, <1>3, ReplyInv

LEMMA ReviewPlanInv ==
  ASSUME IInv, ReviewPlan
  PROVE  IInv' /\ StepQuiet
  <1>a. /\ host.at = "command" /\ host.command \in Review /\ host.command \in commands \ done
        /\ PlanOK /\ HostOK /\ host.command \notin Step
        /\ UNCHANGED <<commands, lock, stop, argument, runner, active, enabled, job, inputs>>
    BY DEF IInv, HandInv, ReviewPlan, Handles, At
  <1>b. /\ trial.pending /\ trial.status = "pending" /\ trial.step \in Step
        /\ response[trial.step] \in Completed /\ Start \in done
    BY <1>a DEF IInv, StartInv, PlanOK, TrialSet, ReviewPlan, Reviewable
  <1>c. \A r \in {"returned", "rejected"} : Answer(r) => Replies
    BY <1>a, AnswerEffect
  <1>1. ASSUME NEW v \in {"success", "failure"},
               trial' = Settled(trial.step, v),
               verdict' = [verdict EXCEPT ![trial.step] = v],
               Answer("returned"), UNCHANGED <<unsure, faults>>
        PROVE  IInv' /\ StepQuiet
    <2>a. Replies /\ UNCHANGED <<unsure, faults>>
      BY <1>c, <1>1
    <2>b. /\ trial' \in TrialSet /\ trial'.pending = FALSE
          /\ trial'.step = IF v = "success" /\ trial.step < MaxStep
                           THEN trial.step + 1 ELSE trial.step
          /\ trial'.status \in Terminal \cup {"ready"}
      <3>1. PICK s \in Step, w \in {"success", "failure", "cancelled"} :
              s = trial.step /\ w = v /\ trial' = Settled(s, w)
        BY <1>b, <1>1
      <3>2. /\ Settled(s, w) \in TrialSet /\ Settled(s, w).pending = FALSE
            /\ Settled(s, w).step = IF w = "success" /\ s < MaxStep THEN s + 1 ELSE s
            /\ Settled(s, w).status \in Terminal \cup {"ready"}
        BY TrialSettles
      <3> HIDE DEF Step, Terminal
      <3> QED
        BY <3>1, <3>2
    <2>c. /\ verdict' \in [Step -> StepVerdict] /\ verdict'[trial.step] = v
          /\ \A t \in Step \ {trial.step} : verdict'[t] = verdict[t]
      BY <1>a, <1>b, <1>1 DEF PlanOK
    <2>1. QueueOK'
      BY <1>a, <1>b, <2>a, <2>b, <2>c DEF IInv, QueueOK, PlanOK, HostOK, HandInv, InputInv,
        HostIdles, Replies
    <2>2. PlanOK'
      BY <1>a, <1>b, <2>a, <2>b, <2>c DEF IInv, PlanOK, HostOK, TicketInv, QueueOK, HostIdles,
        Replies
    <2>3. FlagsOK'
      BY <1>a, Zenon DEF IInv, FlagsOK
    <2>4. HostOK'
      BY <1>a, <1>b, <2>a, <2>b, <2>c DEF IInv, HostOK, PlanOK, QueueOK, HostIdles, Replies
    <2>5. HandInv'
      BY <1>a, <1>b, <2>a, <2>b, <2>c DEF IInv, HandInv, HostOK, QueueOK, HostIdles, Replies
    <2>6. TicketInv'
      BY <1>a, <1>b, <2>a, <2>b, <2>c DEF IInv, TicketInv, PlanOK, HostOK, QueueOK, HandInv,
        StartInv, InputInv,
          HostIdles, Replies
    <2>7. StartInv'
      BY <1>a, <1>b, <2>a, <2>b, <2>c DEF IInv, StartInv, HostOK, QueueOK, PlanOK, HandInv,
        TicketInv, HostIdles,
          Replies
    <2>8. OrderInv'
      BY <1>a, <1>b, <2>a, <2>b, <2>c DEF IInv, OrderInv, TicketInv, PlanOK, HostOK, QueueOK,
        HandInv, InputInv,
          HostIdles, Replies
    <2>9. InputInv'
      BY <1>a, <1>b, <2>a, <2>b, <2>c DEF IInv, InputInv, HostOK, QueueOK, HandInv, PlanOK,
        HostIdles, Replies
    <2>10. StepQuiet
      BY <1>a, <1>b, <2>a, <2>b, <2>c DEF StepQuiet
    <2> QED
      BY <2>1, <2>2, <2>3, <2>4, <2>5, <2>6, <2>7, <2>8, <2>9, <2>10 DEF IInv
  <1>2. ASSUME UNCHANGED <<trial, verdict>>, unsure' \subseteq Step, faults' \in 0..MaxFaults,
               Replies
        PROVE  IInv' /\ StepQuiet
    <2>1. QueueOK'
      BY <1>a, <1>b, <1>2 DEF IInv, QueueOK, PlanOK, HostOK, HandInv, InputInv, HostIdles,
        Replies
    <2>2. PlanOK'
      BY <1>a, <1>b, <1>2 DEF IInv, PlanOK, HostOK, TicketInv, QueueOK, HostIdles, Replies
    <2>3. FlagsOK'
      BY <1>a, Zenon DEF IInv, FlagsOK
    <2>4. HostOK'
      BY <1>a, <1>b, <1>2 DEF IInv, HostOK, PlanOK, QueueOK, HostIdles, Replies
    <2>5. HandInv'
      BY <1>a, <1>b, <1>2 DEF IInv, HandInv, HostOK, QueueOK, HostIdles, Replies
    <2>6. TicketInv'
      BY <1>a, <1>b, <1>2 DEF IInv, TicketInv, PlanOK, HostOK, QueueOK, HandInv, StartInv,
        InputInv,
          HostIdles, Replies
    <2>7. StartInv'
      BY <1>a, <1>b, <1>2 DEF IInv, StartInv, HostOK, QueueOK, PlanOK, HandInv, TicketInv,
        HostIdles,
          Replies
    <2>8. OrderInv'
      BY <1>a, <1>b, <1>2 DEF IInv, OrderInv, TicketInv, PlanOK, HostOK, QueueOK, HandInv,
        InputInv,
          HostIdles, Replies
    <2>9. InputInv'
      BY <1>a, <1>b, <1>2 DEF IInv, InputInv, HostOK, QueueOK, HandInv, PlanOK, HostIdles,
        Replies
    <2>10. StepQuiet
      BY <1>a, <1>b, <1>2 DEF StepQuiet
    <2> QED
      BY <2>1, <2>2, <2>3, <2>4, <2>5, <2>6, <2>7, <2>8, <2>9, <2>10 DEF IInv
  <1>3. CASE /\ unsure' = unsure \cup {trial.step}
             /\ Answer("returned") /\ UNCHANGED <<trial, verdict, faults>>
    BY <1>a, <1>b, <1>c, <1>2, <1>3 DEF PlanOK, HostOK
  <1>4. CASE Fails /\ Answer("rejected") /\ UNCHANGED <<trial, verdict, unsure>>
    BY <1>a, <1>c, <1>2, <1>4 DEF PlanOK, HostOK, Fails
  <1> QED
    BY <1>1, <1>3, <1>4, Zenon DEF ReviewPlan

LEMMA RefuseInputInv ==
  ASSUME IInv, RefuseInput
  PROVE  IInv' /\ StepQuiet
  <1>a. /\ host.at = "command" /\ host.command \in commands \ done
        /\ UNCHANGED <<commands, lock, stop, argument>> /\ SamePlan
    BY DEF IInv, HandInv, RefuseInput, Handles, At, planVars, SamePlan
  <1>b. PICK r \in {"rejected", "noinput", "unknown"} :
          /\ Answer(r)
          /\ host.command \in Step => r \in {"noinput", "unknown"}
          /\ host.command \notin Step => r = "rejected"
    BY DEF RefuseInput, Handles
  <1>c. Replies /\ response'[host.command] = r
    BY <1>a, <1>b, AnswerEffect
  <1>d. SameWorld /\ enabled' = enabled
    BY DEF RefuseInput, worldVars, SameWorld
  <1>e. enabled' \in {enabled, FALSE}
    BY <1>d, Zenon
  <1> QED
    BY <1>a, <1>b, <1>c, <1>d, <1>e, ReplyInv

LEMMA OtherInputInv ==
  ASSUME IInv, OtherInput
  PROVE  IInv' /\ StepQuiet
  <1>a. /\ host.at = "command" /\ host.command \in commands \ done
        /\ UNCHANGED <<commands, lock, stop, argument>> /\ SamePlan
    BY DEF IInv, HandInv, OtherInput, Handles, At, planVars, SamePlan
  <1>b. /\ Answer("returned") /\ host.command \in Other /\ job = 0
        /\ UNCHANGED <<enabled, job, faults>>
        /\ inputs' = [inputs EXCEPT ![host.command] = @ + 1]
        /\ PlanAdmits(host.command)
    BY DEF OtherInput, Handles, Admits
  <1>c. Replies
    BY <1>a, <1>b, AnswerEffect
  <1>d. inputs \in [Step \cup Other -> 0..1] /\ inputs[host.command] = 0
    <2>1. inputs \in [Step \cup Other -> 0..1] /\ host.command \in Step \cup Other
      BY <1>b DEF IInv, InputInv
    <2>2. inputs[host.command] \in {0, 1}
      BY <2>1
    <2>3. inputs[host.command] # 1
      BY <1>a, <2>1 DEF IInv, InputInv
    <2> QED
      BY <2>1, <2>2, <2>3
  <1>e. /\ inputs' \in [Step \cup Other -> 0..1] /\ inputs'[host.command] = 1
        /\ \A c \in (Step \cup Other) \ {host.command} : inputs'[c] = inputs[c]
    BY <1>b, <1>d
  <1>1. QueueOK'
    BY <1>a, <1>b, <1>c, <1>e DEF IInv, QueueOK, PlanOK, HostOK, HandInv, InputInv, Replies,
      HostIdles, SamePlan
  <1>2. PlanOK'
    BY <1>a, <1>b, <1>c, <1>e DEF IInv, PlanOK, HostOK, TicketInv, QueueOK, Replies, HostIdles,
      SamePlan
  <1>3. FlagsOK'
    BY <1>a, <1>b, <1>c, <1>e, Zenon DEF IInv, FlagsOK, Replies, HostIdles, SamePlan
  <1>4. HostOK'
    BY <1>a, <1>b, <1>c, <1>e DEF IInv, HostOK, PlanOK, QueueOK, Replies, HostIdles, SamePlan
  <1>5. HandInv'
    BY <1>a, <1>b, <1>c, <1>e DEF IInv, HandInv, HostOK, QueueOK, Replies, HostIdles, SamePlan
  <1>6. TicketInv'
    BY <1>a, <1>b, <1>c, <1>e DEF IInv, TicketInv, PlanOK, HostOK, QueueOK, HandInv, StartInv,
      InputInv,
        Replies, HostIdles, SamePlan
  <1>7. StartInv'
    BY <1>a, <1>b, <1>c, <1>e DEF IInv, StartInv, HostOK, QueueOK, PlanOK, HandInv, TicketInv,
      Replies,
        HostIdles, SamePlan
  <1>8. OrderInv'
    BY <1>a, <1>b, <1>c, <1>e DEF IInv, OrderInv, TicketInv, PlanOK, HostOK, QueueOK, HandInv,
      InputInv,
        Replies, HostIdles, SamePlan
  <1>9. InputInv'
    BY <1>a, <1>b, <1>c, <1>e DEF IInv, InputInv, HostOK, QueueOK, HandInv, PlanOK, Replies,
      HostIdles, SamePlan
  <1>10. StepQuiet
    <2>1. host.command # runner.ticket
      BY <1>b DEF IInv, PlanOK, RunnerSet
    <2>2. trial.status \in Terminal \cup {"none"}
      BY <1>b, <2>1 DEF PlanAdmits
    <2>3. ~trial.pending
      BY <2>2 DEF IInv, TicketInv
    <2> QED
      BY <1>b, <2>2, <2>3 DEF StepQuiet
  <1> QED
    BY <1>1, <1>2, <1>3, <1>4, <1>5, <1>6, <1>7, <1>8, <1>9, <1>10 DEF IInv

LEMMA StepRunsInv ==
  ASSUME IInv, StepRuns
  PROVE  IInv' /\ StepQuiet
  <1>a. /\ host.at = "command" /\ host.command \in commands \ done
        /\ UNCHANGED <<commands, lock, stop, argument>> /\ SamePlan
    BY DEF IInv, HandInv, StepRuns, Handles, At, planVars, SamePlan
  <1>b. /\ host.command \in Step /\ job = 0
        /\ UNCHANGED <<enabled, job, faults>>
    BY DEF StepRuns, Handles
  <1>c. PICK o \in Outcome, n \in {0, 1} :
          /\ Answer(o) /\ inputs' = [inputs EXCEPT ![host.command] = @ + n]
          /\ o \in Completed => n = 1
    BY DEF StepRuns, Happened
  <1>d. Replies /\ response'[host.command] = o
    BY <1>a, <1>b, <1>c, AnswerEffect
  <1>e. inputs \in [Step \cup Other -> 0..1] /\ inputs[host.command] = 0
    BY <1>a, <1>b DEF IInv, InputInv
  <1>f. /\ inputs' \in [Step \cup Other -> 0..1] /\ inputs'[host.command] = n
        /\ \A c \in (Step \cup Other) \ {host.command} : inputs'[c] = inputs[c]
    BY <1>b, <1>c, <1>e
  <1>1. QueueOK'
    BY <1>a, <1>b, <1>c, <1>d, <1>f DEF IInv, QueueOK, PlanOK, HostOK, HandInv, InputInv,
      Replies, HostIdles, SamePlan
  <1>2. PlanOK'
    BY <1>a, <1>b, <1>c, <1>d, <1>f DEF IInv, PlanOK, HostOK, TicketInv, QueueOK, Replies,
      HostIdles, SamePlan
  <1>3. FlagsOK'
    BY <1>a, <1>b, <1>c, <1>d, <1>f, Zenon DEF IInv, FlagsOK, Replies, HostIdles, SamePlan
  <1>4. HostOK'
    BY <1>a, <1>b, <1>c, <1>d, <1>f DEF IInv, HostOK, PlanOK, QueueOK, Replies, HostIdles,
      SamePlan
  <1>5. HandInv'
    BY <1>a, <1>b, <1>c, <1>d, <1>f DEF IInv, HandInv, HostOK, QueueOK, Replies, HostIdles,
      SamePlan
  <1>6. TicketInv'
    BY <1>a, <1>b, <1>c, <1>d, <1>f DEF IInv, TicketInv, PlanOK, HostOK, QueueOK, HandInv,
      StartInv, InputInv,
        Replies, HostIdles, SamePlan
  <1>7. StartInv'
    BY <1>a, <1>b, <1>c, <1>d, <1>f DEF IInv, StartInv, HostOK, QueueOK, PlanOK, HandInv,
      TicketInv, Replies,
        HostIdles, SamePlan
  <1>8. OrderInv'
    BY <1>a, <1>b, <1>c, <1>d, <1>f DEF IInv, OrderInv, TicketInv, PlanOK, HostOK, QueueOK,
      HandInv, InputInv,
        Replies, HostIdles, SamePlan
  <1>9. InputInv'
    <2>1. \A c \in Step \cup Other : inputs'[c] = 1 => c \in done'
      BY <1>a, <1>b, <1>d, <1>f DEF IInv, InputInv, QueueOK, Replies
    <2>2. \A t \in Step : response'[t] \in Completed => t \in done' /\ inputs'[t] = 1
      BY <1>a, <1>b, <1>c, <1>d, <1>f DEF IInv, InputInv, Replies
    <2> QED
      BY <1>b, <1>f, <2>1, <2>2 DEF InputInv
  <1>10. StepQuiet
    BY <1>a, <1>b, <1>c, <1>d, <1>f DEF StepQuiet, Replies, HostIdles, SamePlan
  <1> QED
    BY <1>1, <1>2, <1>3, <1>4, <1>5, <1>6, <1>7, <1>8, <1>9, <1>10 DEF IInv

LEMMA StepStartsInv ==
  ASSUME IInv, StepStarts
  PROVE  IInv' /\ StepQuiet
  <1>a. /\ host.at = "command" /\ host.command \in commands \ done
        /\ UNCHANGED <<commands, lock, stop, argument>> /\ SamePlan
    BY DEF IInv, HandInv, StepStarts, Handles, At, planVars, SamePlan
  <1>b. /\ Answer("running") /\ host.command \in Step /\ job' = host.command /\ job = 0
        /\ UNCHANGED <<enabled, inputs, faults>>
    BY DEF StepStarts, Handles
  <1>c. Replies /\ response'[host.command] = "running"
    BY <1>a, <1>b, AnswerEffect
  <1>d. inputs[host.command] = 0
    BY <1>a, <1>b DEF IInv, InputInv
  <1>1. QueueOK'
    BY <1>a, <1>b, <1>c, <1>d DEF IInv, QueueOK, PlanOK, HostOK, HandInv, InputInv, Replies,
      HostIdles, SamePlan
  <1>2. PlanOK'
    BY <1>a, <1>b, <1>c, <1>d DEF IInv, PlanOK, HostOK, TicketInv, QueueOK, Replies, HostIdles,
      SamePlan
  <1>3. FlagsOK'
    BY <1>a, <1>b, <1>c, <1>d, Zenon DEF IInv, FlagsOK, Replies, HostIdles, SamePlan
  <1>4. HostOK'
    BY <1>a, <1>b, <1>c, <1>d DEF IInv, HostOK, PlanOK, QueueOK, Replies, HostIdles, SamePlan
  <1>5. HandInv'
    BY <1>a, <1>b, <1>c, <1>d DEF IInv, HandInv, HostOK, QueueOK, Replies, HostIdles, SamePlan
  <1>6. TicketInv'
    BY <1>a, <1>b, <1>c, <1>d DEF IInv, TicketInv, PlanOK, HostOK, QueueOK, HandInv, StartInv,
      InputInv,
        Replies, HostIdles, SamePlan
  <1>7. StartInv'
    BY <1>a, <1>b, <1>c, <1>d DEF IInv, StartInv, HostOK, QueueOK, PlanOK, HandInv, TicketInv,
      Replies,
        HostIdles, SamePlan
  <1>8. OrderInv'
    BY <1>a, <1>b, <1>c, <1>d DEF IInv, OrderInv, TicketInv, PlanOK, HostOK, QueueOK, HandInv,
      InputInv,
        Replies, HostIdles, SamePlan
  <1>9. InputInv'
    BY <1>a, <1>b, <1>c, <1>d DEF IInv, InputInv, HostOK, QueueOK, HandInv, PlanOK, Replies,
      HostIdles, SamePlan
  <1>10. StepQuiet
    BY <1>a, <1>b, <1>c, <1>d DEF StepQuiet, Replies, HostIdles, SamePlan
  <1> QED
    BY <1>1, <1>2, <1>3, <1>4, <1>5, <1>6, <1>7, <1>8, <1>9, <1>10 DEF IInv

LEMMA JobEndsInv ==
  ASSUME IInv, JobEnds
  PROVE  IInv' /\ StepQuiet
  <1> USE DEF JobEnds, HostUp, Happened, planVars, hostVars
  <1>1. QueueOK'
    BY DEF IInv, QueueOK, PlanOK, HostOK, HandInv, InputInv
  <1>2. PlanOK'
    BY DEF IInv, PlanOK, HostOK, TicketInv, QueueOK, HostSet, RunnerSet, TrialSet
  <1>3. FlagsOK'
    BY Zenon DEF IInv, FlagsOK
  <1>4. HostOK'
    BY DEF IInv, HostOK, PlanOK, QueueOK, HostSet, RunnerSet, TrialSet
  <1>5. HandInv'
    BY DEF IInv, HandInv, HostOK, QueueOK, HostSet, RunnerSet, TrialSet
  <1>6. TicketInv'
    BY DEF IInv, TicketInv, PlanOK, HostOK, QueueOK, HandInv, StartInv, InputInv, HostSet,
      RunnerSet, TrialSet
  <1>7. StartInv'
    BY DEF IInv, StartInv, HostOK, QueueOK, PlanOK, HandInv, TicketInv, HostSet, RunnerSet,
      TrialSet
  <1>8. OrderInv'
    BY DEF IInv, OrderInv, TicketInv, PlanOK, HostOK, QueueOK, HandInv, InputInv, HostSet,
      RunnerSet, TrialSet
  <1>9. InputInv'
    BY DEF IInv, InputInv, HostOK, QueueOK, HandInv, PlanOK, HostSet, RunnerSet, TrialSet
  <1>10. StepQuiet
    BY DEF IInv, StepQuiet, TicketInv, PlanOK, HostOK, InputInv
  <1> QED
    BY <1>1, <1>2, <1>3, <1>4, <1>5, <1>6, <1>7, <1>8, <1>9, <1>10 DEF IInv

LEMMA CloseSessionInv ==
  ASSUME IInv, CloseSession
  PROVE  IInv' /\ StepQuiet
  <1> USE DEF CloseSession, At, Respond, Handles, planVars, worldVars
  <1>1. QueueOK'
    BY DEF IInv, QueueOK, PlanOK, HostOK, HandInv, InputInv
  <1>2. PlanOK'
    BY DEF IInv, PlanOK, HostOK, TicketInv, QueueOK, HostSet, RunnerSet, TrialSet
  <1>3. FlagsOK'
    BY Zenon DEF IInv, FlagsOK
  <1>4. HostOK'
    BY DEF IInv, HostOK, PlanOK, QueueOK, HostSet, RunnerSet, TrialSet
  <1>5. HandInv'
    BY DEF IInv, HandInv, HostOK, QueueOK, HostSet, RunnerSet, TrialSet
  <1>6. TicketInv'
    BY DEF IInv, TicketInv, PlanOK, HostOK, QueueOK, HandInv, StartInv, InputInv, HostSet,
      RunnerSet, TrialSet
  <1>7. StartInv'
    BY DEF IInv, StartInv, HostOK, QueueOK, PlanOK, HandInv, TicketInv, HostSet, RunnerSet,
      TrialSet
  <1>8. OrderInv'
    BY DEF IInv, OrderInv, TicketInv, PlanOK, HostOK, QueueOK, HandInv, InputInv, HostSet,
      RunnerSet, TrialSet
  <1>9. InputInv'
    BY DEF IInv, InputInv, HostOK, QueueOK, HandInv, PlanOK, HostSet, RunnerSet, TrialSet
  <1>10. StepQuiet
    BY DEF IInv, StepQuiet, TicketInv, PlanOK, HostOK, InputInv
  <1> QED
    BY <1>1, <1>2, <1>3, <1>4, <1>5, <1>6, <1>7, <1>8, <1>9, <1>10 DEF IInv

-----------------------------------------------------------------------------
LEMMA StutterInv == ASSUME IInv, UNCHANGED vars PROVE IInv' /\ StepQuiet
  <1> USE DEF vars
  <1>1. FlagsOK'
    BY Zenon DEF IInv, FlagsOK
  <1>2. QueueOK'
    BY DEF IInv, QueueOK
  <1>3. PlanOK'
    BY DEF IInv, PlanOK
  <1>4. HostOK'
    BY DEF IInv, HostOK
  <1>5. HandInv'
    BY DEF IInv, HandInv
  <1>6. TicketInv'
    BY DEF IInv, TicketInv
  <1>7. OrderInv'
    BY DEF IInv, OrderInv
  <1>8. InputInv'
    BY DEF IInv, InputInv
  <1>9. StartInv'
    <2>1. /\ trial'.status # "none" =>
               Start \in done' \/ (host'.command = Start /\ host'.at # "command")
          /\ trial'.status = "none" =>
               runner' = NoRunner /\ host'.at \in {"loop", "command", "exited"}
      BY DEF IInv, StartInv
    <2>2. trial'.status = "none" => ~enabled
      BY DEF IInv, StartInv
    <2>3. ~enabled => ~enabled'
      BY Zenon
    <2> QED
      BY <2>1, <2>2, <2>3 DEF StartInv
  <1>10. StepQuiet
    BY DEF StepQuiet
  <1> QED
    BY <1>1, <1>2, <1>3, <1>4, <1>5, <1>6, <1>7, <1>8, <1>9, <1>10 DEF IInv

LEMMA HostInv == ASSUME IInv, Host PROVE IInv' /\ StepQuiet
  <1>1. CASE Submit
    BY <1>1, DriveTicketInv, SubmitLooksInv, SubmitEnqueuesInv, SubmitDefersInv,
       SubmitRefusedInv DEF Submit
  <1>2. CASE Reconcile
    BY <1>2, ReconcileSettledInv, ReconcileWaitsInv, ReconcileEndedInv, VerifyBeginsInv,
       VerifyUnsureInv, VerifyJudgesInv, RecordLooksInv, RecordWritesInv,
       SettleReviewedInv DEF Reconcile
  <1>3. CASE PlanControl
    BY <1>3, StartPlanInv, CancelRejectedInv, CancelTooLateInv, CancelPlanInv,
       ContinueRejectedInv, ContinuePlanInv, ReviewRejectedInv, ReviewPlanInv DEF PlanControl
  <1>4. CASE Input
    BY <1>4, RefuseInputInv, OtherInputInv, StepRunsInv, StepStartsInv DEF Input
  <1> HIDE DEF Command
  <1> QED
    BY <1>1, <1>2, <1>3, <1>4, TickStopsInv, TickWithdrawsInv, TickDrivesInv, DriveEndsInv,
       DriveFinishesInv, DrivePreparesInv, EndDriveInv, CloseSessionInv, PickInv DEF Host

LEMMA NextInv == ASSUME IInv, [Next]_vars PROVE IInv' /\ StepQuiet
  <1> HIDE DEF Client
  <1> QED
    BY StutterInv, AcquireLockInv, ClientEnqueuesInv, StopMarkerInv, StopCommandInv,
      StopLostInv,
       HostInv, JobEndsInv DEF Next

\* The inductive invariant of a plan: queue, trial, runner, host and inputs in
\* every reachable state, failing writes included.
THEOREM Invariance == Spec => []IInv
  <1>1. Init => IInv
    BY InitInv
  <1>2. IInv /\ [Next]_vars => IInv'
    BY NextInv
  <1> QED
    BY <1>1, <1>2, PTL DEF Spec

\* Every file, the host and the history keep their types.
THEOREM TypeCorrect == Spec => []TypeOK
  <1>1. IInv => TypeOK
    <2> SUFFICES ASSUME IInv PROVE TypeOK
      OBVIOUS
    <2>1. inputs \in [Step \cup Other -> 0..2]
      BY DEF IInv, InputInv
    <2>2. FlagsOK
      BY DEF IInv
    <2>3. active \in BOOLEAN /\ enabled \in BOOLEAN
      BY <2>2, Zenon DEF FlagsOK
    <2>4. QueueOK /\ PlanOK /\ HostOK
      BY DEF IInv
    <2> HIDE DEF Command, Client, Step
    <2> QED
      BY <2>1, <2>3, <2>4, Zenon DEF TypeOK, QueueOK, PlanOK, HostOK, TrialSet, RunnerSet,
        HostSet
  <1> QED
    BY <1>1, Invariance, PTL

\* The input of a step happens at most once (the step's fixed command id and
\* the host's set of handled commands).
THEOREM OneInputPerStepHolds == Spec => []OneInputPerStep
  <1>1. IInv => OneInputPerStep
    BY DEF IInv, InputInv, OneInputPerStep
  <1> QED
    BY <1>1, Invariance, PTL

\* A step is queued only behind steps whose success was proved (prepare,
\* record_verified_result).
THEOREM StepsInOrderHolds == Spec => []StepsInOrder
  <1>1. IInv => StepsInOrder
    <2> SUFFICES ASSUME IInv, NEW t \in Step, t \in commands, NEW u \in 1..(t - 1)
                 PROVE  verdict[u] = "success" /\ response[u] \in Completed
      BY DEF StepsInOrder
    <2>1. t <= trial.step /\ trial.step \in Step
      BY DEF IInv, OrderInv, PlanOK, TrialSet
    <2>2. u \in Step /\ u < trial.step
      BY <2>1
    <2> QED
      BY <2>2 DEF IInv, OrderInv
  <1> QED
    BY <1>1, Invariance, PTL

\* A success stands on an input that happened and was completed
\* (verify_task_plan_step, the review).
THEOREM SuccessIsProvedHolds == Spec => []SuccessIsProved
  <1>1. IInv => SuccessIsProved
    BY DEF IInv, OrderInv, InputInv, SuccessIsProved
  <1> QED
    BY <1>1, Invariance, PTL

\* So the trial's account of its steps is in order and proved (prepare,
\* record_verified_result, verify_task_plan_step).
THEOREM StepsAreProvedHolds == Spec => []StepsAreProved
  BY StepsInOrderHolds, SuccessIsProvedHolds, PTL DEF StepsAreProved

\* No other input happens while the plan is unsettled (_admit_input), even
\* when a failing write has left trial, runner and pointer apart.
THEOREM NoCompetingInputHolds == Spec => NoCompetingInput
  <1>1. IInv /\ [Next]_vars => [StepQuiet]_vars
    BY NextInv
  <1>2. StepQuiet <=> \A o \in Other : inputs'[o] # inputs[o] =>
          trial.status \in Terminal \cup {"none"} /\ job = 0 /\ ~trial.pending
    BY DEF StepQuiet
  <1>3. IInv /\ [Next]_vars => [\A o \in Other : inputs'[o] # inputs[o] =>
          trial.status \in Terminal \cup {"none"} /\ job = 0 /\ ~trial.pending]_vars
    BY <1>1, <1>2
  <1> QED
    BY <1>3, Invariance, PTL DEF Spec, NoCompetingInput

-----------------------------------------------------------------------------
(***************************************************************************)
(* The queue.  No cancel is ever the control in hand of a drive, since a   *)
(* cancel ends where it is handled, and a ticket is submitted under no     *)
(* accepted cancel (RoadInv).  Most steps take from the queue or leave it  *)
(* (Drains); the client adds to an empty one, and a submission to one in   *)
(* which nothing waits but the control in hand (OneWaits).                 *)
(***************************************************************************)
HIDE DEF Step, Control, Client, Command, Terminal, Completed, Outcome, StepResponse,
         ControlResponse, Place, RunnerState, StepVerdict, Ticketed, Verifying,
         NoRunner, Idle

RoadInv ==
  /\ host.at # "command" => host.command \notin Cancel
  /\ host.at \in {"submit", "enqueue"} => runner.cancel = NoCommand

OneWaits == \A a, b \in Pending \ {host.command, Close} : a = b

QInv == RoadInv /\ OneWaits

\* Nothing is added, and what leaves the host's hand does not wait.
Drains == /\ Pending' \subseteq Pending
          /\ host'.command = host.command \/ host.command \notin Pending'

\* What the action property says of one step.
Bars == \A s \in Step : s \in Pending' \ Pending =>
  /\ Cancel \cap Pending = {} /\ ~Closing
  /\ runner.cancel = NoCommand

LEMMA DrainsKeeps == ASSUME QInv, Drains, RoadInv' PROVE QInv' /\ Bars
  BY DEF QInv, OneWaits, Drains, Bars

LEMMA SameDrains ==
  ASSUME IInv, UNCHANGED <<commands, response>>,
         host'.command = host.command \/ host.command = NoCommand
  PROVE  Drains
  <1>1. NoCommand \notin Pending
    BY DEF IInv, QueueOK, Pending
  <1> QED
    BY <1>1 DEF Drains, Pending

\* The command in hand is answered.
LEMMA RespondDrains ==
  ASSUME IInv, UNCHANGED commands, host.command \in commands,
         NEW r, r # "none", Respond(host.command, r)
  PROVE  Drains
  <1>1. /\ commands \subseteq Command
        /\ response \in [Command -> StepResponse \cup ControlResponse]
    BY DEF IInv, QueueOK
  <1>2. response' = [response EXCEPT ![host.command] = r]
    BY DEF Respond
  <1>3. response'[host.command] = r
        /\ \A d \in commands \ {host.command} : response'[d] = response[d]
    BY <1>1, <1>2
  <1> QED
    BY <1>3 DEF Drains, Pending

LEMMA AnswerDrains ==
  ASSUME IInv, host.at = "command", UNCHANGED commands, NEW r, r # "none", Answer(r)
  PROVE  Drains /\ host' = Idle
  <1>1. host.command \in commands
    BY DEF IInv, HandInv
  <1> QED
    BY <1>1, RespondDrains DEF Answer

LEMMA RaiseDrains ==
  ASSUME IInv, host.at # "command", UNCHANGED commands, Raise
  PROVE  Drains
  <1>1. CASE host.command = NoCommand
    BY <1>1, SameDrains DEF Raise
  <1>2. CASE host.command # NoCommand
    <2>1. host.command \in commands
      BY <1>2 DEF IInv, HandInv
    <2>2. PICK r \in {"failed", "rejected"} : Respond(host.command, r)
      BY <1>2 DEF Raise
    <2> QED
      BY <2>1, <2>2, RespondDrains
  <1> QED
    BY <1>1, <1>2

LEMMA IdleRoad == ASSUME host' = Idle PROVE RoadInv'
  BY DEF RoadInv, Idle, Control, Client, Command

\* The host goes from place to place with the same control in hand.
LEMMA WalkRoad ==
  ASSUME IInv, RoadInv, host.at # "command", host'.command = host.command,
         host'.at \in {"submit", "enqueue"} => runner'.cancel = NoCommand
  PROVE  RoadInv'
  BY DEF RoadInv

LEMMA GotoWalks ==
  ASSUME IInv, NEW p, Goto(p)
  PROVE  host'.at = p /\ host'.command = host.command
  BY DEF IInv, HostOK, HostSet, Goto

-----------------------------------------------------------------------------
(* The client, and the thread of an agent command.                          *)
LEMMA ClientQ ==
  ASSUME IInv, QInv,
         (\E c \in Client : AcquireLock(c)) \/ StopMarker \/ StopLost
  PROVE  QInv' /\ Bars
  <1>1. UNCHANGED <<commands, response, host, runner>>
    BY DEF AcquireLock, StopMarker, StopLost, hostVars, planVars
  <1>2. Drains
    BY <1>1, SameDrains
  <1>3. RoadInv'
    BY <1>1 DEF QInv, RoadInv
  <1> QED
    BY <1>2, <1>3, DrainsKeeps

LEMMA ClientEnqueuesQ == ASSUME IInv, QInv, ClientEnqueues PROVE QInv' /\ Bars
  <1>1. UNCHANGED <<response, host, runner>>
    BY DEF ClientEnqueues, hostVars, planVars
  <1>2. RoadInv'
    BY <1>1 DEF QInv, RoadInv
  <1>3. CASE commands' = commands
    BY <1>1, <1>2, <1>3, SameDrains, DrainsKeeps
  <1>4. CASE commands' # commands
    <2>1. MayEnqueue({}) /\ commands' = commands \cup {lock}
      BY <1>4 DEF ClientEnqueues
    <2>2. Pending' \subseteq {lock}
      BY <1>1, <2>1 DEF MayEnqueue, Pending
    <2>3. lock \notin Step
      BY DEF ClientEnqueues, IInv, QueueOK, Step, Client
    <2>4. OneWaits' /\ Bars
      BY <2>2, <2>3 DEF OneWaits, Bars
    <2> QED
      BY <1>2, <2>4 DEF QInv
  <1> QED
    BY <1>3, <1>4

LEMMA StopCommandQ == ASSUME IInv, QInv, StopCommand PROVE QInv' /\ Bars
  <1>1. UNCHANGED <<response, host, runner>> /\ commands' = commands \cup {Close}
    BY DEF StopCommand, hostVars, planVars
  <1>2. Pending' \subseteq Pending \cup {Close}
    BY <1>1 DEF Pending
  <1>3. RoadInv' /\ OneWaits'
    BY <1>1, <1>2 DEF QInv, RoadInv, OneWaits
  <1>4. Close \notin Step
    BY DEF Step
  <1> QED
    BY <1>2, <1>3, <1>4 DEF QInv, Bars

LEMMA JobEndsQ == ASSUME IInv, QInv, JobEnds PROVE QInv' /\ Bars
  <1>1. UNCHANGED <<commands, host, runner>>
    BY DEF JobEnds, hostVars, planVars
  <1>2. PICK o \in Outcome : response' = [response EXCEPT ![job] = o]
    BY DEF JobEnds
  <1>3. response \in [Command -> StepResponse \cup ControlResponse] /\ commands \subseteq Command
    BY DEF IInv, QueueOK
  <1>4. o # "none"
    BY DEF Outcome, Completed
  <1>5. Pending' \subseteq Pending
    BY <1>1, <1>2, <1>3, <1>4 DEF Pending
  <1>6. Drains /\ RoadInv'
    BY <1>1, <1>5 DEF Drains, QInv, RoadInv
  <1> QED
    BY <1>6, DrainsKeeps

-----------------------------------------------------------------------------
(* Steps of the host that leave the queue alone.                            *)

\* The host walks on, from a place that is not "command".
LEMMA WalkQ ==
  ASSUME IInv, QInv, UNCHANGED <<commands, response>>, host.at # "command",
         host'.command = host.command,
         host'.at \in {"submit", "enqueue"} => runner'.cancel = NoCommand
  PROVE  QInv' /\ Bars
  BY SameDrains, WalkRoad, DrainsKeeps DEF QInv

LEMMA RunnerQ ==
  ASSUME IInv, NEW r \in {"queue_busy", "execution_pending", "result_unknown", "verification_required"}
  PROVE  WaitFor(r).cancel = runner.cancel
  BY DEF IInv, PlanOK, RunnerSet, WaitFor

LEMMA PickQ == ASSUME IInv, QInv, NEW c \in Command, Pick(c) PROVE QInv' /\ Bars
  <1>1. /\ host.at = "loop" /\ host.command = NoCommand
        /\ UNCHANGED <<commands, response>> /\ host'.at = "command"
    BY DEF Pick, At, IInv, HandInv, queueVars, Idle
  <1>2. Drains /\ RoadInv'
    BY <1>1, SameDrains DEF RoadInv
  <1> QED
    BY <1>2, DrainsKeeps

LEMMA TickWithdrawsQ == ASSUME IInv, QInv, TickWithdraws PROVE QInv' /\ Bars
  <1>1. /\ host.at = "loop" /\ runner.ticket \in Step
        /\ host'.at = "drive" /\ host'.command = host.command
    BY GotoWalks DEF TickWithdraws, Quiet, At, Unsubmitted, IInv, PlanOK, RunnerSet, Step
  <1>2. RoadInv'
    BY <1>1, WalkRoad DEF QInv
  <1>3. CASE runner.ticket \in commands
    <2>1. UNCHANGED <<commands, response>>
      BY <1>3 DEF TickWithdraws
    <2> QED
      BY <1>1, <1>2, <2>1, SameDrains, DrainsKeeps
  <1>4. CASE runner.ticket \notin commands
    <2>1. /\ response' = [response EXCEPT ![runner.ticket] = "withdrawn"]
          /\ commands' = commands \cup {runner.ticket}
      BY <1>4 DEF TickWithdraws
    <2>2. response \in [Command -> StepResponse \cup ControlResponse] /\ commands \subseteq Command
          /\ runner.ticket \in Command
      BY <1>1 DEF IInv, QueueOK, Command
    <2>3. Pending' \subseteq Pending
      BY <2>1, <2>2 DEF Pending
    <2>4. Drains
      BY <1>1, <2>3 DEF Drains
    <2> QED
      BY <1>2, <2>4, DrainsKeeps
  <1> QED
    BY <1>3, <1>4

LEMMA DriveQ ==
  ASSUME IInv, QInv, TickStops \/ TickDrives \/ DriveEnds \/ DriveTicket \/ DriveFinishes
  PROVE  QInv' /\ Bars
  <1>1. UNCHANGED <<commands, response>> /\ host.at \in {"loop", "drive"}
    BY DEF TickStops, TickDrives, DriveEnds, DriveTicket, DriveFinishes, Quiet, At, queueVars
  <1>2. host'.command = host.command
    BY GotoWalks DEF TickStops, TickDrives, DriveEnds, DriveTicket, DriveFinishes
  <1>3. CASE DriveTicket
    <2>1. host'.at \in {"submit", "enqueue"} => runner.cancel = NoCommand
      BY <1>3, GotoWalks DEF DriveTicket
    <2>2. runner' = runner
      BY <1>3 DEF DriveTicket, planVars
    <2> QED
      BY <1>1, <1>2, <2>1, <2>2, WalkQ
  <1>4. CASE TickStops
    BY <1>1, <1>2, <1>4, WalkQ DEF TickStops, Quiet, At
  <1>5. CASE TickDrives \/ DriveEnds \/ DriveFinishes
    <2>1. host'.at \in {"drive", "end"}
      BY <1>5, GotoWalks DEF TickDrives, DriveEnds, DriveFinishes
    <2> QED
      BY <1>1, <1>2, <2>1, WalkQ
  <1> QED
    BY <1>3, <1>4, <1>5

LEMMA DeferQ ==
  ASSUME IInv, QInv, host.at # "command", Defer \/ Refuse \/ \E r \in
           {"queue_busy", "execution_pending", "result_unknown", "verification_required"} : WaitAndEnd(r)
  PROVE  QInv' /\ Bars
  <1>1. UNCHANGED <<commands, response>>
    BY DEF Defer, Refuse, WaitAndEnd, queueVars
  <1>2. host'.at \in {"end", "reconcile"} /\ host'.command = host.command
    BY GotoWalks DEF Defer, Refuse, WaitAndEnd
  <1> QED
    BY <1>1, <1>2, WalkQ

LEMMA SubmitLooksQ == ASSUME IInv, QInv, SubmitLooks PROVE QInv' /\ Bars
  <1>1. host.at = "submit"
    BY DEF SubmitLooks, At
  <1>2. CASE Defer \/ Refuse
    BY <1>1, <1>2, DeferQ
  <1>3. CASE ~(Defer \/ Refuse)
    <2>1. /\ runner' = [runner EXCEPT !.dispatch = "dispatching"]
          /\ host' = [host EXCEPT !.at = "enqueue", !.input = TRUE]
          /\ UNCHANGED <<commands, response>>
      BY <1>3 DEF SubmitLooks, queueVars
    <2>2. host'.command = host.command /\ runner'.cancel = runner.cancel
      BY <2>1 DEF IInv, HostOK, HostSet, PlanOK, RunnerSet
    <2> QED
      BY <1>1, <2>1, <2>2, WalkQ DEF QInv, RoadInv
  <1> QED
    BY <1>2, <1>3

LEMMA ReconcileQ ==
  ASSUME IInv, QInv, ReconcileSettled \/ ReconcileWaits \/ ReconcileEnded \/ VerifyBegins
                       \/ VerifyUnsure \/ VerifyJudges \/ RecordLooks \/ RecordWrites
  PROVE  QInv' /\ Bars
  <1>1. host.at \in {"reconcile", "verify", "judge", "record", "write"}
    BY DEF ReconcileSettled, ReconcileWaits, ReconcileEnded, VerifyBegins, VerifyUnsure,
           VerifyJudges, RecordLooks, RecordWrites, At
  <1>2. UNCHANGED <<commands, response>>
    BY DEF ReconcileSettled, ReconcileWaits, ReconcileEnded, VerifyBegins, VerifyUnsure,
           VerifyJudges, RecordLooks, RecordWrites, WaitAndEnd, queueVars
  <1>3. host'.command = host.command /\ host'.at \notin {"submit", "enqueue"}
    <2>1. CASE ReconcileSettled \/ ReconcileEnded
      BY <2>1, GotoWalks DEF ReconcileSettled, ReconcileEnded
    <2>2. CASE ReconcileWaits \/ VerifyUnsure \/ RecordWrites
      BY <2>2, GotoWalks DEF ReconcileWaits, VerifyUnsure, RecordWrites, WaitAndEnd
    <2>3. CASE VerifyBegins
      BY <2>3, GotoWalks DEF VerifyBegins, WaitAndEnd
    <2>4. CASE VerifyJudges
      <3>1. CASE host' = [host EXCEPT !.at = "record", !.verdict = Judgment(runner.ticket)]
        BY <3>1 DEF IInv, HostOK, HostSet
      <3> QED
        BY <2>4, <3>1, GotoWalks DEF VerifyJudges, WaitAndEnd
    <2>5. CASE RecordLooks
      <3>1. CASE WaitAndEnd("verification_required")
        BY <3>1, GotoWalks DEF WaitAndEnd
      <3>2. CASE ~WaitAndEnd("verification_required")
        BY <2>5, <3>2 DEF RecordLooks, IInv, HostOK, HostSet
      <3> QED
        BY <3>1, <3>2
    <2> QED
      BY <2>1, <2>2, <2>3, <2>4, <2>5
  <1> QED
    BY <1>1, <1>2, <1>3, WalkQ

-----------------------------------------------------------------------------
(* Steps of the host that answer, raise or submit.                          *)

LEMMA SettledQ ==
  ASSUME IInv, QInv, Drains, host' = Idle
  PROVE  QInv' /\ Bars
  BY IdleRoad, DrainsKeeps

LEMMA DrivePreparesQ == ASSUME IInv, QInv, DrivePrepares PROVE QInv' /\ Bars
  <1>1. host.at = "drive" /\ UNCHANGED commands /\ runner.cancel = NoCommand
    BY DEF DrivePrepares, At, NothingToDo
  <1>2. CASE Raise /\ host' = Idle
    BY <1>1, <1>2, RaiseDrains, SettledQ
  <1>3. CASE ~(Raise /\ host' = Idle)
    <2>1. /\ runner' = [runner EXCEPT !.state = "dispatching", !.ticket = trial.step,
                         !.dispatch = "dispatching", !.wait = NoWait]
          /\ Goto("submit") /\ UNCHANGED response
      BY <1>3 DEF DrivePrepares
    <2>2. runner'.cancel = NoCommand
      BY <1>1, <2>1 DEF IInv, PlanOK, RunnerSet
    <2> QED
      BY <1>1, <2>1, <2>2, GotoWalks, WalkQ
  <1> QED
    BY <1>2, <1>3

LEMMA SettleReviewedQ == ASSUME IInv, QInv, SettleReviewed PROVE QInv' /\ Bars
  <1>1. host.at = "settle" /\ UNCHANGED commands
    BY DEF SettleReviewed, At
  <1>2. CASE Raise /\ host' = Idle
    BY <1>1, <1>2, RaiseDrains, SettledQ
  <1>3. CASE ~(Raise /\ host' = Idle)
    <2>1. Goto("drive") /\ UNCHANGED response
      BY <1>3 DEF SettleReviewed
    <2> QED
      BY <1>1, <2>1, GotoWalks, WalkQ
  <1> QED
    BY <1>2, <1>3

LEMMA EndDriveQ == ASSUME IInv, QInv, EndDrive PROVE QInv' /\ Bars
  <1>1. host.at = "end" /\ UNCHANGED commands /\ host' = Idle
    BY DEF EndDrive, At
  <1>2. Drains
    <2>1. CASE host.command = NoCommand
      BY <1>1, <2>1, SameDrains DEF EndDrive
    <2>2. CASE host.command # NoCommand
      <3>1. host.command \in commands
        BY <1>1, <2>2 DEF IInv, HandInv
      <3> QED
        BY <1>1, <2>2, <3>1, RespondDrains DEF EndDrive
    <2> QED
      BY <2>1, <2>2
  <1> QED
    BY <1>1, <1>2, SettledQ

\* The one step that queues a ticket: nothing waits but the control in hand,
\* which is no cancel.
LEMMA SubmitEnqueuesQ == ASSUME IInv, QInv, SubmitEnqueues PROVE QInv' /\ Bars
  <1>1. /\ host.at = "enqueue" /\ commands' = commands \cup {runner.ticket}
        /\ host.command \notin Cancel /\ runner.cancel = NoCommand
    BY DEF SubmitEnqueues, At, QInv, RoadInv
  <1>2. runner.ticket \in Step /\ host.command \in (Control \cap commands) \cup {NoCommand}
    BY <1>1 DEF IInv, TicketInv, HandInv, PlanOK, RunnerSet, Step, Ticketed
  <1>3. CASE runner.ticket \in commands
    <2>1. UNCHANGED commands
      BY <1>1, <1>3
    <2>2. CASE Raise /\ host' = Idle
      BY <1>1, <2>1, <2>2, RaiseDrains, SettledQ
    <2>3. CASE ~(Raise /\ host' = Idle)
      <3>1. Goto("reconcile") /\ UNCHANGED response
        BY <2>3 DEF SubmitEnqueues
      <3> QED
        BY <1>1, <2>1, <3>1, GotoWalks, WalkQ
    <2> QED
      BY <2>2, <2>3
  <1>4. CASE runner.ticket \notin commands
    <2>1. ~Closing /\ Pending \subseteq {host.command}
      BY <1>4 DEF SubmitEnqueues, MayEnqueue
    <2>2. Bars
      BY <1>1, <2>1 DEF Bars
    <2>3. CASE Raise /\ host' = Idle
      <3>1. CASE host.command = NoCommand
        <4>1. UNCHANGED response
          BY <3>1, <2>3 DEF Raise
        <4>2. NoCommand \notin commands
          BY DEF IInv, QueueOK
        <4>3. Pending' \subseteq {runner.ticket}
          BY <1>1, <2>1, <3>1, <4>1, <4>2 DEF Pending
        <4> QED
          BY <2>2, <2>3, <4>3, IdleRoad DEF QInv, OneWaits
      <3>2. CASE host.command # NoCommand
        <4>1. PICK r \in {"failed", "rejected"} : response' = [response EXCEPT ![host.command] = r]
          BY <2>3, <3>2 DEF Raise, Respond
        <4>2. /\ commands \subseteq Command /\ host.command \in commands
              /\ response \in [Command -> StepResponse \cup ControlResponse]
          BY <1>2, <3>2 DEF IInv, QueueOK
        <4>3. response'[host.command] = r
              /\ \A d \in commands \ {host.command} : response'[d] = response[d]
          BY <4>1, <4>2
        <4>4. Pending' \subseteq {runner.ticket}
          BY <1>1, <2>1, <4>3 DEF Pending
        <4> QED
          BY <2>2, <2>3, <4>4, IdleRoad DEF QInv, OneWaits
      <3> QED
        BY <3>1, <3>2
    <2>4. CASE ~(Raise /\ host' = Idle)
      <3>1. Goto("reconcile") /\ UNCHANGED response
        BY <2>4 DEF SubmitEnqueues
      <3>2. host'.at = "reconcile" /\ host'.command = host.command
        BY <3>1, GotoWalks
      <3>3. Pending' \subseteq {runner.ticket, host.command}
        BY <1>1, <2>1, <3>1 DEF Pending
      <3>4. RoadInv'
        BY <1>1, <3>2 DEF RoadInv
      <3>5. OneWaits'
        BY <3>2, <3>3 DEF OneWaits
      <3> QED
        BY <2>2, <3>4, <3>5 DEF QInv
    <2> QED
      BY <2>3, <2>4
  <1> QED
    BY <1>3, <1>4

\* A control of the plan, or an input, that ends with its answer.
LEMMA AnsweredQ ==
  ASSUME IInv, QInv, host.at = "command", UNCHANGED commands,
         NEW r, r # "none", Answer(r)
  PROVE  QInv' /\ Bars
  BY AnswerDrains, SettledQ

LEMMA StartPlanQ == ASSUME IInv, QInv, StartPlan PROVE QInv' /\ Bars
  <1>1. host.at = "command" /\ host.command = Start /\ UNCHANGED commands
    BY DEF StartPlan, Handles, At
  <1>2. CASE Answer("failed")
    BY <1>1, <1>2, AnsweredQ
  <1>3. CASE ~Answer("failed")
    <2>1. host' = [host EXCEPT !.at = "drive", !.input = TRUE] /\ UNCHANGED response
      BY <1>3 DEF StartPlan
    <2>2. host'.at = "drive" /\ host'.command = host.command
      BY <2>1 DEF IInv, HostOK, HostSet
    <2>3. RoadInv'
      BY <1>1, <2>2 DEF RoadInv
    <2> QED
      BY <1>1, <2>1, <2>2, <2>3, SameDrains, DrainsKeeps
  <1> QED
    BY <1>2, <1>3

LEMMA ContinuePlanQ == ASSUME IInv, QInv, ContinuePlan PROVE QInv' /\ Bars
  <1>1. /\ host.command \in Continue /\ UNCHANGED <<commands, response>>
        /\ host' = [host EXCEPT !.at = "drive", !.input = TRUE]
    BY DEF ContinuePlan, Handles, queueVars
  <1>2. host'.at = "drive" /\ host'.command = host.command
    BY <1>1 DEF IInv, HostOK, HostSet
  <1>3. RoadInv'
    BY <1>1, <1>2 DEF RoadInv
  <1> QED
    BY <1>1, <1>2, <1>3, SameDrains, DrainsKeeps

LEMMA ControlQ ==
  ASSUME IInv, QInv, CancelRejected \/ CancelTooLate \/ CancelPlan \/ ContinueRejected
                       \/ ReviewRejected \/ ReviewPlan
  PROVE  QInv' /\ Bars
  <1>1. host.at = "command" /\ UNCHANGED commands
    BY DEF CancelRejected, CancelTooLate, CancelPlan, ContinueRejected, ReviewRejected,
           ReviewPlan, Handles, At
  <1>2. Answer("returned") \/ Answer("rejected")
    BY DEF CancelRejected, CancelTooLate, CancelPlan, ContinueRejected, ReviewRejected,
      ReviewPlan
  <1> QED
    BY <1>1, <1>2, AnsweredQ

LEMMA InputQ == ASSUME IInv, QInv, Input PROVE QInv' /\ Bars
  <1>1. host.at = "command" /\ UNCHANGED commands
    BY DEF Input, RefuseInput, OtherInput, StepRuns, StepStarts, Handles, At
  <1>2. PICK r \in Outcome \cup {"rejected", "returned", "running"} : Answer(r)
    BY DEF Input, RefuseInput, OtherInput, StepRuns, StepStarts, Outcome
  <1>3. r # "none"
    BY DEF Outcome, Completed
  <1> QED
    BY <1>1, <1>2, <1>3, AnsweredQ

LEMMA CloseSessionQ == ASSUME IInv, QInv, CloseSession PROVE QInv' /\ Bars
  <1>1. host.at = "command" /\ host.command = Close /\ UNCHANGED commands
    BY DEF CloseSession, Handles, At
  <1>2. Drains
    <2>1. host.command \in commands
      BY <1>1 DEF IInv, HandInv
    <2> QED
      BY <1>1, <2>1, RespondDrains DEF CloseSession
  <1>3. RoadInv'
    BY DEF CloseSession, RoadInv, Idle, Control, Client, Command
  <1> QED
    BY <1>2, <1>3, DrainsKeeps

LEMMA HostQ == ASSUME IInv, QInv, Host PROVE QInv' /\ Bars
  <1>1. CASE TickStops \/ TickWithdraws \/ TickDrives \/ DriveEnds \/ DriveFinishes \/ DrivePrepares
    BY <1>1, DriveQ, TickWithdrawsQ, DrivePreparesQ
  <1>2. CASE Submit
    BY <1>2, DriveQ, SubmitLooksQ, SubmitEnqueuesQ, DeferQ DEF Submit, SubmitDefers,
      SubmitRefused, At
  <1>3. CASE Reconcile
    BY <1>3, ReconcileQ, SettleReviewedQ DEF Reconcile
  <1>4. CASE PlanControl
    BY <1>4, ControlQ, StartPlanQ, ContinuePlanQ DEF PlanControl
  <1>5. CASE EndDrive \/ Input \/ CloseSession
    BY <1>5, EndDriveQ, InputQ, CloseSessionQ
  <1>6. CASE \E c \in Command : Pick(c)
    BY <1>6, PickQ
  <1> QED
    BY <1>1, <1>2, <1>3, <1>4, <1>5, <1>6 DEF Host

LEMMA NextQ == ASSUME IInv, QInv, [Next]_vars PROVE QInv' /\ (Bars \/ UNCHANGED vars)
  <1>1. CASE Next
    BY <1>1, ClientQ, ClientEnqueuesQ, StopCommandQ, HostQ, JobEndsQ DEF Next
  <1>2. CASE UNCHANGED vars
    BY <1>2 DEF vars, QInv, RoadInv, OneWaits, Pending
  <1> QED
    BY <1>1, <1>2

THEOREM QueueInvariance == Spec => [](IInv /\ QInv)
  <1>1. Init => QInv
    BY DEF Init, QInv, RoadInv, OneWaits, Pending, Idle, Control, Client, Command
  <1>2. IInv /\ QInv /\ [Next]_vars => QInv'
    BY NextQ
  <1> QED
    BY <1>1, <1>2, Invariance, PTL DEF Spec

\* At most one command waits beside the control in hand and the close, and a
\* step is queued past no cancel and into no session that closes, whichever of
\* the two processes takes the lock when (enqueue_command, _enqueue).
THEOREM QueueIsGuardedHolds == Spec => QueueIsGuarded
  <1>1. QInv => OneCommandWaits
    <2> SUFFICES ASSUME QInv PROVE OneCommandWaits
      OBVIOUS
    <2> DEFINE W == Pending \ {host.command, Close}
    <2>1. CASE W = {}
      BY <2>1, FS_EmptySet DEF OneCommandWaits
    <2>2. CASE W # {}
      <3>1. PICK c \in W : TRUE
        BY <2>2
      <3>2. W = {c}
        BY DEF QInv, OneWaits
      <3>3. Cardinality(W) = 1
        BY <3>2, FS_Singleton
      <3> QED
        BY <3>3 DEF OneCommandWaits
    <2> QED
      BY <2>1, <2>2
  <1>2. IInv /\ QInv /\ [Next]_vars => [Bars]_vars
    BY NextQ
  <1>3. Bars <=> \A s \in Step : s \in Pending' \ Pending =>
          /\ Cancel \cap Pending = {} /\ ~Closing
          /\ runner.cancel = NoCommand
    BY DEF Bars
  <1>4. IInv /\ QInv /\ [Next]_vars => [\A s \in Step : s \in Pending' \ Pending =>
          /\ Cancel \cap Pending = {} /\ ~Closing
          /\ runner.cancel = NoCommand]_vars
    BY <1>2, <1>3
  <1> QED
    BY <1>1, <1>4, QueueInvariance, PTL DEF Spec, QueueIsGuarded, CancelBarsTheQueue
=============================================================================
