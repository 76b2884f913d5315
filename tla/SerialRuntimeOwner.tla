-------------------------- MODULE SerialRuntimeOwner --------------------------
(***************************************************************************)
(* app/execution/single_step_runtime_owner.py: the one thread on which     *)
(* every native call of a host runs.  Callers on other threads queue a     *)
(* function and wait for its future; a function that calls the owner again *)
(* runs inline; close puts a stop marker behind the queue and joins.       *)
(*                                                                         *)
(* _guard makes the admission and the marker one step each.  Waiting for a *)
(* future and joining happen outside it.                                   *)
(*                                                                         *)
(* The names every specification has (Init, Next, Spec...) carry a prefix  *)
(* here: OwnerProofs extends this module and InstantHttpOwner.             *)
(***************************************************************************)
EXTENDS Integers, Sequences, FiniteSets

CONSTANTS Call,    \* functions other threads hand to the owner, each once
          Closer,  \* threads that call close, each once
          Stop,    \* _STOP
          NoCall   \* nothing is running

ASSUME CallAssumption == IsFiniteSet(Call) /\ Stop \notin Call /\ NoCall \notin Call

VARIABLES closed,    \* _closed
          thread,    \* the owner thread's position
          inited,    \* how the initializer ended
          queue,     \* _queue
          running,   \* the function in hand, and its inline call
          call,      \* what each caller knows
          closer,    \* what each closing thread knows
          terminal   \* _terminal_error is set

serialVars == <<closed, thread, inited, queue, running, call, closer, terminal>>

\* "unstarted" is a thread object whose start() raised: _thread is set and no
\* thread will ever read the queue.
ThreadState == {"none", "unstarted", "initializing", "serving", "finalizing", "ended"}
Answered == {"value", "error", "initError"}
CallState == {"new", "refused", "startError", "queued"} \cup Answered

\* One inline call per function bounds the nesting.
Nested == {"no", "running", "done"}

SerialInit ==
  /\ closed = FALSE
  /\ thread = "none"
  /\ inited = "no"
  /\ queue = <<>>
  /\ running = [call |-> NoCall, inner |-> "no"]
  /\ call = [c \in Call |-> "new"]
  /\ closer = [k \in Closer |-> "new"]
  /\ terminal = FALSE

-----------------------------------------------------------------------------
(***************************************************************************)
(* Callers.                                                                *)
(***************************************************************************)
Accepts == ~closed

\* The first call starts the thread and queues its function.
FirstCall(c) ==
  /\ call[c] = "new" /\ Accepts /\ thread = "none"
  /\ thread' = "initializing"
  /\ queue' = Append(queue, c)
  /\ call' = [call EXCEPT ![c] = "queued"]
  /\ UNCHANGED <<closed, inited, running, closer, terminal>>

\* The system has no thread left: start() raises out of call, and the thread
\* object stays where it is.
FirstCallFails(c) ==
  /\ call[c] = "new" /\ Accepts /\ thread = "none"
  /\ thread' = "unstarted"
  /\ call' = [call EXCEPT ![c] = "startError"]
  /\ UNCHANGED <<closed, inited, queue, running, closer, terminal>>

LaterCall(c) ==
  /\ call[c] = "new" /\ Accepts /\ thread # "none"
  /\ queue' = Append(queue, c)
  /\ call' = [call EXCEPT ![c] = "queued"]
  /\ UNCHANGED <<closed, thread, inited, running, closer, terminal>>

RefusedCall(c) ==
  /\ call[c] = "new" /\ ~Accepts
  /\ call' = [call EXCEPT ![c] = "refused"]
  /\ UNCHANGED <<closed, thread, inited, queue, running, closer, terminal>>

-----------------------------------------------------------------------------
(***************************************************************************)
(* The owner thread.                                                       *)
(***************************************************************************)
Initialize ==
  /\ thread = "initializing"
  /\ inited' \in {"ok", "failed"}
  /\ thread' = "serving"
  /\ UNCHANGED <<closed, queue, running, call, closer, terminal>>

Free == thread = "serving" /\ running.call = NoCall /\ queue # <<>>

\* A thread that could not be initialized answers everyone with that error.
AnswerInitError ==
  /\ Free /\ Head(queue) # Stop /\ inited = "failed"
  /\ queue' = Tail(queue)
  /\ call' = [call EXCEPT ![Head(queue)] = "initError"]
  /\ UNCHANGED <<closed, thread, inited, running, closer, terminal>>

\* Mutant: the newest function goes first.
Take_Newest ==
  /\ Free /\ queue[Len(queue)] # Stop /\ inited = "ok"
  /\ running' = [call |-> queue[Len(queue)], inner |-> "no"]
  /\ queue' = SubSeq(queue, 1, Len(queue) - 1)
  /\ UNCHANGED <<closed, thread, inited, call, closer, terminal>>

Take ==
  /\ Free /\ Head(queue) # Stop /\ inited = "ok"
  /\ running' = [call |-> Head(queue), inner |-> "no"]
  /\ queue' = Tail(queue)
  /\ UNCHANGED <<closed, thread, inited, call, closer, terminal>>

\* The function calls the owner it runs on: inline while the owner is open,
\* refused once close has been called.
InlineCall ==
  /\ running.call # NoCall /\ running.inner = "no"
  /\ running' = [running EXCEPT !.inner = IF Accepts THEN "running" ELSE "done"]
  /\ UNCHANGED <<closed, thread, inited, queue, call, closer, terminal>>

InlineReturn ==
  /\ running.inner = "running"
  /\ running' = [running EXCEPT !.inner = "done"]
  /\ UNCHANGED <<closed, thread, inited, queue, call, closer, terminal>>

\* The function returns or raises; calling close from inside raises too.
Return ==
  /\ running.call # NoCall /\ running.inner # "running"
  /\ \E r \in {"value", "error"} : call' = [call EXCEPT ![running.call] = r]
  /\ running' = [call |-> NoCall, inner |-> "no"]
  /\ UNCHANGED <<closed, thread, inited, queue, closer, terminal>>

TakeStop ==
  /\ Free /\ Head(queue) = Stop
  /\ queue' = Tail(queue)
  /\ thread' = "finalizing"
  /\ UNCHANGED <<closed, inited, running, call, closer, terminal>>

\* The finalizer runs only over a successful initializer, and may raise.
Finalize ==
  /\ thread = "finalizing"
  /\ thread' = "ended"
  /\ IF inited = "ok" THEN terminal' \in BOOLEAN ELSE UNCHANGED terminal
  /\ UNCHANGED <<closed, inited, queue, running, call, closer>>

-----------------------------------------------------------------------------
(***************************************************************************)
(* Closing threads.                                                        *)
(***************************************************************************)
\* No thread was ever made: close only shuts the door.
CloseIdle(k) ==
  /\ closer[k] = "new" /\ thread = "none"
  /\ closed' = TRUE
  /\ closer' = [closer EXCEPT ![k] = "closed"]
  /\ UNCHANGED <<thread, inited, queue, running, call, terminal>>

\* Mutant: the marker is forgotten.
Marker_Never == queue

\* The first close puts the marker.
Marker == IF closed THEN queue ELSE Append(queue, Stop)

\* Every close then joins the thread, which raises at once if it never
\* started.
CloseAndJoin(k) ==
  /\ closer[k] = "new" /\ thread # "none"
  /\ closed' = TRUE
  /\ queue' = Marker
  /\ closer' = [closer EXCEPT ![k] = IF thread = "unstarted" THEN "raised" ELSE "joining"]
  /\ UNCHANGED <<thread, inited, running, call, terminal>>

\* join returns when the thread has ended; a finalizer that failed is raised.
Joined(k) ==
  /\ closer[k] = "joining" /\ thread = "ended"
  /\ closer' = [closer EXCEPT ![k] = IF terminal THEN "raised" ELSE "closed"]
  /\ UNCHANGED <<closed, thread, inited, queue, running, call, terminal>>

-----------------------------------------------------------------------------
Owner == Initialize \/ AnswerInitError \/ Take \/ InlineCall \/ InlineReturn
           \/ Return \/ TakeStop \/ Finalize

SerialNext ==
  \/ \E c \in Call : FirstCall(c) \/ FirstCallFails(c) \/ LaterCall(c) \/ RefusedCall(c)
  \/ Owner
  \/ \E k \in Closer : CloseIdle(k) \/ CloseAndJoin(k) \/ Joined(k)

SerialSpec == SerialInit /\ [][SerialNext]_serialVars

\* The owner thread is scheduled, native functions have time limits of their
\* own, and a join returns once the thread is gone.  Nobody has to call.
SerialFairSpec == SerialSpec /\ WF_serialVars(Owner) /\ \A k \in Closer : WF_serialVars(Joined(k))

-----------------------------------------------------------------------------
(***************************************************************************)
(* Properties.                                                             *)
(***************************************************************************)
\* Types; the queue never holds more than every call once and one marker.
SerialTypeOK ==
  /\ closed \in BOOLEAN
  /\ thread \in ThreadState
  /\ inited \in {"no", "ok", "failed"}
  /\ queue \in Seq(Call \cup {Stop}) /\ Len(queue) <= Cardinality(Call) + 1
  /\ running \in [call : Call \cup {NoCall}, inner : Nested]
  /\ call \in [Call -> CallState]
  /\ closer \in [Closer -> {"new", "joining", "closed", "raised"}]
  /\ terminal \in BOOLEAN

\* A caller that was told to wait is in front of the marker or in hand: none
\* is behind it, none is lost, none is queued twice (call and close under
\* _guard, _run's loop).
NobodyBehindStop ==
  /\ \A i \in 1 .. Len(queue) - 1 : queue[i] # Stop
  /\ \A i, j \in DOMAIN queue : i # j => queue[i] # queue[j]
  /\ \A c \in Call : call[c] = "queued" <=>
       (running.call = c \/ \E i \in DOMAIN queue : queue[i] = c)

\* A close that returned over a thread that lived means the thread is gone and
\* every accepted call has its answer (close's join).
CloseMeansDone ==
  (thread # "unstarted" /\ \E k \in Closer : closer[k] \in {"closed", "raised"})
    => thread \in {"none", "ended"} /\ \A c \in Call : call[c] # "queued"

\* Seen through this mapping the owner answers accepted calls one at a time
\* and in order, and is released after the last of them.
Unmarked == IF queue # <<>> /\ queue[Len(queue)] = Stop
            THEN SubSeq(queue, 1, Len(queue) - 1) ELSE queue

Service == INSTANCE SerialService WITH
  pending <- (IF running.call = NoCall THEN <<>> ELSE <<running.call>>) \o Unmarked,
  answered <- {c \in Call : call[c] \in Answered},
  phase <- CASE thread = "ended" -> "released"
             [] closed /\ thread # "ended" -> "shut"
             [] OTHER -> "open",
  broken <- thread = "unstarted"

ImplementsSerialService == Service!Spec

\* A close that waits for the thread returns.
ClosersReturn == \A k \in Closer : closer[k] = "joining" ~> closer[k] # "joining"

=============================================================================
