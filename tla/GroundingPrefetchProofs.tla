---------------------- MODULE GroundingPrefetchProofs ----------------------
(***************************************************************************)
(* Proofs about GroundingPrefetch, for a plan of any number of steps.      *)
(*                                                                         *)
(* The argument: the phase of a request says where its thread can be and   *)
(* what its record can hold (KeyInv), and only the latest request is       *)
(* wanted or running (ActiveInv), so whatever discards the active request  *)
(* leaves none that is wanted.  The command's thread looks at one request  *)
(* in three holds of the lock; WorkerInv says what each hold hands to the  *)
(* next.  A step is settled once, and only the decision releases the       *)
(* request behind it (PlanInv).                                            *)
(***************************************************************************)
EXTENDS GroundingPrefetch, FiniteSetTheorems, TLAPS

\* Requests that a discard still ends.
LivePhase == {"requesting", "ready", "failed"}

\* What the phase of a request says of its thread and of its record.
KeyInv(k) ==
  /\ entry[k].phase = "none" <=> thread[k] = "none"
  /\ entry[k].phase = "none" => entry[k] = NoEntry /\ store[k] = "none"
  /\ entry[k].phase = "requesting" =>
       /\ thread[k] \in {"start", "http", "answered", "failed"}
       /\ store[k] \in {"awaiting_grounding", "absent", "expired"}
  /\ entry[k].phase = "ready" =>
       thread[k] \in {"end", "done"} /\ store[k] \in {"grounding_ready", "expired"}
  /\ entry[k].phase = "failed" =>
       thread[k] \in {"end", "done"} /\ store[k] \in {"cancelled", "expired"}
  /\ entry[k].phase = "consumed" =>
       /\ thread[k] = "done" /\ entry[k].released /\ k <= plan.step
       /\ store[k] \in {"grounding_ready", "executing", "cancelled", "expired"}
  /\ entry[k].phase = "discarded" => store[k] \in {"cancelled", "expired"}
  /\ thread[k] \in {"http", "answered", "failed"} \/ entry[k].phase \in {"ready", "consumed"}
       => entry[k].attempts = 1

EntryInv == \A k \in Key : KeyInv(k)

\* Only the latest request can be running or wanted.
ActiveInv ==
  /\ \A k \in Key : ~Done(k) \/ entry[k].phase \in LivePhase => k = active
  /\ \A k \in Key : entry[k].phase # "none" => k <= active
  /\ active # 0 => entry[active].phase # "none"
  /\ active <= plan.step + 1
  /\ worker.at # "none" => active <= plan.step /\ plan.step > 1

\* The command's thread and the request it found.
WorkerInv ==
  /\ worker.at \notin {"none", "check"} => worker.entry = active
  /\ worker.at \in {"current", "wait", "take", "claim"} => worker.entry # 0
  /\ worker.at \in {"wait", "take"} =>
       entry[worker.entry].released \/ entry[worker.entry].phase = "discarded"
  /\ worker.at = "take" => Done(worker.entry)
  /\ worker.at = "claim" => entry[worker.entry].phase = "consumed"
  /\ \A k \in Key : entry[k].phase = "consumed" /\ store[k] \in Open =>
       worker.at = "claim" /\ worker.entry = k

\* A step is settled once, and a request is released by its decision.
PlanInv ==
  /\ \A k \in Key : entry[k].released => plan.by[k - 1] = "decision"
  /\ \A s \in Step : plan.by[s] # "nobody" => s <= plan.step
  /\ plan.by[plan.step] # "nobody" =>
       worker.at = "none" /\ plan.at \in {"ready", "over", "cancel"}
  /\ worker.at # "none" => plan.at \in {"command", "cancel"}

\* After the close nothing is wanted any more.
ClosedInv == Closed => \A k \in Key : entry[k].phase \notin LivePhase

IInv == TypeOK /\ EntryInv /\ ActiveInv /\ WorkerInv /\ PlanInv /\ ClosedInv

-----------------------------------------------------------------------------
\* The records of TypeOK, and the range of the steps.
EntrySet == [phase : Phase, released : BOOLEAN, attempts : 0..1, error : BOOLEAN]

PlanSet == [step : Step, at : {"verify", "assess", "settle", "ready", "command", "review",
                               "cancel", "over"},
            by : [Step -> SettledBy], cancelled : BOOLEAN]

WorkerSet == [at : PC, entry : Key \cup {0}, wait : SUBSET Key]

LEMMA Numbers ==
  /\ MaxStep \in Nat /\ Key \subseteq Step /\ Step \subseteq Nat /\ 0 \notin Step
  /\ \A k \in Key : k - 1 \in Step /\ k > 1
  /\ \A s \in Step : s > 1 => s \in Key
  /\ \A s \in Step : s + 1 \in Key \/ s = MaxStep
  BY StepAssumption DEF Key, Step

\* What a discard leaves behind, of the requests and of the store.
DropsTo(e, s) ==
  /\ e \in [Key -> EntrySet] /\ s \in [Key -> Stored]
  /\ \A k \in Key :
       \/ e[k] = entry[k] /\ s[k] = store[k]
       \/ /\ k = active /\ entry[k].phase \in LivePhase
          /\ e[k].phase = "discarded" /\ e[k].released = FALSE
          /\ e[k].attempts = entry[k].attempts /\ e[k].error = entry[k].error
          /\ s[k] \in {"cancelled", "expired"}

\* The requests stay as they are, or the active one is discarded.
Drops == DropsTo(entry', store')

LEMMA StaysDrops == ASSUME TypeOK, UNCHANGED <<entry, store>> PROVE Drops
  BY DEF TypeOK, Drops, DropsTo, EntrySet

\* e and s are what _discard makes of the requests and of the store.
IsDiscard(e, s) == e = Discarded(active) /\ s = StoreWithout(active)

LEMMA DiscardedDrops ==
  ASSUME IInv, NEW e, NEW s, IsDiscard(e, s)
  PROVE  DropsTo(e, s) /\ \A k \in Key : e[k].phase \notin LivePhase
  <1>1. entry \in [Key -> EntrySet] /\ store \in [Key -> Stored] /\ active \in Key \cup {0}
    BY DEF IInv, TypeOK, EntrySet
  <1>2. \A k \in Key : entry[k].phase \in LivePhase => k = active
    BY DEF IInv, ActiveInv
  <1>3. CASE ~Live(active)
    <2>1. e = entry /\ s = store
      BY <1>3 DEF IsDiscard, Discarded, StoreWithout
    <2>2. \A k \in Key : entry[k].phase \notin LivePhase
      BY <1>1, <1>2, <1>3, Numbers DEF Live, LivePhase, Over
    <2> QED
      BY <1>1, <2>1, <2>2 DEF DropsTo
  <1>4. CASE Live(active)
    <2>1. active \in Key /\ entry[active].phase \notin Over
      BY <1>1, <1>4 DEF Live
    <2>2. /\ e = [entry EXCEPT ![active].phase = "discarded", ![active].released = FALSE]
          /\ s = [store EXCEPT ![active] = Withdrawn(active)]
      BY <1>4 DEF IsDiscard, Discarded, StoreWithout
    <2>3. entry[active].phase \in LivePhase
      BY <1>1, <2>1, Numbers DEF IInv, ActiveInv, EntrySet, Phase, Over, LivePhase
    <2>4. store[active] \notin {"executing", "none"}
      BY <2>1, <2>3 DEF IInv, EntryInv, KeyInv, LivePhase
    <2>5. Withdrawn(active) \in {"cancelled", "expired"}
      BY <2>4 DEF Withdrawn
    <2>6. /\ e \in [Key -> EntrySet]
          /\ e[active].phase = "discarded" /\ e[active].released = FALSE
          /\ e[active].attempts = entry[active].attempts
          /\ e[active].error = entry[active].error
          /\ \A k \in Key \ {active} : e[k] = entry[k]
      BY <1>1, <2>1, <2>2 DEF EntrySet, Phase, Over
    <2>7. /\ s \in [Key -> Stored] /\ s[active] \in {"cancelled", "expired"}
          /\ \A k \in Key \ {active} : s[k] = store[k]
      BY <1>1, <2>1, <2>2, <2>5 DEF Stored, Open
    <2>8. \A k \in Key : e[k].phase \notin LivePhase
      BY <1>2, <2>6 DEF LivePhase
    <2> QED
      BY <2>3, <2>6, <2>7, <2>8 DEF DropsTo
  <1> QED
    BY <1>3, <1>4

LEMMA DiscardDrops ==
  ASSUME IInv, Discard(active)
  PROVE  Drops /\ \A k \in Key : entry'[k].phase \notin LivePhase
  BY DiscardedDrops DEF Discard, IsDiscard, Drops

\* A discard, or nothing, between the requests: what else may have moved.
LEMMA DropsEntry ==
  ASSUME IInv, Drops, thread' = thread, plan' \in PlanSet, plan.step <= plan'.step
  PROVE  EntryInv'
  <1> SUFFICES ASSUME NEW k \in Key
               PROVE  KeyInv(k)'
    BY DEF EntryInv
  <1>1. plan.step \in Nat /\ plan'.step \in Nat /\ k \in Nat
    BY Numbers DEF IInv, TypeOK, PlanSet
  <1>2. KeyInv(k) /\ entry'[k] \in EntrySet
    BY DEF IInv, EntryInv, Drops, DropsTo
  <1>3. CASE entry'[k] = entry[k] /\ store'[k] = store[k]
    BY <1>1, <1>2, <1>3 DEF KeyInv
  <1>4. CASE ~(entry'[k] = entry[k] /\ store'[k] = store[k])
    BY <1>1, <1>2, <1>4 DEF KeyInv, Drops, DropsTo, LivePhase, EntrySet
  <1> QED
    BY <1>3, <1>4

\* The parts of the invariant that a discard cannot break by itself.
LEMMA DropsActive ==
  ASSUME IInv, Drops, thread' = thread, active' = active,
         active <= plan'.step + 1,
         worker'.at # "none" => active <= plan'.step /\ plan'.step > 1
  PROVE  ActiveInv'
  <1>1. /\ active \in Key \cup {0} /\ ActiveInv
        /\ \A k \in Key : (entry'[k].phase \in LivePhase => entry[k].phase \in LivePhase)
                          /\ (entry'[k].phase = "none" <=> entry[k].phase = "none")
    BY DEF IInv, TypeOK, Drops, DropsTo, LivePhase
  <1>2. \A k \in Key : Done(k)' <=> Done(k)
    BY DEF Done
  <1> QED
    BY <1>1, <1>2 DEF ActiveInv

LEMMA DropsWorker ==
  ASSUME IInv, Drops, thread' = thread, active' = active,
         worker'.entry \in Key \cup {0},
         worker'.at \notin {"none", "check"} => worker'.entry = active,
         worker'.at \in {"current", "wait", "take", "claim"} => worker'.entry # 0,
         worker'.at \in {"wait", "take"} =>
           entry[worker'.entry].released \/ entry[worker'.entry].phase = "discarded",
         worker'.at = "take" => Done(worker'.entry),
         worker'.at = "claim" => entry[worker'.entry].phase = "consumed",
         worker.at = "claim" => worker'.at = "claim" /\ worker'.entry = worker.entry
  PROVE  WorkerInv'
  BY Numbers DEF IInv, WorkerInv, Drops, DropsTo, Done, LivePhase, Open

LEMMA DropsPlan ==
  ASSUME IInv, Drops, plan' \in PlanSet, plan.step <= plan'.step,
         \A s \in Step : plan'.by[s] # plan.by[s] => plan.by[s] = "nobody" /\ s <= plan'.step,
         plan'.by[plan'.step] # "nobody" =>
           worker'.at = "none" /\ plan'.at \in {"ready", "over", "cancel"},
         worker'.at # "none" => plan'.at \in {"command", "cancel"}
  PROVE  PlanInv'
  <1>1. plan.step \in Nat /\ plan'.step \in Nat /\ Step \subseteq Nat /\ \A k \in Key : k - 1 \in Step
    BY Numbers DEF IInv, TypeOK, PlanSet
  <1>2. \A k \in Key : entry'[k].released => plan'.by[k - 1] = "decision"
    <2> SUFFICES ASSUME NEW k \in Key, entry'[k].released PROVE plan'.by[k - 1] = "decision"
      OBVIOUS
    <2>1. entry[k].released
      BY DEF Drops, DropsTo
    <2>2. plan.by[k - 1] = "decision" /\ k - 1 \in Step
      BY <1>1, <2>1 DEF IInv, PlanInv
    <2>3. plan'.by[k - 1] = plan.by[k - 1]
      BY <2>2
    <2> QED
      BY <2>2, <2>3
  <1>3. \A s \in Step : plan'.by[s] # "nobody" => s <= plan'.step
    <2> SUFFICES ASSUME NEW s \in Step, plan'.by[s] # "nobody" PROVE s <= plan'.step
      OBVIOUS
    <2>1. CASE plan'.by[s] # plan.by[s]
      BY <2>1
    <2>2. CASE plan'.by[s] = plan.by[s]
      <3>1. s <= plan.step
        BY <2>2 DEF IInv, PlanInv
      <3> QED
        BY <1>1, <3>1
    <2> QED
      BY <2>1, <2>2
  <1> QED
    BY <1>2, <1>3 DEF PlanInv

\* A step of the plan, of a control or of the closer: the requests stay, but
\* for a discard, and nobody's thread moves.
LEMMA PlanMoves ==
  ASSUME IInv, Drops, UNCHANGED <<thread, active, worker>>, late' \subseteq Key,
         plan' \in PlanSet, plan'.step = plan.step,
         \A s \in Step : plan'.by[s] # plan.by[s] => plan.by[s] = "nobody" /\ s <= plan.step,
         plan'.by[plan.step] # "nobody" =>
           worker.at = "none" /\ plan'.at \in {"ready", "over", "cancel"},
         worker.at # "none" => plan'.at \in {"command", "cancel"},
         job' \in [cancelled : BOOLEAN, drifted : BOOLEAN],
         closer' \in {"no", "closing", "joining", "joined", "unfinished"},
         Closed' => Closed \/ \A k \in Key : entry'[k].phase \notin LivePhase
  PROVE  IInv'
  <1>1. TypeOK'
    BY DEF IInv, TypeOK, Drops, DropsTo, EntrySet, PlanSet
  <1>2. plan.step \in Nat
    BY Numbers DEF IInv, TypeOK
  <1>3. EntryInv'
    BY <1>2, DropsEntry
  <1>4. ActiveInv'
    BY DropsActive DEF IInv, ActiveInv
  <1>5. WorkerInv'
    BY DropsWorker DEF IInv, WorkerInv, TypeOK
  <1>6. PlanInv'
    BY <1>2, DropsPlan
  <1>7. ClosedInv'
    BY DEF IInv, ClosedInv, Drops, DropsTo
  <1> QED
    BY <1>1, <1>3, <1>4, <1>5, <1>6, <1>7 DEF IInv

\* A step of the command's thread that takes nothing from the requests but by
\* a discard.
LEMMA WorkMoves ==
  ASSUME IInv, Drops, UNCHANGED <<plan, late, thread, active, job, closer>>,
         worker.at # "none", worker' \in WorkerSet, worker.at # "claim",
         worker'.at \notin {"none", "check"} => worker'.entry = active,
         worker'.at \in {"current", "wait", "take", "claim"} => worker'.entry # 0,
         worker'.at \in {"wait", "take"} =>
           entry[worker'.entry].released \/ entry[worker'.entry].phase = "discarded",
         worker'.at = "take" => Done(worker'.entry),
         worker'.at # "claim"
  PROVE  IInv'
  <1>1. TypeOK'
    BY DEF IInv, TypeOK, Drops, DropsTo, EntrySet, WorkerSet
  <1>2. plan.step \in Nat /\ plan \in PlanSet
    BY Numbers DEF IInv, TypeOK, PlanSet
  <1>3. EntryInv'
    BY <1>2, DropsEntry
  <1>4. ActiveInv'
    BY DropsActive DEF IInv, ActiveInv
  <1>5. WorkerInv'
    BY DropsWorker DEF WorkerSet
  <1>6. PlanInv'
    BY <1>2, DropsPlan DEF IInv, PlanInv
  <1>7. ClosedInv'
    BY DEF IInv, ClosedInv, Drops, DropsTo, Closed
  <1> QED
    BY <1>1, <1>3, <1>4, <1>5, <1>6, <1>7 DEF IInv

-----------------------------------------------------------------------------
(* The verification, the controls and the closer.                           *)

LEMMA GotoPlan ==
  ASSUME IInv, NEW p \in {"verify", "assess", "settle", "ready", "command", "review",
                          "cancel", "over"}, Goto(p)
  PROVE  plan' \in PlanSet /\ plan'.step = plan.step /\ plan'.at = p /\ plan'.by = plan.by
         /\ plan'.cancelled = plan.cancelled
  BY DEF IInv, TypeOK, PlanSet, Goto

LEMMA SettlePlan ==
  ASSUME IInv, NEW by \in {"decision", "review"}, Settle(by)
  PROVE  /\ plan' \in PlanSet /\ plan'.step = plan.step /\ plan'.at = "ready"
         /\ plan'.by[plan.step] = by
         /\ \A s \in Step \ {plan.step} : plan'.by[s] = plan.by[s]
  BY DEF IInv, TypeOK, PlanSet, Settle, SettledBy

\* At these places of the plan no command is running and the step is open.
LEMMA AtStep ==
  ASSUME IInv, plan.at \in {"verify", "assess", "settle", "review"}
  PROVE  worker.at = "none" /\ plan.by[plan.step] = "nobody"
  BY DEF IInv, PlanInv

\* The verification goes on without a verdict.
LEMMA VerificationKeeps ==
  ASSUME IInv, Ineligible \/ AssessPass \/ AssessNonpass \/ Interrupted
  PROVE  IInv'
  <1>1. /\ UNCHANGED <<late, thread, active, worker, job, closer>>
        /\ plan.at \in {"verify", "assess", "settle"}
    BY DEF Ineligible, AssessPass, AssessNonpass, Interrupted, Main
  <1>2. PICK p \in {"verify", "assess", "settle", "review"} : Goto(p)
    BY DEF Ineligible, AssessPass, AssessNonpass, Interrupted
  <1>3. Drops
    BY StaysDrops, DiscardDrops DEF IInv, Ineligible, AssessPass, AssessNonpass, Interrupted
  <1> QED
    BY <1>1, <1>2, <1>3, GotoPlan, AtStep, PlanMoves DEF IInv, TypeOK, Closed

\* A verdict after which the request is out of use.
LEMMA SettledKeeps == ASSUME IInv, SettleDiscards \/ ReviewPasses PROVE IInv'
  <1>1. /\ UNCHANGED <<late, thread, active, worker, job, closer>> /\ Drops
        /\ plan.at \in {"settle", "review"}
    BY DiscardDrops DEF SettleDiscards, ReviewPasses, Main
  <1>2. PICK by \in {"decision", "review"} : Settle(by)
    BY DEF SettleDiscards, ReviewPasses
  <1>3. plan.step \in Step /\ plan.step \in Nat
    BY Numbers DEF IInv, TypeOK
  <1> QED
    BY <1>1, <1>2, <1>3, SettlePlan, AtStep, PlanMoves DEF IInv, TypeOK, Closed

LEMMA RefusedControlKeeps == ASSUME IInv, RefusedControl PROVE IInv'
  <1>1. Drops /\ UNCHANGED <<plan, late, thread, active, worker, job, closer>>
    BY DiscardDrops DEF RefusedControl
  <1> QED
    BY <1>1, PlanMoves DEF IInv, TypeOK, PlanSet, PlanInv, Closed

LEMMA CancelDiscardsKeeps == ASSUME IInv, CancelDiscards PROVE IInv'
  <1>1. /\ Drops /\ UNCHANGED <<late, thread, active, worker, job, closer>>
        /\ plan' = [plan EXCEPT !.at = "cancel"]
        /\ plan.at \in {"command", "review", "ready"}
    BY DiscardDrops DEF CancelDiscards
  <1>2. plan' \in PlanSet /\ plan'.step = plan.step /\ plan'.at = "cancel" /\ plan'.by = plan.by
    BY <1>1 DEF IInv, TypeOK, PlanSet
  <1> QED
    BY <1>1, <1>2, PlanMoves DEF IInv, TypeOK, PlanInv, Closed

LEMMA CancelWritesKeeps == ASSUME IInv, CancelWrites PROVE IInv'
  <1>1. /\ UNCHANGED <<entry, store, late, thread, active, worker, job, closer>>
        /\ plan' = [plan EXCEPT !.cancelled = TRUE,
                                !.at = IF worker.at = "none" THEN "over" ELSE "command"]
    BY DEF CancelWrites
  <1>2. /\ plan' \in PlanSet /\ plan'.step = plan.step /\ plan'.by = plan.by
        /\ plan'.at = IF worker.at = "none" THEN "over" ELSE "command"
    BY <1>1 DEF IInv, TypeOK, PlanSet
  <1>3. Drops
    BY <1>1, StaysDrops DEF IInv
  <1> QED
    BY <1>1, <1>2, <1>3, PlanMoves DEF IInv, TypeOK, PlanInv, Closed

LEMMA JobKeeps == ASSUME IInv, CancelCommand \/ Drift \/ CloseCommands PROVE IInv'
  <1>1. /\ UNCHANGED <<plan, entry, late, thread, active, store, worker>>
        /\ closer' \in {closer, "closing"}
    BY DEF CancelCommand, Drift, CloseCommands
  <1>2. job' \in [cancelled : BOOLEAN, drifted : BOOLEAN]
    BY DEF CancelCommand, Drift, CloseCommands, IInv, TypeOK
  <1>3. Drops
    BY <1>1, StaysDrops DEF IInv
  <1>4. Closed' => Closed
    BY <1>1 DEF Closed
  <1> QED
    BY <1>1, <1>2, <1>3, <1>4, PlanMoves DEF IInv, TypeOK, PlanSet, PlanInv

LEMMA CloserKeeps == ASSUME IInv, Closer PROVE IInv'
  <1>1. UNCHANGED <<plan, late, thread, active, worker, job>>
        /\ closer' \in {"joining", "joined", "unfinished"}
    BY DEF Closer, ClosePrefetch, CloseReturns
  <1>2. Drops /\ (Closed \/ \A k \in Key : entry'[k].phase \notin LivePhase)
    BY StaysDrops, DiscardDrops DEF IInv, Closer, ClosePrefetch, CloseReturns, Closed
  <1> QED
    BY <1>1, <1>2, PlanMoves DEF IInv, TypeOK, PlanSet, PlanInv

\* The release: the success of this step is recorded with it.
LEMMA SettleReleasesKeeps == ASSUME IInv, SettleReleases PROVE IInv'
  <1>1. /\ UNCHANGED <<late, thread, active, store, worker, job, closer>>
        /\ plan.at = "settle" /\ Settle("decision")
        /\ worker.at = "none" /\ plan.by[plan.step] = "nobody"
    BY AtStep DEF SettleReleases, Main
  <1>2. /\ plan' \in PlanSet /\ plan'.step = plan.step /\ plan'.at = "ready"
        /\ plan'.by[plan.step] = "decision"
        /\ \A s \in Step \ {plan.step} : plan'.by[s] = plan.by[s]
    BY <1>1, SettlePlan
  <1>3. entry \in [Key -> EntrySet] /\ plan.step \in Step /\ plan.step \in Nat
    BY Numbers DEF IInv, TypeOK, EntrySet
  <1>4. /\ entry' \in [Key -> EntrySet]
        /\ \A k \in Key : /\ entry'[k].phase = entry[k].phase
                          /\ entry'[k].attempts = entry[k].attempts
                          /\ entry'[k].error = entry[k].error
                          /\ \/ entry'[k] = entry[k]
                             \/ /\ entry'[k].released = TRUE
                                /\ k = plan.step + 1 /\ entry[k].phase # "none"
    <2>1. CASE active = NextKey /\ entry[active].phase # "discarded" /\ active \in Key
      <3>1. entry' = [entry EXCEPT ![active].released = TRUE]
        BY <2>1 DEF SettleReleases
      <3>2. active = plan.step + 1 /\ entry[active].phase # "none"
        BY <2>1, Numbers DEF NextKey, IInv, ActiveInv
      <3> QED
        BY <1>3, <2>1, <3>1, <3>2 DEF EntrySet
    <2>2. CASE ~(active = NextKey /\ entry[active].phase # "discarded" /\ active \in Key)
      <3>1. active \in Key \cup {0} /\ NextKey # 0
        BY <1>3 DEF IInv, TypeOK, NextKey
      <3>2. entry' = entry
        BY <2>2, <3>1 DEF SettleReleases
      <3> QED
        BY <1>3, <3>2
    <2> QED
      BY <2>1, <2>2
  <1>5. TypeOK'
    BY <1>1, <1>2, <1>4 DEF IInv, TypeOK, EntrySet, PlanSet
  <1>6. EntryInv'
    <2> SUFFICES ASSUME NEW k \in Key PROVE KeyInv(k)'
      BY DEF EntryInv
    <2>1. KeyInv(k)
      BY DEF IInv, EntryInv
    <2> QED
      BY <1>1, <1>2, <1>4, <2>1 DEF KeyInv
  <1>7. ActiveInv'
    <2>1. \A k \in Key : Done(k)' <=> Done(k)
      BY <1>1 DEF Done
    <2> QED
      BY <1>1, <1>2, <1>4, <2>1 DEF IInv, ActiveInv, TypeOK
  <1>8. WorkerInv'
    BY <1>1, <1>4 DEF IInv, WorkerInv, Open
  <1>9. PlanInv'
    <2>1. \A k \in Key : entry'[k].released => plan'.by[k - 1] = "decision"
      <3> SUFFICES ASSUME NEW k \in Key, entry'[k].released PROVE plan'.by[k - 1] = "decision"
        OBVIOUS
      <3>1. k - 1 \in Step /\ k \in Nat
        BY Numbers
      <3>2. CASE entry'[k] = entry[k]
        BY <1>1, <1>2, <3>1, <3>2 DEF IInv, PlanInv
      <3>3. CASE k = plan.step + 1
        BY <1>2, <1>3, <3>1, <3>3
      <3> QED
        BY <1>4, <3>2, <3>3
    <2>2. \A s \in Step : plan'.by[s] # "nobody" => s <= plan'.step
      BY <1>2, <1>3 DEF IInv, PlanInv
    <2> QED
      BY <1>1, <1>2, <2>1, <2>2 DEF PlanInv
  <1>10. ClosedInv'
    BY <1>1, <1>4 DEF IInv, ClosedInv, Closed
  <1> QED
    BY <1>5, <1>6, <1>7, <1>8, <1>9, <1>10 DEF IInv

\* The command gets its thread, and its receipt is read.
LEMMA CommandKeeps == ASSUME IInv, StartCommand \/ CommandOver PROVE IInv'
  <1>1. /\ UNCHANGED <<entry, late, thread, active, store, closer>>
        /\ plan.step \in Step /\ plan.step \in Nat
    BY Numbers DEF StartCommand, CommandOver, IInv, TypeOK
  <1>2. Drops /\ worker.at # "claim"
    BY <1>1, StaysDrops DEF IInv, PlanInv, StartCommand, CommandOver, Main
  <1>3. CASE StartCommand /\ plan.step = MaxStep
    <2>1. Goto("over") /\ UNCHANGED <<worker, job>> /\ plan.at = "ready"
      BY <1>3 DEF StartCommand, Main
    <2>2. worker.at = "none"
      BY <2>1 DEF IInv, PlanInv
    <2> QED
      BY <1>1, <1>2, <2>1, <2>2, GotoPlan, PlanMoves DEF IInv, TypeOK, Closed
  <1>4. CASE StartCommand /\ plan.step # MaxStep
    <2>1. /\ plan' = [plan EXCEPT !.step = @ + 1, !.at = "command"]
          /\ worker' = [NoWorker EXCEPT !.at = "check"]
          /\ job' = [cancelled |-> FALSE, drifted |-> FALSE]
      BY <1>4 DEF StartCommand
    <2>2. plan.step + 1 \in Step /\ plan.step + 1 > 1 /\ plan.step < plan.step + 1
      BY <1>1, <1>4, Numbers DEF Step
    <2>3. /\ plan' \in PlanSet /\ plan'.step = plan.step + 1 /\ plan'.at = "command"
          /\ plan'.by = plan.by
      BY <2>1, <2>2 DEF IInv, TypeOK, PlanSet
    <2>4. worker' \in WorkerSet /\ worker'.at = "check" /\ worker'.entry = 0
      BY <2>1 DEF WorkerSet, NoWorker, PC
    <2>5. TypeOK'
      BY <1>1, <2>1, <2>3, <2>4 DEF IInv, TypeOK, WorkerSet, PlanSet
    <2>6. EntryInv'
      BY <1>1, <1>2, <2>3, DropsEntry
    <2>7. active <= plan.step + 1 /\ active \in Nat
      BY Numbers DEF IInv, ActiveInv, TypeOK
    <2>8. ActiveInv'
      BY <1>1, <1>2, <2>2, <2>3, <2>7, DropsActive
    <2>9. WorkerInv'
      BY <1>1, <1>2, <2>4, DropsWorker
    <2>10. plan'.by[plan'.step] = "nobody"
      BY <1>1, <2>2, <2>3 DEF IInv, PlanInv, TypeOK, SettledBy
    <2>11. PlanInv'
      BY <1>1, <1>2, <2>3, <2>4, <2>10, DropsPlan
    <2>12. ClosedInv'
      BY <1>1 DEF IInv, ClosedInv, Closed
    <2> QED
      BY <2>5, <2>6, <2>8, <2>9, <2>11, <2>12 DEF IInv
  <1>5. CASE CommandOver
    <2>1. PICK p \in {"over", "verify", "review"} : Goto(p)
      BY <1>5 DEF CommandOver
    <2>2. /\ worker' = NoWorker /\ worker' \in WorkerSet /\ worker'.at = "none" /\ worker'.entry = 0
          /\ job' = job /\ worker.at # "none"
      BY <1>5 DEF CommandOver, NoWorker, WorkerSet, PC
    <2>3. /\ plan' \in PlanSet /\ plan'.step = plan.step /\ plan'.by = plan.by
          /\ plan.by[plan.step] = "nobody"
      BY <2>1, <2>2, GotoPlan DEF IInv, PlanInv
    <2>5. TypeOK'
      BY <1>1, <2>2, <2>3 DEF IInv, TypeOK, WorkerSet, PlanSet
    <2>6. EntryInv'
      BY <1>1, <1>2, <2>3, DropsEntry
    <2>8. ActiveInv'
      BY <1>1, <1>2, <2>2, <2>3, DropsActive DEF IInv, ActiveInv
    <2>9. WorkerInv'
      BY <1>1, <1>2, <2>2, DropsWorker
    <2>11. PlanInv'
      BY <1>1, <1>2, <2>2, <2>3, DropsPlan
    <2>12. ClosedInv'
      BY <1>1 DEF IInv, ClosedInv, Closed
    <2> QED
      BY <2>5, <2>6, <2>8, <2>9, <2>11, <2>12 DEF IInv
  <1> QED
    BY <1>3, <1>4, <1>5

LEMMA NewEntryFacts ==
  /\ NewEntry \in EntrySet /\ NewEntry.phase = "requesting" /\ NewEntry.released = FALSE
  /\ "awaiting_grounding" \in Stored
  <1>1. NoEntry \in EntrySet /\ NoEntry.released = FALSE
    BY DEF NoEntry, EntrySet, Phase
  <1>2. NewEntry = [NoEntry EXCEPT !.phase = "requesting"]
    BY DEF NewEntry
  <1>3. NewEntry \in EntrySet /\ NewEntry.phase = "requesting" /\ NewEntry.released = FALSE
    BY <1>1, <1>2 DEF EntrySet, Phase
  <1> QED
    BY <1>3 DEF Stored, Open

\* begin: the request before is out of use, its thread has ended.
LEMMA BeginKeeps == ASSUME IInv, Begin PROVE IInv'
  <1>1. /\ UNCHANGED <<late, worker, job, closer>> /\ Goto("assess")
        /\ plan.at = "verify" /\ worker.at = "none" /\ closer = "no"
        /\ plan.by[plan.step] = "nobody" /\ NextKey \in Key
    BY AtStep DEF Begin, Main
  <1>2. /\ plan' \in PlanSet /\ plan'.step = plan.step /\ plan'.at = "assess" /\ plan'.by = plan.by
        /\ plan.step \in Step /\ plan.step \in Nat /\ active \in Key \cup {0} /\ active \in Nat
    <2>1. plan.step \in Step /\ active \in Key \cup {0}
      BY DEF IInv, TypeOK
    <2>2. plan.step \in Nat /\ active \in Nat
      BY <2>1, StepAssumption DEF Key, Step
    <2>3. /\ plan' \in PlanSet /\ plan'.step = plan.step /\ plan'.at = "assess"
          /\ plan'.by = plan.by
      BY <1>1, GotoPlan
    <2> QED
      BY <2>1, <2>2, <2>3
  <1>3. CASE UNCHANGED <<thread, active>>
    <2>1. Drops
      <3>1. CASE entry[NextKey].phase = "none" /\ MayRequest
        <4>1. NextKey = active
          BY <1>3, <3>1 DEF Begin, Request
        <4> QED
          BY <1>1, <3>1, <4>1, Numbers DEF IInv, ActiveInv
      <3>2. CASE ~(entry[NextKey].phase = "none" /\ MayRequest)
        BY <3>2, StaysDrops, DiscardDrops DEF IInv, Begin
      <3> QED
        BY <3>1, <3>2
    <2> QED
      BY <1>1, <1>2, <1>3, <2>1, PlanMoves DEF IInv, TypeOK, Closed
  <1>4. CASE ~UNCHANGED <<thread, active>>
    <2> DEFINE k == NextKey
    <2>1. Request(k) /\ MayRequest /\ entry[k].phase = "none" /\ k \in Key
      BY <1>1, <1>4 DEF Begin
    <2>2. /\ active' = k /\ thread' = [thread EXCEPT ![k] = "start"]
          /\ entry' = [Discarded(active) EXCEPT ![k] = NewEntry]
          /\ store' = [StoreWithout(active) EXCEPT ![k] = "awaiting_grounding"]
          /\ k = plan.step + 1
      BY <2>1 DEF Request, NextKey
    <2> HIDE DEF k
    <2>3. active < k /\ active # k
      <3>1. active <= k
        BY <1>2, <2>2 DEF IInv, ActiveInv
      <3>2. active # k
        BY <2>1, Numbers DEF IInv, ActiveInv
      <3> QED
        BY <1>2, <2>2, <3>1, <3>2
    <2>4. \A j \in Key : Done(j)
      BY <1>2, <2>1, Numbers DEF MayRequest, IInv, ActiveInv
    <2>5. PICK e, s : IsDiscard(e, s) /\ DropsTo(e, s)
                      /\ \A j \in Key : e[j].phase \notin LivePhase
      BY DiscardedDrops DEF IsDiscard
    <2>6. /\ NewEntry \in EntrySet /\ NewEntry.phase = "requesting" /\ NewEntry.released = FALSE
          /\ "awaiting_grounding" \in Stored
      BY NewEntryFacts
    <2>7. /\ entry' \in [Key -> EntrySet] /\ store' \in [Key -> Stored]
          /\ entry'[k] = NewEntry /\ store'[k] = "awaiting_grounding" /\ thread'[k] = "start"
          /\ \A j \in Key \ {k} :
               /\ \/ entry'[j] = entry[j] /\ store'[j] = store[j]
                  \/ /\ entry[j].phase \in LivePhase
                     /\ entry'[j].phase = "discarded" /\ entry'[j].released = FALSE
                     /\ store'[j] \in {"cancelled", "expired"}
               /\ entry'[j].phase \notin LivePhase /\ thread'[j] = thread[j]
      <3>1. /\ entry' = [e EXCEPT ![k] = NewEntry]
            /\ store' = [s EXCEPT ![k] = "awaiting_grounding"]
            /\ thread' = [thread EXCEPT ![k] = "start"]
        BY <2>2, <2>5 DEF IsDiscard
      <3>2. /\ e \in [Key -> EntrySet] /\ s \in [Key -> Stored]
            /\ thread \in [Key -> {"none", "start", "http", "answered", "failed", "end", "done"}]
        BY <2>5 DEF DropsTo, IInv, TypeOK
      <3>3. /\ entry' \in [Key -> EntrySet] /\ store' \in [Key -> Stored]
            /\ entry'[k] = NewEntry /\ store'[k] = "awaiting_grounding" /\ thread'[k] = "start"
        BY <2>1, <2>6, <3>1, <3>2
      <3>4. \A j \in Key \ {k} : entry'[j] = e[j] /\ store'[j] = s[j] /\ thread'[j] = thread[j]
        BY <2>1, <3>1, <3>2
      <3> QED
        BY <2>5, <3>3, <3>4 DEF DropsTo
    <2>8. TypeOK'
      BY <1>1, <1>2, <2>1, <2>2, <2>7 DEF IInv, TypeOK, EntrySet, PlanSet
    <2>9. EntryInv'
      <3> SUFFICES ASSUME NEW j \in Key PROVE KeyInv(j)'
        BY DEF EntryInv
      <3>1. CASE j = k
        BY <2>6, <2>7, <3>1 DEF KeyInv
      <3>2. CASE j # k
        <4>1. KeyInv(j) /\ thread[j] \in {"none", "done"}
          BY <2>4 DEF IInv, EntryInv, Done
        <4> QED
          BY <1>2, <2>7, <3>2, <4>1 DEF KeyInv, LivePhase
      <3> QED
        BY <3>1, <3>2
    <2>10. ActiveInv'
      <3>1. \A j \in Key : ~Done(j)' \/ entry'[j].phase \in LivePhase => j = k
        BY <2>4, <2>7 DEF Done
      <3>2. \A j \in Key : entry'[j].phase # "none" => j <= k
        <4> SUFFICES ASSUME NEW j \in Key, entry'[j].phase # "none", j # k PROVE j <= k
          BY <1>2, <2>2
        <4>1. entry[j].phase # "none"
          BY <2>7 DEF LivePhase
        <4>2. j <= active /\ j \in Nat
          BY <4>1, Numbers DEF IInv, ActiveInv
        <4> QED
          BY <1>2, <2>2, <2>3, <4>2
      <3> QED
        BY <1>1, <1>2, <2>2, <2>6, <2>7, <3>1, <3>2 DEF ActiveInv
    <2>11. WorkerInv'
      BY <1>1, <2>6, <2>7 DEF IInv, WorkerInv, LivePhase, Open
    <2>12. PlanInv'
      BY <1>1, <1>2, <2>6, <2>7 DEF IInv, PlanInv
    <2>13. ClosedInv'
      BY <1>1 DEF ClosedInv, Closed
    <2> QED
      BY <2>8, <2>9, <2>10, <2>11, <2>12, <2>13 DEF IInv
  <1> QED
    BY <1>3, <1>4

-----------------------------------------------------------------------------
(* The threads of the requests, and the clock.                              *)

\* The thread of one request, the latest, takes a step of its own.
LEMMA TurnKeeps ==
  ASSUME IInv, NEW k \in Key, ~Done(k), UNCHANGED <<plan, late, active, worker, job, closer>>,
         entry' \in [Key -> EntrySet], store' \in [Key -> Stored],
         thread' \in [Key -> {"none", "start", "http", "answered", "failed", "end", "done"}],
         \A j \in Key \ {k} : entry'[j] = entry[j] /\ store'[j] = store[j] /\ thread'[j] = thread[j],
         KeyInv(k)', entry'[k].released = entry[k].released,
         entry'[k].phase \notin {"none", "consumed"},
         entry[k].phase = "discarded" => entry'[k].phase = "discarded"
  PROVE  IInv'
  <1>1. TypeOK'
    BY DEF IInv, TypeOK, EntrySet
  <1>2. EntryInv'
    BY DEF IInv, EntryInv, KeyInv
  <1>3. k = active /\ entry[k].phase # "none" /\ entry[k].phase # "consumed"
    BY DEF IInv, ActiveInv, EntryInv, KeyInv, Done
  <1>4. \A j \in Key : Done(j) => Done(j)' \/ j = k
    BY DEF Done
  <1>5. \A j \in Key \ {k} : Done(j)
    BY <1>3 DEF IInv, ActiveInv
  <1>6. ActiveInv'
    BY <1>3, <1>4, <1>5 DEF IInv, ActiveInv
  <1>7. WorkerInv'
    BY <1>3, <1>4, Numbers DEF IInv, WorkerInv, TypeOK
  <1>8. PlanInv'
    BY DEF IInv, PlanInv
  <1>9. entry[k].phase \in LivePhase \cup {"discarded"}
    BY <1>3 DEF IInv, TypeOK, Phase, Over, LivePhase
  <1>10. ClosedInv'
    BY <1>9 DEF IInv, ClosedInv, Closed, LivePhase
  <1> QED
    BY <1>1, <1>2, <1>6, <1>7, <1>8, <1>10 DEF IInv

LEMMA InvokeKeeps ==
  ASSUME IInv, NEW k \in Key, Invoke(k) \/ ProviderAnswers(k)
  PROVE  IInv'
  <1>1. /\ UNCHANGED <<plan, late, active, worker, job, closer>>
        /\ thread[k] \in {"start", "http", "answered", "failed", "end"} /\ ~Done(k)
    BY DEF Invoke, InvokeBegins, InvokeResolves, InvokeFails, InvokeEnds, ProviderAnswers, Done
  <1>2. /\ entry \in [Key -> EntrySet] /\ store \in [Key -> Stored]
        /\ thread \in [Key -> {"none", "start", "http", "answered", "failed", "end", "done"}]
        /\ KeyInv(k) /\ entry[k] \in EntrySet
        /\ entry[k].phase \in {"requesting", "ready", "failed", "discarded"}
    BY <1>1 DEF IInv, TypeOK, EntrySet, EntryInv, KeyInv, Phase, Over
  <1>3. CASE InvokeBegins(k)
    <2>1. CASE Stopped(k)
      <3>1. thread' = [thread EXCEPT ![k] = "end"] /\ UNCHANGED <<entry, store>>
        BY <1>3, <2>1 DEF InvokeBegins, Become
      <3> QED
        BY <1>1, <1>2, <2>1, <3>1, TurnKeeps DEF KeyInv, Stopped
    <2>2. CASE ~Stopped(k)
      <3>1. PICK p \in {"failed", "http"} : thread' = [thread EXCEPT ![k] = p]
        BY <1>3, <2>2 DEF InvokeBegins, Become
      <3>2. entry' = [entry EXCEPT ![k].attempts = 1] /\ UNCHANGED store /\ thread[k] = "start"
        BY <1>3, <2>2 DEF InvokeBegins
      <3>3. /\ entry' \in [Key -> EntrySet] /\ entry'[k].attempts = 1
            /\ entry'[k].phase = entry[k].phase /\ entry'[k].released = entry[k].released
            /\ \A j \in Key \ {k} : entry'[j] = entry[j]
        BY <1>2, <3>2 DEF EntrySet
      <3>4. entry[k].phase = "requesting"
        BY <1>2, <2>2, <3>2 DEF KeyInv, Stopped
      <3> QED
        BY <1>1, <1>2, <3>1, <3>2, <3>3, <3>4, TurnKeeps DEF KeyInv
    <2> QED
      BY <2>1, <2>2
  <1>4. CASE ProviderAnswers(k)
    <2>1. PICK p \in {"answered", "failed"} : thread' = [thread EXCEPT ![k] = p]
      BY <1>4 DEF ProviderAnswers, Become
    <2>2. UNCHANGED <<entry, store>> /\ thread[k] = "http"
      BY <1>4 DEF ProviderAnswers
    <2> QED
      BY <1>1, <1>2, <2>1, <2>2, TurnKeeps DEF KeyInv
  <1>5. CASE InvokeResolves(k)
    <2>1. thread[k] = "answered" /\ entry[k].phase \in {"requesting", "discarded"}
      BY <1>2, <1>5 DEF InvokeResolves, KeyInv
    <2>2. CASE Stopped(k)
      <3>1. thread' = [thread EXCEPT ![k] = "end"] /\ UNCHANGED <<entry, store>>
        BY <1>5, <2>2 DEF InvokeResolves, Become
      <3> QED
        BY <1>1, <1>2, <2>2, <3>1, TurnKeeps DEF KeyInv, Stopped
    <2>3. CASE ~Stopped(k) /\ thread' = [thread EXCEPT ![k] = "failed"]
      <3>1. UNCHANGED entry /\ store' \in {store, [store EXCEPT ![k] = "absent"]}
        BY <1>1, <1>5, <2>3, <1>2 DEF InvokeResolves, Become
      <3>2. /\ store' \in [Key -> Stored] /\ store'[k] \in {store[k], "absent"}
            /\ \A j \in Key \ {k} : store'[j] = store[j]
        BY <1>2, <3>1 DEF Stored
      <3> QED
        BY <1>1, <1>2, <2>1, <2>3, <3>1, <3>2, TurnKeeps DEF KeyInv, Stopped
    <2>4. CASE ~Stopped(k) /\ thread' # [thread EXCEPT ![k] = "failed"]
      <3>1. /\ store' = [store EXCEPT ![k] = "grounding_ready"]
            /\ entry' = [entry EXCEPT ![k].phase = "ready"]
            /\ thread' = [thread EXCEPT ![k] = "end"]
        BY <1>5, <2>4 DEF InvokeResolves, Become
      <3>2. /\ entry' \in [Key -> EntrySet] /\ entry'[k].phase = "ready"
            /\ entry'[k].attempts = entry[k].attempts /\ entry'[k].released = entry[k].released
            /\ \A j \in Key \ {k} : entry'[j] = entry[j]
        BY <1>2, <3>1 DEF EntrySet, Phase
      <3>3. store' \in [Key -> Stored] /\ store'[k] = "grounding_ready"
        BY <1>2, <3>1 DEF Stored, Open
      <3> QED
        BY <1>1, <1>2, <2>1, <2>4, <3>1, <3>2, <3>3, TurnKeeps DEF KeyInv, Stopped
    <2> QED
      BY <2>2, <2>3, <2>4
  <1>6. CASE InvokeFails(k)
    <2>1. /\ thread[k] = "failed" /\ entry[k].phase \in {"requesting", "discarded"}
          /\ thread' = [thread EXCEPT ![k] = "end"]
          /\ store' = [store EXCEPT ![k] = Withdrawn(k)]
      BY <1>2, <1>6 DEF InvokeFails, KeyInv, Become
    <2>2. entry' = [entry EXCEPT ![k].error = TRUE, ![k].phase = IF Stopped(k) THEN @ ELSE "failed"]
      BY <1>6 DEF InvokeFails
    <2>3. Withdrawn(k) \in {"cancelled", "expired"}
      BY <1>2, <2>1 DEF Withdrawn, KeyInv
    <2>4. /\ entry' \in [Key -> EntrySet]
          /\ entry'[k].phase = IF Stopped(k) THEN entry[k].phase ELSE "failed"
          /\ entry'[k].attempts = entry[k].attempts /\ entry'[k].released = entry[k].released
          /\ \A j \in Key \ {k} : entry'[j] = entry[j]
      BY <1>2, <2>2 DEF EntrySet, Phase, Stopped
    <2>5. /\ store' \in [Key -> Stored] /\ store'[k] \in {"cancelled", "expired"}
          /\ \A j \in Key \ {k} : store'[j] = store[j]
      BY <1>2, <2>1, <2>3 DEF Stored, Open
    <2> QED
      BY <1>1, <1>2, <2>1, <2>4, <2>5, TurnKeeps DEF KeyInv, Stopped
  <1>7. CASE InvokeEnds(k)
    <2>1. thread[k] = "end" /\ thread' = [thread EXCEPT ![k] = "done"] /\ UNCHANGED <<entry, store>>
      BY <1>7 DEF InvokeEnds, Become
    <2> QED
      BY <1>1, <1>2, <2>1, TurnKeeps DEF KeyInv
  <1> QED
    BY <1>3, <1>4, <1>5, <1>6, <1>7 DEF Invoke

LEMMA OverdueKeeps == ASSUME IInv, NEW k \in Key, Overdue(k) PROVE IInv'
  <1>1. UNCHANGED <<plan, entry, thread, active, store, worker, job, closer>> /\ late' \subseteq Key
    BY DEF Overdue, IInv, TypeOK
  <1>2. Drops
    BY <1>1, StaysDrops DEF IInv
  <1> QED
    BY <1>1, <1>2, PlanMoves DEF IInv, TypeOK, PlanSet, PlanInv, Closed

LEMMA ExpireKeeps == ASSUME IInv, NEW k \in Key, Expire(k) PROVE IInv'
  <1>1. /\ UNCHANGED <<plan, entry, late, thread, active, worker, job, closer>>
        /\ store[k] \in Open /\ store' = [store EXCEPT ![k] = "expired"]
    BY DEF Expire
  <1>2. /\ store' \in [Key -> Stored] /\ store'[k] = "expired"
        /\ \A j \in Key \ {k} : store'[j] = store[j]
    BY <1>1 DEF IInv, TypeOK, Stored
  <1>3. TypeOK' /\ ActiveInv' /\ PlanInv' /\ ClosedInv'
    BY <1>1, <1>2 DEF IInv, TypeOK, ActiveInv, PlanInv, ClosedInv, Done, Closed
  <1>4. EntryInv'
    BY <1>1, <1>2 DEF IInv, EntryInv, KeyInv, Open
  <1>5. WorkerInv'
    BY <1>1, <1>2 DEF IInv, WorkerInv, Done, Open
  <1> QED
    BY <1>3, <1>4, <1>5 DEF IInv
-----------------------------------------------------------------------------
(* The command's thread.                                                    *)

LEMMA WorkTo ==
  ASSUME IInv, NEW p \in PC, Work(p)
  PROVE  worker' \in WorkerSet /\ worker'.at = p /\ worker'.entry = worker.entry
  BY DEF IInv, TypeOK, WorkerSet, Work

LEMMA CheckKeeps == ASSUME IInv, Check PROVE IInv'
  <1>1. /\ UNCHANGED <<plan, entry, late, thread, active, store, job, closer>>
        /\ worker.at = "check"
    BY DEF Check
  <1>2. worker' \in WorkerSet /\ worker'.at = "branch" /\ worker'.entry = active
    <2>1. active \in Key \cup {0} /\ {} \subseteq Key /\ {k \in Key : ~Done(k)} \subseteq Key
      BY DEF IInv, TypeOK
    <2>2. "branch" \in PC
      BY DEF PC
    <2>3. PICK W \in SUBSET Key : worker' = [at |-> "branch", entry |-> active, wait |-> W]
      BY <2>1 DEF Check
    <2> QED
      BY <2>1, <2>2, <2>3 DEF WorkerSet
  <1>3. Drops
    BY <1>1, StaysDrops DEF IInv
  <1> QED
    BY <1>1, <1>2, <1>3, WorkMoves

\* The thread goes on to p, and has no hold of a request that p would need.
LEMMA WorkKeeps ==
  ASSUME IInv, Drops, UNCHANGED <<plan, late, thread, active, job, closer>>,
         worker.at \notin {"none", "check", "claim"},
         NEW p \in PC \ {"none", "claim", "check"}, Work(p),
         p \in {"current", "wait", "take"} => worker.entry # 0,
         p \in {"wait", "take"} =>
           entry[worker.entry].released \/ entry[worker.entry].phase = "discarded",
         p = "take" => Done(worker.entry)
  PROVE  IInv'
  <1>1. worker' \in WorkerSet /\ worker'.at = p /\ worker'.entry = worker.entry
    BY WorkTo
  <1>2. worker.entry = active
    BY DEF IInv, WorkerInv
  <1> QED
    BY <1>1, <1>2, WorkMoves

LEMMA AskKeeps ==
  ASSUME IInv, Branch \/ StaleSettled \/ StaleUnsettled \/ CurrentRaises \/ TakeDiscarded
  PROVE  IInv'
  <1>1. /\ UNCHANGED <<plan, entry, late, thread, active, store, job, closer>>
        /\ worker.at \in {"branch", "stale", "current", "take"}
    BY DEF Branch, StaleSettled, StaleUnsettled, CurrentRaises, TakeDiscarded
  <1>2. PICK p \in {"current", "stale", "failed", "fresh"} :
          Work(p) /\ (p = "current" => worker.entry # 0)
    BY DEF Branch, StaleSettled, StaleUnsettled, CurrentRaises, TakeDiscarded, Live
  <1>3. Drops /\ p \in PC \ {"none", "claim", "check"}
    BY <1>1, StaysDrops DEF IInv, PC
  <1> QED
    BY <1>1, <1>2, <1>3, WorkKeeps

LEMMA OwnRequestKeeps == ASSUME IInv, Fresh \/ FreshAnswered \/ Execute PROVE IInv'
  <1>1. /\ UNCHANGED <<plan, entry, late, thread, active, store, job, closer>>
        /\ worker.at \in {"fresh", "http", "input"}
    BY DEF Fresh, FreshAnswered, Execute
  <1>2. PICK p \in {"failed", "http", "input", "done"} : Work(p)
    BY DEF Fresh, FreshAnswered, Execute
  <1>3. Drops /\ p \in PC \ {"none", "claim", "check"}
    BY <1>1, StaysDrops DEF IInv, PC
  <1> QED
    BY <1>1, <1>2, <1>3, WorkKeeps

LEMMA CurrentKeeps == ASSUME IInv, Current PROVE IInv'
  <1>1. UNCHANGED <<plan, late, thread, active, job, closer>> /\ worker.at = "current"
    BY DEF Current
  <1>2. worker.entry = active /\ worker.entry # 0
    BY <1>1 DEF IInv, WorkerInv
  <1>3. PICK p \in {"wait", "failed"} :
          Work(p) /\ (p = "wait" => entry[worker.entry].released)
    BY DEF Current
  <1>4. Drops
    BY <1>2, StaysDrops, DiscardDrops DEF IInv, Current
  <1>5. p \in PC \ {"none", "claim", "check"}
    BY DEF PC
  <1> QED
    BY <1>1, <1>2, <1>3, <1>4, <1>5, WorkKeeps

LEMMA WaitKeeps == ASSUME IInv, WaitEnds \/ WaitOverdue PROVE IInv'
  <1>1. UNCHANGED <<plan, late, thread, active, job, closer>> /\ worker.at = "wait"
    BY DEF WaitEnds, WaitOverdue
  <1>2. /\ worker.entry # 0
        /\ entry[worker.entry].released \/ entry[worker.entry].phase = "discarded"
    BY <1>1 DEF IInv, WorkerInv
  <1>3. PICK p \in {"take", "failed"} : Work(p) /\ (p = "take" => Done(worker.entry))
    BY DEF WaitEnds, WaitOverdue
  <1>4. Drops
    BY StaysDrops, DiscardDrops DEF IInv, WaitEnds, WaitOverdue
  <1>5. p \in PC \ {"none", "claim", "check"}
    BY DEF PC
  <1> QED
    BY <1>1, <1>2, <1>3, <1>4, <1>5, WorkKeeps

\* The request is used up by the one command that claims it next.
LEMMA TakeKeeps == ASSUME IInv, Take PROVE IInv'
  <1> DEFINE k == worker.entry
  <1>1. /\ UNCHANGED <<plan, late, thread, active, job, closer>> /\ worker.at = "take"
        /\ ~Stopped(k)
    BY DEF Take
  <1>2. k = active /\ k \in Key /\ entry[k].released /\ Done(k)
    BY <1>1 DEF IInv, WorkerInv, TypeOK, Stopped
  <1>3. CASE Work("failed")
    <2>1. Drops
      <3>1. Work("claim") => FALSE
        BY <1>3 DEF IInv, TypeOK, Work
      <3> QED
        BY <1>2, <3>1, StaysDrops, DiscardDrops DEF IInv, Take
    <2>2. "failed" \in PC \ {"none", "claim", "check"}
      BY DEF PC
    <2> QED
      BY <1>1, <1>3, <2>1, <2>2, WorkKeeps
  <1>4. CASE ~Work("failed")
    <2>1. /\ entry' = [entry EXCEPT ![k].phase = "consumed"] /\ Work("claim") /\ UNCHANGED store
          /\ ~Obsolete(k) /\ store[k] = "grounding_ready"
      BY <1>4 DEF Take
    <2>2. worker' \in WorkerSet /\ worker'.at = "claim" /\ worker'.entry = k
      BY <2>1, WorkTo DEF PC
    <2>3. /\ entry' \in [Key -> EntrySet] /\ entry'[k].phase = "consumed"
          /\ entry'[k].released = entry[k].released /\ entry'[k].attempts = entry[k].attempts
          /\ \A j \in Key \ {k} : entry'[j] = entry[j]
      BY <1>2, <2>1 DEF IInv, TypeOK, EntrySet, Phase, Over
    <2>4. k = plan.step /\ closer = "no" /\ plan.step \in Nat
      BY <2>1, Numbers DEF Obsolete, IInv, TypeOK
    <2>5. entry[k].phase = "ready" /\ thread[k] = "done" /\ entry[k].attempts = 1
      BY <1>1, <1>2, <2>1, Numbers
         DEF IInv, EntryInv, KeyInv, TypeOK, Phase, Over, WorkerInv, Stopped, Done, Open
    <2> HIDE DEF k
    <2>6. TypeOK'
      BY <1>1, <2>1, <2>2, <2>3 DEF IInv, TypeOK, EntrySet, WorkerSet
    <2>7. EntryInv'
      <3> SUFFICES ASSUME NEW j \in Key PROVE KeyInv(j)'
        BY DEF EntryInv
      <3>1. KeyInv(j)
        BY DEF IInv, EntryInv
      <3>2. CASE j = k
        BY <1>1, <1>2, <2>1, <2>3, <2>4, <2>5, <3>2 DEF KeyInv
      <3>3. CASE j # k
        BY <1>1, <2>1, <2>3, <3>1, <3>3 DEF KeyInv
      <3> QED
        BY <3>2, <3>3
    <2>8. ActiveInv'
      <3>1. active' = active /\ thread' = thread /\ plan' = plan /\ active # 0
        BY <1>1, <1>2, Numbers DEF Key
      <3>2. \A j \in Key : Done(j)' <=> Done(j)
        BY <3>1 DEF Done
      <3>3. \A j \in Key : /\ entry'[j].phase \in LivePhase => entry[j].phase \in LivePhase
                           /\ entry'[j].phase = "none" <=> entry[j].phase = "none"
        BY <2>3, <2>5 DEF LivePhase
      <3> QED
        BY <1>1, <1>2, <3>1, <3>2, <3>3 DEF IInv, ActiveInv
    <2>9. WorkerInv'
      <3>1. \A j \in Key : entry'[j].phase = "consumed" /\ store'[j] \in Open => j = k
        BY <1>1, <2>1, <2>3 DEF IInv, WorkerInv
      <3> QED
        BY <1>1, <1>2, <2>2, <2>3, <3>1, Numbers DEF WorkerInv, Key
    <2>10. PlanInv'
      BY <1>1, <1>2, <2>2, <2>3 DEF IInv, PlanInv
    <2>11. ClosedInv'
      BY <1>1, <2>4 DEF ClosedInv, Closed
    <2> QED
      BY <2>6, <2>7, <2>8, <2>9, <2>10, <2>11 DEF IInv
  <1> QED
    BY <1>3, <1>4

\* The claim changes the answer's record, and only that of the request taken.
LEMMA ClaimKeeps == ASSUME IInv, Claim PROVE IInv'
  <1> DEFINE k == worker.entry
  <1>1. UNCHANGED <<plan, entry, late, thread, active, job, closer>> /\ worker.at = "claim"
    BY DEF Claim
  <1>2. k = active /\ k \in Key /\ entry[k].phase = "consumed"
    BY <1>1 DEF IInv, WorkerInv, TypeOK
  <1>3. store[k] \in {"grounding_ready", "executing", "cancelled", "expired"} /\ KeyInv(k)
    BY <1>2 DEF IInv, EntryInv, KeyInv
  <1>4. PICK v \in {"executing", "cancelled", "expired"}, p \in {"failed", "input"} :
          store' = [store EXCEPT ![k] = v] /\ Work(p)
    <2>1. CASE job.cancelled
      BY <1>3, <2>1 DEF Claim, Withdrawn
    <2>2. CASE ~job.cancelled /\ store[k] # "grounding_ready"
      <3>1. UNCHANGED store /\ Work("failed")
        BY <2>2 DEF Claim
      <3>2. store' = [store EXCEPT ![k] = store[k]]
        BY <1>2, <3>1 DEF IInv, TypeOK
      <3> QED
        BY <1>3, <2>2, <3>1, <3>2
    <2>3. CASE ~job.cancelled /\ store[k] = "grounding_ready"
      BY <2>3 DEF Claim
    <2> QED
      BY <2>1, <2>2, <2>3
  <1>5. worker' \in WorkerSet /\ worker'.at = p /\ worker'.entry = k
    BY <1>4, WorkTo DEF PC
  <1> HIDE DEF k
  <1>6. /\ store' \in [Key -> Stored] /\ store'[k] = v
        /\ \A j \in Key \ {k} : store'[j] = store[j]
    BY <1>2, <1>4 DEF IInv, TypeOK, Stored
  <1>7. TypeOK'
    BY <1>1, <1>5, <1>6 DEF IInv, TypeOK, WorkerSet
  <1>8. EntryInv'
    <2> SUFFICES ASSUME NEW j \in Key PROVE KeyInv(j)'
      BY DEF EntryInv
    <2>1. KeyInv(j)
      BY DEF IInv, EntryInv
    <2>2. CASE j = k
      BY <1>1, <1>2, <1>6, <2>1, <2>2 DEF KeyInv
    <2>3. CASE j # k
      BY <1>1, <1>6, <2>1, <2>3 DEF KeyInv
    <2> QED
      BY <2>2, <2>3
  <1>9. ActiveInv'
    BY <1>1, <1>5 DEF IInv, ActiveInv, Done
  <1>10. WorkerInv'
    <2>1. \A j \in Key : entry[j].phase = "consumed" /\ store[j] \in Open => j = k
      BY <1>1 DEF IInv, WorkerInv, k
    <2>2. v \notin Open
      BY DEF Open
    <2> QED
      BY <1>1, <1>2, <1>5, <1>6, <2>1, <2>2 DEF WorkerInv
  <1>11. PlanInv'
    BY <1>1, <1>5 DEF IInv, PlanInv
  <1>12. ClosedInv'
    BY <1>1 DEF IInv, ClosedInv, Closed
  <1> QED
    BY <1>7, <1>8, <1>9, <1>10, <1>11, <1>12 DEF IInv

-----------------------------------------------------------------------------
LEMMA InitInv == Init => IInv
  <1> SUFFICES ASSUME Init PROVE IInv
    OBVIOUS
  <1>1. /\ 1 \in Step /\ "none" \in Phase /\ "none" \in Stored /\ "none" \in PC /\ "nobody" \in SettledBy
    BY StepAssumption DEF Step, Phase, Stored, PC, SettledBy
  <1>2. NoEntry \in EntrySet /\ NoEntry.phase = "none" /\ NoEntry.released = FALSE
    BY DEF NoEntry, EntrySet, Phase
  <1>3. NoWorker \in WorkerSet /\ NoWorker.at = "none"
    BY DEF NoWorker, WorkerSet, PC
  <1>4. TypeOK
    BY <1>1, <1>2, <1>3 DEF Init, TypeOK, EntrySet, WorkerSet
  <1>5. EntryInv
    BY <1>2 DEF Init, EntryInv, KeyInv
  <1>6. ActiveInv
    BY <1>2, <1>3, Numbers DEF Init, ActiveInv, Done, LivePhase
  <1>7. WorkerInv
    BY <1>2, <1>3 DEF Init, WorkerInv
  <1>8. PlanInv
    <2>1. \A s \in Step : plan.by[s] = "nobody"
      BY DEF Init
    <2> QED
      BY <1>1, <1>2, <1>3, <2>1 DEF Init, PlanInv
  <1>9. ClosedInv
    BY DEF Init, ClosedInv, Closed
  <1> QED
    BY <1>4, <1>5, <1>6, <1>7, <1>8, <1>9 DEF IInv

LEMMA StutterKeeps == ASSUME IInv, UNCHANGED vars PROVE IInv'
  <1>1. /\ UNCHANGED <<plan, entry, late, thread, active, store, worker, job, closer>>
    BY DEF vars
  <1> QED
    BY <1>1 DEF IInv, TypeOK, EntryInv, KeyInv, ActiveInv, WorkerInv, PlanInv, ClosedInv, Done,
      Closed

LEMMA NextKeeps == IInv /\ [Next]_vars => IInv'
  <1> SUFFICES ASSUME IInv, [Next]_vars PROVE IInv'
    OBVIOUS
  <1>1. CASE Verification
    BY <1>1, BeginKeeps, VerificationKeeps, SettledKeeps, SettleReleasesKeeps, CommandKeeps
       DEF Verification
  <1>2. CASE Outside
    BY <1>2, RefusedControlKeeps, CancelDiscardsKeeps, CancelWritesKeeps, JobKeeps DEF Outside
  <1>3. CASE Closer
    BY <1>3, CloserKeeps
  <1>4. CASE Consume \/ FreshAnswered \/ Execute
    BY <1>4, CheckKeeps, AskKeeps, CurrentKeeps, WaitKeeps, TakeKeeps, ClaimKeeps,
      OwnRequestKeeps
       DEF Consume
  <1>5. CASE \E k \in Key : Invoke(k) \/ ProviderAnswers(k) \/ Clock(k)
    BY <1>5, InvokeKeeps, OverdueKeeps, ExpireKeeps DEF Clock
  <1>6. CASE UNCHANGED vars
    BY <1>6, StutterKeeps
  <1> QED
    BY <1>1, <1>2, <1>3, <1>4, <1>5, <1>6 DEF Next

\* Every reachable state satisfies the invariant: what the phase of a request
\* says of its thread and of its record, that the latest request alone is
\* wanted or running, and what the command's thread holds between its locks.
THEOREM Invariance == Spec => []IInv
  BY InitInv, NextKeeps, PTL DEF Spec

-----------------------------------------------------------------------------
(* What follows of it.                                                      *)

\* One request is with the provider at a time: begin asks for the next only
\* when the thread of the last has ended.
LEMMA OneInFlight == IInv => OnePrefetchInFlight
  <1> SUFFICES ASSUME IInv PROVE Cardinality(InFlight) <= 1
    BY DEF OnePrefetchInFlight
  <1>1. InFlight \subseteq {active}
    BY DEF InFlight, IInv, ActiveInv, Done
  <1>2. IsFiniteSet({active}) /\ Cardinality({active}) = 1
    BY FS_Singleton
  <1>3. IsFiniteSet(InFlight) /\ Cardinality(InFlight) <= Cardinality({active})
    BY <1>1, <1>2, FS_Subset
  <1> QED
    BY <1>2, <1>3

\* What is out of use stays so in the store: no late answer makes it ready.
LEMMA ClosedAlike == IInv => DiscardedIsClosed
  BY DEF IInv, EntryInv, KeyInv, DiscardedIsClosed

\* close discards what is wanted; what is still open was taken by a command.
LEMMA NothingOpen == IInv => ClosedLeavesNothingOpen
  <1> SUFFICES ASSUME IInv, Closed, NEW k \in Key, store[k] \in Open
               PROVE  worker.at = "claim" /\ worker.entry = k
    BY DEF ClosedLeavesNothingOpen
  <1>1. entry[k].phase \notin LivePhase /\ entry[k].phase \in Phase /\ KeyInv(k)
    BY DEF IInv, ClosedInv, TypeOK, EntryInv
  <1>2. entry[k].phase \notin {"none", "discarded"}
    BY <1>1 DEF KeyInv, Open
  <1>3. entry[k].phase = "consumed"
    BY <1>1, <1>2 DEF Phase, Over, LivePhase
  <1> QED
    BY <1>3 DEF IInv, WorkerInv

\* For any number of visual steps: one prefetched request at a time is with
\* the provider, and one that was given up, superseded or closed over is out
\* of use for good (TaskGroundingPrefetch.begin, _discard, close).
THEOREM OneRequestCountsHolds == Spec => []OneRequestCounts
  <1>1. IInv => OneRequestCounts
    BY OneInFlight, ClosedAlike, NothingOpen DEF IInv, OneRequestCounts
  <1> QED
    BY <1>1, Invariance, PTL

\* An answer carries input only once consume has used up the request, which
\* settled had released for the step before.
LEMMA Earned == IInv => TicketNeedsSuccess
  <1> SUFFICES ASSUME IInv, NEW k \in Key, store[k] = "executing"
               PROVE  /\ plan.by[k - 1] = "decision" /\ plan.step >= k
                      /\ entry[k].released /\ entry[k].attempts = 1 /\ entry[k].phase = "consumed"
    BY DEF TicketNeedsSuccess
  <1>1. KeyInv(k) /\ entry[k].phase \in Phase /\ plan.step \in Nat /\ k \in Nat
    BY Numbers DEF IInv, EntryInv, TypeOK
  <1>2. entry[k].phase = "consumed"
    BY <1>1 DEF KeyInv, Phase, Over
  <1>3. entry[k].released /\ entry[k].attempts = 1 /\ k <= plan.step
    BY <1>1, <1>2 DEF KeyInv
  <1> QED
    BY <1>1, <1>2, <1>3 DEF IInv, PlanInv

\* A command asks the provider itself at two places only, and at both it has
\* looked at the request it found.
LEMMA FreshOnly ==
  ASSUME IInv, Next, worker.at # "fresh", worker'.at = "fresh"
  PROVE  /\ worker.at \in {"stale", "take"}
         /\ worker.entry = 0 \/ ~Failed(worker.entry)
  <1>1. \A p \in PC : Work(p) => p = "fresh"
    BY WorkTo
  <1>2. \A p \in {"stale", "current", "wait", "take", "claim", "failed", "http", "input", "done"} :
          ~Work(p)
    BY <1>1 DEF PC
  <1>3. worker' # worker
    OBVIOUS
  <1>4. CASE Verification
    <2>1. StartCommand \/ CommandOver
      BY <1>3, <1>4 DEF Verification, Begin, Ineligible, AssessPass, AssessNonpass, Interrupted,
                        SettleReleases, SettleDiscards, ReviewPasses
    <2>2. worker'.at \in {"check", "none"}
      <3>1. worker' \in {NoWorker, [NoWorker EXCEPT !.at = "check"]}
        BY <1>3, <2>1 DEF StartCommand, CommandOver
      <3> QED
        BY <3>1 DEF NoWorker
    <2> QED
      BY <2>2
  <1>5. CASE Outside \/ Closer
    BY <1>3, <1>5 DEF Outside, Closer, RefusedControl, CancelDiscards, CancelWrites,
      CancelCommand,
                      Drift, CloseCommands, ClosePrefetch, CloseReturns
  <1>6. CASE \E k \in Key : Invoke(k) \/ ProviderAnswers(k) \/ Clock(k)
    BY <1>3, <1>6 DEF Invoke, InvokeBegins, InvokeResolves, InvokeFails, InvokeEnds,
                      ProviderAnswers, Clock, Overdue, Expire
  <1>7. CASE FreshAnswered \/ Execute
    BY <1>2, <1>7 DEF FreshAnswered, Execute
  <1>8. CASE Consume
    <2>1. ~Check
      <3> SUFFICES ASSUME Check PROVE FALSE
        OBVIOUS
      <3>1. PICK W : worker' = [at |-> "branch", entry |-> active, wait |-> W]
        BY DEF Check
      <3> QED
        BY <3>1
    <2>2. ~Branch /\ ~StaleUnsettled /\ ~CurrentRaises /\ ~WaitEnds /\ ~WaitOverdue /\ ~Fresh
      BY <1>2 DEF Branch, StaleUnsettled, CurrentRaises, WaitEnds, WaitOverdue, Fresh
    <2>3. ~Current /\ ~Take /\ ~Claim
      BY <1>2 DEF Current, Take, Claim
    <2>4. StaleSettled \/ TakeDiscarded
      BY <1>8, <2>1, <2>2, <2>3 DEF Consume
    <2> QED
      BY <1>2, <2>4 DEF StaleSettled, TakeDiscarded
  <1> QED
    BY <1>4, <1>5, <1>6, <1>7, <1>8 DEF Next

\* The request a command finds is the only one that can be for its step.
LEMMA FailureTold ==
  ASSUME IInv, Next, worker.at # "fresh", worker'.at = "fresh"
  PROVE  ~(entry[plan.step].error /\ entry[plan.step].attempts = 1)
  <1> SUFFICES ASSUME entry[plan.step].error, entry[plan.step].attempts = 1 PROVE FALSE
    OBVIOUS
  <1>1. /\ worker.at \in {"stale", "take"} /\ worker.entry = active
        /\ worker.entry = 0 \/ ~Failed(worker.entry)
    BY FreshOnly DEF IInv, WorkerInv
  <1>2. /\ active <= plan.step /\ plan.step > 1 /\ plan.step \in Key /\ active \in Key \cup {0}
    BY <1>1, Numbers DEF IInv, ActiveInv, TypeOK
  <1>3. entry[plan.step].phase # "none"
    <2>1. NoEntry.error = FALSE
      BY DEF NoEntry
    <2> QED
      BY <1>2, <2>1 DEF IInv, EntryInv, KeyInv
  <1>4. plan.step <= active
    BY <1>2, <1>3 DEF IInv, ActiveInv
  <1>5. active = plan.step /\ active # 0
    BY <1>2, <1>4, StepAssumption DEF Key
  <1> QED
    BY <1>1, <1>5 DEF Failed

\* For any number of visual steps: a step's input is sent on a prefetched
\* answer only after the decision service alone passed the step before and
\* that was recorded, and a command whose request has failed never asks the
\* provider again (settled, consume).
THEOREM AnswersAreEarnedHolds == Spec => AnswersAreEarned
  <1>1. IInv => TicketNeedsSuccess
    BY Earned
  <1>2. IInv /\ [Next]_vars =>
          [(worker.at # "fresh" /\ worker'.at = "fresh")
              => ~(entry[plan.step].error /\ entry[plan.step].attempts = 1)]_vars
    BY FailureTold
  <1> QED
    BY <1>1, <1>2, Invariance, PTL DEF Spec, AnswersAreEarned, FailureIsNotHidden
=============================================================================
