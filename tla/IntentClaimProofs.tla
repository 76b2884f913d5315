-------------------------- MODULE IntentClaimProofs --------------------------
(***************************************************************************)
(* Proofs about IntentClaim, for any set of controllers and any number of  *)
(* deaths and of store calls that raise.                                   *)
(*                                                                         *)
(* The argument: a call may attempt the action only while it stands on a   *)
(* marker that is published once and that nobody else can stand on (the    *)
(* claim itself, the resume, the consume), so there is one such call       *)
(* (OneActive).  How far that call is agrees with the dispatch and pending *)
(* markers (StageOf), so a call that starts after them, or after a death   *)
(* between them, can verify but not send again.  The second half is about  *)
(* the target window: who may release it, and when (WInv).                 *)
(***************************************************************************)
EXTENDS IntentClaim, TLAPS

\* How far a call can be that may still attempt the action.
Attempt == {"execute", "mark", "dispatch", "checkpoint", "verify", "persist"}
Active(k, s) == job[k][s].at \in Attempt /\ job[k][s].road \in {"claim", "resume", "grounded"}

\* What the markers, the two decisions and the receipt say of one another.
MarksInv ==
  /\ store.marks # {} => Has(store, "claim")
  /\ Has(store, "resume") \/ Has(store, "closed") \/ store.decision # "none" => Has(store, "request")
  /\ Has(store, "resume") => store.decision = "approved"
  /\ Has(store, "request") /\ Has(store, "dispatch")
       => Has(store, "resume") /\ ~Has(store, "closed")
  /\ Has(store, "g_closed") \/ Has(store, "g_consume") \/ store.review # "none"
       => Has(store, "g_request")
  /\ Has(store, "g_consume") => ~Has(store, "g_closed") /\ store.review = "approved"
  /\ Has(store, "g_request") => ~Has(store, "request")
  /\ Has(store, "g_request") /\ Has(store, "dispatch") => Has(store, "g_consume")

\* What they say of the input.
InputInv ==
  /\ inputs \in {0, 1}
  /\ inputs = 1 => Has(store, "dispatch")
  /\ Has(store, "pending") => inputs = 1
  /\ store.receipt = "blocked" => ~Has(store, "dispatch")
  /\ store.receipt = "failed" => inputs = 0
  /\ store.receipt = "semantic" => Has(store, "pending")

\* The session's owner takes one of the two roads, once.
SessionInv ==
  /\ \A k \in Controller : session[k] = "ready" =>
       k = Creator /\ ~published[k] /\ ~Has(store, "claim")
  /\ \A k \in Controller : published[k] =>
       k = Creator /\ ~Has(store, "request") /\ job[k]["free"].at = "idle"

\* Where a call can be on its road, and what each road needs.
RoadOf(k, s) ==
  job[k][s].at # "idle" =>
    /\ job[k][s].road = "claim" =>
         /\ k = Creator /\ s = "free" /\ session[k] # "ready"
         /\ Has(store, "claim") /\ ~Has(store, "g_request")
         /\ job[k][s].at \in Attempt \cup {"done", "end"}
    /\ job[k][s].road # "claim" => s = "locked"
    /\ job[k][s].road = "resume" =>
         job[k][s].at \in Attempt \cup {"approved", "done", "end"}
    /\ job[k][s].road \in {"recheck", "g_recheck"} =>
         job[k][s].at \in {"verify", "persist", "done", "end"}
    /\ job[k][s].road = "grounded" =>
         /\ published[k]
         /\ job[k][s].at \in (Attempt \ {"execute"}) \cup
                             {"publish", "review", "release", "preview", "consume", "done"}
    /\ Active(k, s) =>
         /\ job[k][s].road = "claim" => ~Has(store, "request")
         /\ job[k][s].road = "resume" => Has(store, "resume")
         /\ job[k][s].road = "grounded" => Has(store, "g_consume")

\* One call at a time may attempt the action.
OneActive ==
  \A k, l \in Controller, s, t \in Slot : Active(k, s) /\ Active(l, t) => k = l /\ s = t

\* How far the action is, seen from a call.
StageOf(k, s) ==
  /\ job[k][s].at \in {"execute", "mark"} => ~Has(store, "dispatch")
  /\ job[k][s].at = "dispatch" =>
       Has(store, "dispatch") /\ inputs = 0 /\ store.receipt = "none"
  /\ job[k][s].at = "checkpoint" => inputs = 1
  /\ job[k][s].at = "verify" => Has(store, "pending")
  /\ job[k][s].at = "persist" =>
       /\ job[k][s].receipt # "none"
       /\ job[k][s].receipt = "failed" => inputs = 0
       /\ job[k][s].receipt = "semantic" => Has(store, "pending")
       /\ job[k][s].receipt # "semantic" => Active(k, s)

CallsInv == \A k \in Controller, s \in Slot : RoadOf(k, s) /\ StageOf(k, s)

IInv == TypeOK /\ MarksInv /\ InputInv /\ SessionInv /\ CallsInv /\ OneActive
-----------------------------------------------------------------------------
JobType == [at : Place, road : Road, receipt : Receipt]

\* Only the call of one slot moves.
Others(k, s) ==
  /\ job' \in [Controller -> [Slot -> JobType]]
  /\ \A l \in Controller, t \in Slot : l # k \/ t # s => job'[l][t] = job[l][t]

\* The step of one call takes nothing from the others.
Quiet(k, s) ==
  /\ store.marks \subseteq store'.marks
  /\ Has(store, "request")' => Has(store, "request") \/ Active(k, s)
  /\ Has(store, "g_request")' => Has(store, "g_request") \/ job[Creator]["free"].at = "idle"
  /\ Has(store, "dispatch")' => Has(store, "dispatch") \/ Active(k, s)
  /\ inputs' # inputs => Active(k, s)
  /\ store'.receipt # store.receipt => Active(k, s) \/ Has(store, "pending")
  /\ \A l \in Controller : session'[l] = "ready" => session[l] = "ready"
  /\ \A l \in Controller : published[l] => published'[l] \/ (l = k /\ s = "locked")
  /\ Active(k, s)' => Active(k, s) \/ \A l \in Controller, t \in Slot : ~Active(l, t)

LEMMA StartFacts ==
  ASSUME TypeOK, NEW k \in Controller, NEW s \in Slot, NEW at \in Place, NEW road \in Road,
         Start(k, s, at, road)
  PROVE  /\ Others(k, s)
         /\ job'[k][s].at = at /\ job'[k][s].receipt = "none"
         /\ at # "idle" => job'[k][s].road = road
  BY DEF TypeOK, Start, Others, JobType, Idle, Place, Road, Receipt

LEMMA RestFacts ==
  ASSUME TypeOK, NEW k \in Controller, NEW s \in Slot, Rest(k, s)
  PROVE  Others(k, s) /\ job'[k][s].at = "idle" /\ job'[k][s].receipt = "none"
  BY DEF TypeOK, Rest, Others, JobType, Idle, Place, Road, Receipt

LEMMA GoFacts ==
  ASSUME TypeOK, NEW k \in Controller, NEW s \in Slot, NEW at \in Place, Go(k, s, at)
  PROVE  /\ Others(k, s)
         /\ job'[k][s].at = at /\ job'[k][s].receipt = "none"
         /\ at # "idle" => job'[k][s].road = job[k][s].road
<1>1. job[k][s].road \in Road
  BY DEF TypeOK
<1> QED BY <1>1, StartFacts DEF Go

\* A legacy call unwinds, a grounded one is over.
Failed(k, s) ==
  /\ Others(k, s)
  /\ \/ /\ job'[k][s].at = "end" /\ job'[k][s].road = job[k][s].road
        /\ job[k][s].road \notin {"grounded", "g_recheck"}
     \/ job'[k][s].at = "idle"

LEMMA FailFacts ==
  ASSUME TypeOK, NEW k \in Controller, NEW s \in Slot, Go(k, s, Failure(job[k][s].road))
  PROVE  Failed(k, s)
<1>1. /\ Failure(job[k][s].road) \in {"idle", "end"}
      /\ Failure(job[k][s].road) = "end" => job[k][s].road \notin {"grounded", "g_recheck"}
  BY DEF Failure
<1>2. Failure(job[k][s].road) \in Place
  BY <1>1 DEF Place
<1> QED BY <1>1, <1>2, GoFacts DEF Failed

LEMMA StayFacts ==
  ASSUME TypeOK, UNCHANGED job, NEW k \in Controller, NEW s \in Slot
  PROVE  Others(k, s) /\ job'[k][s] = job[k][s]
  BY DEF TypeOK, Others, JobType

StoreType == [marks : SUBSET Mark, decision : Decision, review : Decision,
              owner : Owner, receipt : Receipt]

LEMMA WithFacts ==
  ASSUME TypeOK, NEW m \in SUBSET Mark
  PROVE  /\ With(store, m) \in StoreType
         /\ With(store, m).marks = store.marks \cup m
         /\ With(store, m).decision = store.decision
         /\ With(store, m).review = store.review
         /\ With(store, m).receipt = store.receipt
         /\ With(store, m).owner = store.owner
  BY DEF TypeOK, With, StoreType

LEMMA TypeStep ==
  ASSUME TypeOK, NEW k \in Controller, NEW s \in Slot, Others(k, s), store' \in StoreType,
         expired' \in BOOLEAN, inputs' \in Nat, boot' = boot,
         session' \in [Controller -> {"none", "ready", "consumed"}],
         published' \in [Controller -> BOOLEAN],
         lease' \in [Controller -> {"none", "session", "job", "recovery"}],
         faults' \in 0 .. MaxFault
  PROVE  TypeOK'
  BY DEF TypeOK, Others, JobType, StoreType

LEMMA OthersKeep ==
  ASSUME IInv, NEW k \in Controller, NEW s \in Slot, Others(k, s), Quiet(k, s),
         NEW l \in Controller, NEW t \in Slot, l # k \/ t # s
  PROVE  RoadOf(l, t)' /\ StageOf(l, t)'
<1>1. RoadOf(l, t) /\ StageOf(l, t)
  BY DEF IInv, CallsInv
<1>2. job'[l][t] = job[l][t]
  BY DEF Others
<1>3. Active(k, s) => ~Active(l, t)
  BY DEF IInv, OneActive
<1>4. Active(l, t)' <=> Active(l, t)
  BY <1>2 DEF Active
<1>5. RoadOf(l, t)'
  BY <1>1, <1>2, <1>3, <1>4 DEF RoadOf, Quiet, Has, IInv, TypeOK, Slot, Active
<1>6. StageOf(l, t)'
  BY <1>1, <1>2, <1>3, <1>4 DEF RoadOf, StageOf, Quiet, Has, IInv, TypeOK, InputInv, Active,
    Road, Attempt
<1> QED BY <1>5, <1>6

LEMMA Frame ==
  ASSUME IInv, NEW k \in Controller, NEW s \in Slot, Others(k, s), Quiet(k, s),
         TypeOK', MarksInv', InputInv', SessionInv', RoadOf(k, s)', StageOf(k, s)'
  PROVE  IInv'
<1>1. CallsInv'
  BY OthersKeep DEF CallsInv
<1>2. OneActive'
  BY DEF OneActive, Active, Others, Quiet, IInv
<1> QED BY <1>1, <1>2 DEF IInv

\* What the guards that read the claim's phase take from it.
PhaseOf ==
  /\ Phase(store) = "verification_pending" => Has(store, "pending")
  /\ Phase(store) = "resume_started" => Has(store, "resume") /\ ~Has(store, "closed")

LEMMA PhaseFacts ==
  ASSUME TypeOK
  PROVE  PhaseOf
<1> USE DEF TypeOK, Decision, Receipt, Has, PhaseOf
<1>1. CASE ~Has(store, "claim")
  BY <1>1 DEF Phase
<1>2. CASE Has(store, "claim") /\ Grounded(store)
  <2>1. Phase(store) = ReviewPhase(store)
    BY <1>2 DEF Phase
  <2>2. CASE Has(store, "g_consume")
    BY <2>1, <2>2 DEF ReviewPhase
  <2>3. CASE ~Has(store, "g_consume")
    BY <2>1, <2>3 DEF ReviewPhase
  <2> QED BY <2>2, <2>3
<1>3. CASE Has(store, "claim") /\ ~Grounded(store)
  <2>1. Phase(store) = LegacyPhase(store)
    BY <1>3 DEF Phase
  <2>2. CASE store.receipt # "none" \/ Has(store, "pending") \/ Has(store, "dispatch")
    BY <2>1, <2>2 DEF LegacyPhase
  <2>3. CASE store.receipt = "none" /\ store.marks \cap {"pending", "dispatch"} = {}
    BY <2>1, <2>3 DEF LegacyPhase
  <2> QED BY <2>2, <2>3
<1> QED BY <1>1, <1>2, <1>3

\* A review that was not consumed has no call that may attempt the action.
LEMMA NobodyActive ==
  ASSUME IInv, Has(store, "g_request"), ~Has(store, "g_consume"),
         NEW l \in Controller, NEW t \in Slot
  PROVE  ~Active(l, t)
  BY DEF IInv, CallsInv, RoadOf, MarksInv, Has, Active, Attempt
-----------------------------------------------------------------------------
(* The calls of the store that move one call along its road.                *)

LEMMA ResumeStaleKeeps ==
  ASSUME IInv, NEW k \in Controller, ResumeStale(k)
  PROVE  IInv'
<1>0. /\ TypeOK /\ "locked" \in Slot /\ job[k]["locked"] \in JobType
      /\ RoadOf(k, "locked") /\ StageOf(k, "locked")
  BY DEF IInv, CallsInv, TypeOK, JobType, Slot
<1>1. UNCHANGED <<expired, inputs, local>> /\ job[k]["locked"].at = "approved"
  BY DEF ResumeStale
<1>2. faults' \in 0 .. MaxFault
  <2>1. faults' = faults \/ (faults < MaxFault /\ faults' = faults + 1)
    BY DEF ResumeStale, Step, Raise
  <2> QED BY <1>0, <2>1, ConstantsAssumption DEF TypeOK
<1>3. \/ CanClose(store) /\ store' = With(store, {"closed"}) /\ Go(k, "locked", "end")
      \/ /\ store' = store \/ (CanClose(store) /\ store' = With(store, {"closed"}))
         /\ Go(k, "locked", Failure(job[k]["locked"].road))
  BY DEF ResumeStale, Step, Raise
<1>4. \/ /\ CanClose(store) /\ store' = With(store, {"closed"})
         /\ Others(k, "locked")
         /\ job'[k]["locked"].at = "end" /\ job'[k]["locked"].road = job[k]["locked"].road
      \/ /\ store' = store \/ (CanClose(store) /\ store' = With(store, {"closed"}))
         /\ Failed(k, "locked")
  <2>1. CASE Go(k, "locked", "end") /\ CanClose(store) /\ store' = With(store, {"closed"})
    <3>1. "end" \in Place
      BY DEF Place
    <3> QED BY <1>0, <2>1, <3>1, GoFacts
  <2>2. CASE Go(k, "locked", Failure(job[k]["locked"].road))
    BY <1>0, <1>3, <2>2, FailFacts
  <2> QED BY <1>3, <2>1, <2>2
<1>6. TypeOK'
  <2>1. store' \in StoreType
    BY <1>0, <1>4, WithFacts DEF TypeOK, StoreType, Mark, Legacy, Review
  <2> QED BY <1>0, <1>1, <1>2, <1>4, <2>1, TypeStep DEF TypeOK, local, Failed
<1>7. MarksInv' /\ InputInv'
  <2>1. CASE store' = store
    BY <1>1, <2>1 DEF IInv, MarksInv, InputInv, Has
  <2>2. CASE CanClose(store) /\ store' = With(store, {"closed"})
    BY <1>0, <1>1, <2>2 DEF IInv, MarksInv, InputInv, CanClose, With, Has, RoadOf, StageOf,
      Grounded, Review, Legacy, TypeOK
  <2> QED BY <1>4, <2>1, <2>2
<1>8. SessionInv'
  BY <1>0, <1>1, <1>4 DEF IInv, SessionInv, With, Has, Others, Failed, local, TypeOK, Slot,
    RoadOf, Attempt, JobType, Road, CanClose
<1>9. RoadOf(k, "locked")' /\ StageOf(k, "locked")'
  BY <1>0, <1>1, <1>4 DEF IInv, MarksInv, InputInv, RoadOf, StageOf, Active, With, Has, TypeOK,
    Attempt, local, Failed, CanClose
<1>10. Quiet(k, "locked")
  BY <1>0, <1>1, <1>4 DEF Quiet, With, Has, TypeOK, local, Active, Attempt, RoadOf, Failed,
    CanClose
<1> QED BY <1>0, <1>4, <1>6, <1>7, <1>8, <1>9, <1>10, Frame DEF Failed

LEMMA PublishClaimKeeps ==
  ASSUME IInv, NEW k \in Controller, PublishClaim(k)
  PROVE  IInv'
<1>0. /\ TypeOK /\ "locked" \in Slot /\ job[k]["locked"] \in JobType
      /\ RoadOf(k, "locked") /\ StageOf(k, "locked")
  BY DEF IInv, CallsInv, TypeOK, JobType, Slot
<1>1. UNCHANGED <<expired, inputs, local>> /\ job[k]["locked"].at = "publish"
  BY DEF PublishClaim
<1>2. faults' \in 0 .. MaxFault
  <2>1. faults' = faults \/ (faults < MaxFault /\ faults' = faults + 1)
    BY DEF PublishClaim, Step, Raise
  <2> QED BY <1>0, <2>1, ConstantsAssumption DEF TypeOK
<1>3. \/ ~Has(store, "request") /\ store' = With(store, {"claim"}) /\ Go(k, "locked", "review")
      \/ /\ store' = store \/ (~Has(store, "request") /\ store' = With(store, {"claim"}))
         /\ Go(k, "locked", Failure(job[k]["locked"].road))
  BY DEF PublishClaim, Step, Raise
<1>4. \/ /\ ~Has(store, "request") /\ store' = With(store, {"claim"})
         /\ Others(k, "locked")
         /\ job'[k]["locked"].at = "review" /\ job'[k]["locked"].road = job[k]["locked"].road
      \/ /\ store' = store \/ (~Has(store, "request") /\ store' = With(store, {"claim"}))
         /\ Failed(k, "locked")
  <2>1. CASE Go(k, "locked", "review") /\ ~Has(store, "request") /\ store' = With(store, {"claim"})
    <3>1. "review" \in Place
      BY DEF Place
    <3> QED BY <1>0, <2>1, <3>1, GoFacts
  <2>2. CASE Go(k, "locked", Failure(job[k]["locked"].road))
    BY <1>0, <1>3, <2>2, FailFacts
  <2> QED BY <1>3, <2>1, <2>2
<1>6. TypeOK'
  <2>1. store' \in StoreType
    BY <1>0, <1>4, WithFacts DEF TypeOK, StoreType, Mark, Legacy, Review
  <2> QED BY <1>0, <1>1, <1>2, <1>4, <2>1, TypeStep DEF TypeOK, local, Failed
<1>7. MarksInv' /\ InputInv'
  <2>1. CASE store' = store
    BY <1>1, <2>1 DEF IInv, MarksInv, InputInv, Has
  <2>2. CASE ~Has(store, "request") /\ store' = With(store, {"claim"})
    BY <1>0, <1>1, <2>2 DEF IInv, MarksInv, InputInv, With, Has, RoadOf, StageOf, Grounded,
      Review, Legacy, TypeOK
  <2> QED BY <1>4, <2>1, <2>2
<1>8. SessionInv'
  BY <1>0, <1>1, <1>4 DEF IInv, SessionInv, With, Has, Others, Failed, local, TypeOK, Slot,
    RoadOf, Attempt, JobType, Road
<1>9. RoadOf(k, "locked")' /\ StageOf(k, "locked")'
  BY <1>0, <1>1, <1>4 DEF IInv, MarksInv, InputInv, RoadOf, StageOf, Active, With, Has, TypeOK,
    Attempt, local, Failed
<1>10. Quiet(k, "locked")
  BY <1>0, <1>1, <1>4 DEF Quiet, With, Has, TypeOK, local, Active, Attempt, RoadOf, Failed
<1> QED BY <1>0, <1>4, <1>6, <1>7, <1>8, <1>9, <1>10, Frame DEF Failed

LEMMA BeginConsumeKeeps ==
  ASSUME IInv, NEW k \in Controller, BeginConsume(k)
  PROVE  IInv'
<1>0. /\ TypeOK /\ "locked" \in Slot /\ job[k]["locked"] \in JobType
      /\ RoadOf(k, "locked") /\ StageOf(k, "locked")
  BY DEF IInv, CallsInv, TypeOK, JobType, Slot
<1>1. UNCHANGED <<expired, inputs, local>> /\ job[k]["locked"].at = "consume"
  BY DEF BeginConsume
<1>2. faults' \in 0 .. MaxFault
  <2>1. faults' = faults \/ (faults < MaxFault /\ faults' = faults + 1)
    BY DEF BeginConsume, Step, Raise
  <2> QED BY <1>0, <2>1, ConstantsAssumption DEF TypeOK
<1>3. \/ CanConsume(store, k) /\ store' = With(store, {"g_consume"}) /\ Go(k, "locked", "mark")
      \/ /\ store' = store \/ (CanConsume(store, k) /\ store' = With(store, {"g_consume"}))
         /\ Go(k, "locked", Failure(job[k]["locked"].road))
  BY DEF BeginConsume, Step, Raise
<1>4. \/ /\ CanConsume(store, k) /\ store' = With(store, {"g_consume"})
         /\ Others(k, "locked")
         /\ job'[k]["locked"].at = "mark" /\ job'[k]["locked"].road = job[k]["locked"].road
      \/ /\ store' = store \/ (CanConsume(store, k) /\ store' = With(store, {"g_consume"}))
         /\ Failed(k, "locked")
  <2>1. CASE Go(k, "locked", "mark") /\ CanConsume(store, k) /\ store' = With(store, {"g_consume"})
    <3>1. "mark" \in Place
      BY DEF Place
    <3> QED BY <1>0, <2>1, <3>1, GoFacts
  <2>2. CASE Go(k, "locked", Failure(job[k]["locked"].road))
    BY <1>0, <1>3, <2>2, FailFacts
  <2> QED BY <1>3, <2>1, <2>2
<1>6. TypeOK'
  <2>1. store' \in StoreType
    BY <1>0, <1>4, WithFacts DEF TypeOK, StoreType, Mark, Legacy, Review
  <2> QED BY <1>0, <1>1, <1>2, <1>4, <2>1, TypeStep DEF TypeOK, local, Failed
<1>7. MarksInv' /\ InputInv'
  <2>1. CASE store' = store
    BY <1>1, <2>1 DEF IInv, MarksInv, InputInv, Has
  <2>2. CASE CanConsume(store, k) /\ store' = With(store, {"g_consume"})
    BY <1>0, <1>1, <2>2 DEF IInv, MarksInv, InputInv, CanConsume, With, Has, RoadOf, StageOf,
      Grounded, Review, Legacy, TypeOK
  <2> QED BY <1>4, <2>1, <2>2
<1>8. SessionInv'
  BY <1>0, <1>1, <1>4 DEF IInv, SessionInv, With, Has, Others, Failed, local, TypeOK, Slot,
    RoadOf, Attempt, JobType, Road, CanConsume
<1>9. RoadOf(k, "locked")' /\ StageOf(k, "locked")'
  BY <1>0, <1>1, <1>4 DEF IInv, MarksInv, InputInv, RoadOf, StageOf, Active, With, Has, TypeOK,
    Attempt, local, Failed, CanConsume
<1>10. Quiet(k, "locked")
  BY <1>0, <1>1, <1>4, NobodyActive DEF Quiet, With, Has, TypeOK, local, Active, Attempt,
    RoadOf, Failed, CanConsume
<1> QED BY <1>0, <1>4, <1>6, <1>7, <1>8, <1>9, <1>10, Frame DEF Failed

LEMMA AskHumanKeeps ==
  ASSUME IInv, NEW k \in Controller, NEW s \in Slot, AskHuman(k, s)
  PROVE  IInv'
<1>0. TypeOK /\ s \in Slot /\ job[k][s] \in JobType /\ RoadOf(k, s) /\ StageOf(k, s)
  BY DEF IInv, CallsInv, TypeOK, JobType, Slot
<1>1. UNCHANGED <<expired, inputs, local>> /\ job[k][s].at = "execute" /\ job[k][s].road = "claim"
  BY DEF AskHuman
<1>2. faults' \in 0 .. MaxFault
  <2>1. faults' = faults \/ (faults < MaxFault /\ faults' = faults + 1)
    BY DEF AskHuman, Step, Raise
  <2> QED BY <1>0, <2>1, ConstantsAssumption DEF TypeOK
<1>3. \/ CanRequest(store) /\ store' = With(store, {"request"}) /\ Go(k, s, "end")
      \/ /\ store' = store \/ (CanRequest(store) /\ store' = With(store, {"request"}))
         /\ Go(k, s, Failure(job[k][s].road))
  BY DEF AskHuman, Step, Raise
<1>4. \/ /\ CanRequest(store) /\ store' = With(store, {"request"})
         /\ Others(k, s) /\ job'[k][s].at = "end" /\ job'[k][s].road = job[k][s].road
      \/ /\ store' = store \/ (CanRequest(store) /\ store' = With(store, {"request"}))
         /\ Failed(k, s)
  <2>1. CASE Go(k, s, "end") /\ CanRequest(store) /\ store' = With(store, {"request"})
    <3>1. "end" \in Place
      BY DEF Place
    <3> QED BY <1>0, <2>1, <3>1, GoFacts
  <2>2. CASE Go(k, s, Failure(job[k][s].road))
    BY <1>0, <1>3, <2>2, FailFacts
  <2> QED BY <1>3, <2>1, <2>2
<1>5. Active(k, s)
  BY <1>0, <1>1 DEF RoadOf, Active, Attempt, JobType, Road
<1>6. TypeOK'
  <2>1. store' \in StoreType
    BY <1>0, <1>4, WithFacts DEF TypeOK, StoreType, Mark, Legacy, Review
  <2> QED BY <1>0, <1>1, <1>2, <1>4, <2>1, TypeStep DEF TypeOK, local, Failed
<1>7. MarksInv' /\ InputInv'
  <2>1. CASE store' = store
    BY <1>1, <2>1 DEF IInv, MarksInv, InputInv, Has
  <2>2. CASE CanRequest(store) /\ store' = With(store, {"request"})
    BY <1>0, <1>1, <1>5, <2>2 DEF IInv, MarksInv, InputInv, CanRequest, With, Has, RoadOf,
      StageOf, Grounded, Review, Legacy, TypeOK
  <2> QED BY <1>4, <2>1, <2>2
<1>8. SessionInv'
  BY <1>0, <1>1, <1>4, <1>5 DEF IInv, SessionInv, With, Has, Others, Failed, local, TypeOK,
    Slot, RoadOf, Attempt, JobType, Road, CanRequest
<1>9. RoadOf(k, s)' /\ StageOf(k, s)'
  BY <1>0, <1>1, <1>4, <1>5 DEF IInv, MarksInv, InputInv, RoadOf, StageOf, Active, With, Has,
    TypeOK, Attempt, local, Failed, CanRequest
<1>10. Quiet(k, s)
  BY <1>0, <1>1, <1>4, <1>5 DEF Quiet, With, Has, TypeOK, local, Active, Attempt, RoadOf,
    Failed, CanRequest
<1> QED BY <1>0, <1>4, <1>6, <1>7, <1>8, <1>9, <1>10, Frame DEF Failed

LEMMA CloseChangedKeeps ==
  ASSUME IInv, NEW k \in Controller, NEW s \in Slot, CloseChanged(k, s)
  PROVE  IInv'
<1>0. TypeOK /\ s \in Slot /\ job[k][s] \in JobType /\ RoadOf(k, s) /\ StageOf(k, s)
  BY DEF IInv, CallsInv, TypeOK, JobType, Slot
<1>1. UNCHANGED <<expired, inputs, local>> /\ job[k][s].at = "execute" /\ job[k][s].road = "resume"
  BY DEF CloseChanged
<1>2. faults' \in 0 .. MaxFault
  <2>1. faults' = faults \/ (faults < MaxFault /\ faults' = faults + 1)
    BY DEF CloseChanged, Step, Raise
  <2> QED BY <1>0, <2>1, ConstantsAssumption DEF TypeOK
<1>3. \/ CanClose(store) /\ store' = With(store, {"closed"}) /\ Go(k, s, "end")
      \/ /\ store' = store \/ (CanClose(store) /\ store' = With(store, {"closed"}))
         /\ Go(k, s, Failure(job[k][s].road))
  BY DEF CloseChanged, Step, Raise
<1>4. \/ /\ CanClose(store) /\ store' = With(store, {"closed"})
         /\ Others(k, s) /\ job'[k][s].at = "end" /\ job'[k][s].road = job[k][s].road
      \/ /\ store' = store \/ (CanClose(store) /\ store' = With(store, {"closed"}))
         /\ Failed(k, s)
  <2>1. CASE Go(k, s, "end") /\ CanClose(store) /\ store' = With(store, {"closed"})
    <3>1. "end" \in Place
      BY DEF Place
    <3> QED BY <1>0, <2>1, <3>1, GoFacts
  <2>2. CASE Go(k, s, Failure(job[k][s].road))
    BY <1>0, <1>3, <2>2, FailFacts
  <2> QED BY <1>3, <2>1, <2>2
<1>5. Active(k, s)
  BY <1>0, <1>1 DEF RoadOf, Active, Attempt, JobType, Road
<1>6. TypeOK'
  <2>1. store' \in StoreType
    BY <1>0, <1>4, WithFacts DEF TypeOK, StoreType, Mark, Legacy, Review
  <2> QED BY <1>0, <1>1, <1>2, <1>4, <2>1, TypeStep DEF TypeOK, local, Failed
<1>7. MarksInv' /\ InputInv'
  <2>1. CASE store' = store
    BY <1>1, <2>1 DEF IInv, MarksInv, InputInv, Has
  <2>2. CASE CanClose(store) /\ store' = With(store, {"closed"})
    BY <1>0, <1>1, <1>5, <2>2 DEF IInv, MarksInv, InputInv, CanClose, With, Has, RoadOf,
      StageOf, Grounded, Review, Legacy, TypeOK
  <2> QED BY <1>4, <2>1, <2>2
<1>8. SessionInv'
  BY <1>0, <1>1, <1>4, <1>5 DEF IInv, SessionInv, With, Has, Others, Failed, local, TypeOK,
    Slot, RoadOf, Attempt, JobType, Road, CanClose
<1>9. RoadOf(k, s)' /\ StageOf(k, s)'
  BY <1>0, <1>1, <1>4, <1>5 DEF IInv, MarksInv, InputInv, RoadOf, StageOf, Active, With, Has,
    TypeOK, Attempt, local, Failed, CanClose
<1>10. Quiet(k, s)
  BY <1>0, <1>1, <1>4, <1>5 DEF Quiet, With, Has, TypeOK, local, Active, Attempt, RoadOf,
    Failed, CanClose
<1> QED BY <1>0, <1>4, <1>6, <1>7, <1>8, <1>9, <1>10, Frame DEF Failed

LEMMA MarkDispatchKeeps ==
  ASSUME IInv, NEW k \in Controller, NEW s \in Slot, MarkDispatch(k, s)
  PROVE  IInv'
<1>0. TypeOK /\ s \in Slot /\ job[k][s] \in JobType /\ RoadOf(k, s) /\ StageOf(k, s) /\ PhaseOf
  BY PhaseFacts DEF IInv, CallsInv, TypeOK, JobType, Slot
<1>1. UNCHANGED <<expired, inputs, local>> /\ job[k][s].at = "mark"
  BY DEF MarkDispatch
<1>2. faults' \in 0 .. MaxFault
  <2>1. faults' = faults \/ (faults < MaxFault /\ faults' = faults + 1)
    BY DEF MarkDispatch, Step, Raise
  <2> QED BY <1>0, <2>1, ConstantsAssumption DEF TypeOK
<1>3. \/ /\ CanMark(store, job[k][s].road) /\ store' = With(store, {"dispatch"})
         /\ Go(k, s, "dispatch")
      \/ /\ store' = store \/ (CanMark(store, job[k][s].road) /\ store' = With(store, {"dispatch"}))
         /\ Go(k, s, Failure(job[k][s].road))
  BY DEF MarkDispatch, Step, Raise
<1>4. \/ /\ CanMark(store, job[k][s].road) /\ store' = With(store, {"dispatch"})
         /\ Others(k, s) /\ job'[k][s].at = "dispatch" /\ job'[k][s].road = job[k][s].road
      \/ /\ store' = store \/ (CanMark(store, job[k][s].road) /\ store' = With(store, {"dispatch"}))
         /\ Failed(k, s)
  <2>1. CASE Go(k, s, "dispatch") /\ CanMark(store, job[k][s].road) /\ store' = With(store, {"dispatch"})
    <3>1. "dispatch" \in Place
      BY DEF Place
    <3> QED BY <1>0, <2>1, <3>1, GoFacts
  <2>2. CASE Go(k, s, Failure(job[k][s].road))
    BY <1>0, <1>3, <2>2, FailFacts
  <2> QED BY <1>3, <2>1, <2>2
<1>5. Active(k, s)
  BY <1>0, <1>1 DEF RoadOf, Active, Attempt, JobType, Road
<1>6. TypeOK'
  <2>1. store' \in StoreType
    BY <1>0, <1>4, WithFacts DEF TypeOK, StoreType, Mark, Legacy, Review
  <2> QED BY <1>0, <1>1, <1>2, <1>4, <2>1, TypeStep DEF TypeOK, local, Failed
<1>7. MarksInv' /\ InputInv'
  <2>1. CASE store' = store
    BY <1>1, <2>1 DEF IInv, MarksInv, InputInv, Has
  <2>2. CASE CanMark(store, job[k][s].road) /\ store' = With(store, {"dispatch"})
    BY <1>0, <1>1, <1>5, <2>2 DEF IInv, MarksInv, InputInv, CanMark, PhaseOf, With, Has,
      RoadOf, StageOf, Grounded, Review, Legacy, TypeOK
  <2> QED BY <1>4, <2>1, <2>2
<1>8. SessionInv'
  BY <1>0, <1>1, <1>4, <1>5 DEF IInv, SessionInv, With, Has, Others, Failed, local, TypeOK,
    Slot, RoadOf, Attempt, JobType, Road, CanMark, PhaseOf
<1>9. RoadOf(k, s)' /\ StageOf(k, s)'
  BY <1>0, <1>1, <1>4, <1>5 DEF IInv, MarksInv, InputInv, RoadOf, StageOf, Active, With, Has,
    TypeOK, Attempt, local, Failed, CanMark, PhaseOf
<1>10. Quiet(k, s)
  BY <1>0, <1>1, <1>4, <1>5 DEF Quiet, With, Has, TypeOK, local, Active, Attempt, RoadOf,
    Failed, CanMark, PhaseOf
<1> QED BY <1>0, <1>4, <1>6, <1>7, <1>8, <1>9, <1>10, Frame DEF Failed

LEMMA CheckpointKeeps ==
  ASSUME IInv, NEW k \in Controller, NEW s \in Slot, Checkpoint(k, s)
  PROVE  IInv'
<1>0. TypeOK /\ s \in Slot /\ job[k][s] \in JobType /\ RoadOf(k, s) /\ StageOf(k, s)
  BY DEF IInv, CallsInv, TypeOK, JobType, Slot
<1>1. UNCHANGED <<expired, inputs, local>> /\ job[k][s].at = "checkpoint"
  BY DEF Checkpoint
<1>2. faults' \in 0 .. MaxFault
  <2>1. faults' = faults \/ (faults < MaxFault /\ faults' = faults + 1)
    BY DEF Checkpoint, Step, Raise
  <2> QED BY <1>0, <2>1, ConstantsAssumption DEF TypeOK
<1>3. \/ /\ CanCheckpoint(store, job[k][s].road) /\ store' = With(store, {"pending"})
         /\ Go(k, s, "verify")
      \/ /\ store' = store \/ (CanCheckpoint(store, job[k][s].road) /\ store' = With(store, {"pending"}))
         /\ Go(k, s, Failure(job[k][s].road))
  BY DEF Checkpoint, Step, Raise
<1>4. \/ /\ CanCheckpoint(store, job[k][s].road) /\ store' = With(store, {"pending"})
         /\ Others(k, s) /\ job'[k][s].at = "verify" /\ job'[k][s].road = job[k][s].road
      \/ /\ store' = store \/ (CanCheckpoint(store, job[k][s].road) /\ store' = With(store, {"pending"}))
         /\ Failed(k, s)
  <2>1. CASE Go(k, s, "verify") /\ CanCheckpoint(store, job[k][s].road) /\ store' = With(store, {"pending"})
    <3>1. "verify" \in Place
      BY DEF Place
    <3> QED BY <1>0, <2>1, <3>1, GoFacts
  <2>2. CASE Go(k, s, Failure(job[k][s].road))
    BY <1>0, <1>3, <2>2, FailFacts
  <2> QED BY <1>3, <2>1, <2>2
<1>5. Active(k, s)
  BY <1>0, <1>1 DEF RoadOf, Active, Attempt, JobType, Road
<1>6. TypeOK'
  <2>1. store' \in StoreType
    BY <1>0, <1>4, WithFacts DEF TypeOK, StoreType, Mark, Legacy, Review
  <2> QED BY <1>0, <1>1, <1>2, <1>4, <2>1, TypeStep DEF TypeOK, local, Failed
<1>7. MarksInv' /\ InputInv'
  <2>1. CASE store' = store
    BY <1>1, <2>1 DEF IInv, MarksInv, InputInv, Has
  <2>2. CASE CanCheckpoint(store, job[k][s].road) /\ store' = With(store, {"pending"})
    BY <1>0, <1>1, <1>5, <2>2 DEF IInv, MarksInv, InputInv, CanCheckpoint, With, Has, RoadOf,
      StageOf, Grounded, Review, Legacy, TypeOK
  <2> QED BY <1>4, <2>1, <2>2
<1>8. SessionInv'
  BY <1>0, <1>1, <1>4, <1>5 DEF IInv, SessionInv, With, Has, Others, Failed, local, TypeOK,
    Slot, RoadOf, Attempt, JobType, Road, CanCheckpoint
<1>9. RoadOf(k, s)' /\ StageOf(k, s)'
  BY <1>0, <1>1, <1>4, <1>5 DEF IInv, MarksInv, InputInv, RoadOf, StageOf, Active, With, Has,
    TypeOK, Attempt, local, Failed, CanCheckpoint
<1>10. Quiet(k, s)
  BY <1>0, <1>1, <1>4, <1>5 DEF Quiet, With, Has, TypeOK, local, Active, Attempt, RoadOf,
    Failed, CanCheckpoint
<1> QED BY <1>0, <1>4, <1>6, <1>7, <1>8, <1>9, <1>10, Frame DEF Failed
-----------------------------------------------------------------------------
(* The steps that start or end a call and leave the claim to itself.        *)

LEMMA SubmitSpentKeeps ==
  ASSUME IInv, NEW k \in Controller, SubmitSpent(k)
  PROVE  IInv'
<1>0. /\ TypeOK /\ "locked" \in Slot /\ job[k]["locked"] \in JobType
      /\ RoadOf(k, "locked") /\ StageOf(k, "locked")
  BY DEF IInv, CallsInv, TypeOK, JobType, Slot
<1>1. job[k]["locked"].at = "idle"
  BY <1>0 DEF SubmitSpent, Free
<1>2. Others(k, "locked") /\ job'[k]["locked"] = job[k]["locked"]
  BY <1>0, StayFacts DEF SubmitSpent
<1>3. UNCHANGED <<expired, inputs, boot, faults>>
  BY DEF SubmitSpent, local
<1>4. store' = store
  BY DEF SubmitSpent, Read
<1>5. TypeOK'
  <2>1. store' \in StoreType
    BY <1>0, <1>4, WithFacts DEF TypeOK, StoreType, Mark, Legacy, Review
  <2>2. /\ session' \in [Controller -> {"none", "ready", "consumed"}]
        /\ published' \in [Controller -> BOOLEAN]
        /\ lease' \in [Controller -> {"none", "session", "job", "recovery"}]
    BY <1>0 DEF SubmitSpent, TypeOK, local
  <2> QED BY <1>0, <1>2, <1>3, <2>1, <2>2, TypeStep DEF TypeOK, Failed
<1>6. MarksInv' /\ InputInv'
  BY <1>0, <1>3, <1>4 DEF IInv, MarksInv, InputInv, With, Has, TypeOK
<1>7. SessionInv'
  BY <1>0, <1>1, <1>2, <1>3, <1>4 DEF SubmitSpent, IInv, MarksInv, SessionInv, With, Has,
    Others, Failed, local, TypeOK, Slot, RoadOf, Attempt, JobType, Road
<1>8. RoadOf(k, "locked")' /\ StageOf(k, "locked")'
  BY <1>0, <1>1, <1>2, <1>3, <1>4 DEF SubmitSpent, IInv, MarksInv, InputInv, RoadOf, StageOf,
    Active, With, Has, TypeOK, Attempt, local, Failed
<1>9. Quiet(k, "locked")
  BY <1>0, <1>1, <1>2, <1>3, <1>4 DEF SubmitSpent, Quiet, With, Has, TypeOK, local, Active,
    Attempt, RoadOf, Failed
<1> QED BY <1>0, <1>2, <1>5, <1>6, <1>7, <1>8, <1>9, Frame DEF Failed

LEMMA AbandonKeeps ==
  ASSUME IInv, NEW k \in Controller, Abandon(k)
  PROVE  IInv'
<1>0. /\ TypeOK /\ "locked" \in Slot /\ job[k]["locked"] \in JobType
      /\ RoadOf(k, "locked") /\ StageOf(k, "locked")
  BY DEF IInv, CallsInv, TypeOK, JobType, Slot
<1>1. job[k]["locked"].at = "idle"
  BY <1>0 DEF Abandon, Free
<1>2. Others(k, "locked") /\ job'[k]["locked"] = job[k]["locked"]
  BY <1>0, StayFacts DEF Abandon
<1>3. UNCHANGED <<expired, inputs, boot, faults>>
  BY DEF Abandon, local
<1>4. store' = store
  BY DEF Abandon, Read
<1>5. TypeOK'
  <2>1. store' \in StoreType
    BY <1>0, <1>4, WithFacts DEF TypeOK, StoreType, Mark, Legacy, Review
  <2>2. /\ session' \in [Controller -> {"none", "ready", "consumed"}]
        /\ published' \in [Controller -> BOOLEAN]
        /\ lease' \in [Controller -> {"none", "session", "job", "recovery"}]
    BY <1>0 DEF Abandon, TypeOK, local
  <2> QED BY <1>0, <1>2, <1>3, <2>1, <2>2, TypeStep DEF TypeOK, Failed
<1>6. MarksInv' /\ InputInv'
  BY <1>0, <1>3, <1>4 DEF IInv, MarksInv, InputInv, With, Has, TypeOK
<1>7. SessionInv'
  BY <1>0, <1>1, <1>2, <1>3, <1>4 DEF Abandon, IInv, MarksInv, SessionInv, With, Has, Others,
    Failed, local, TypeOK, Slot, RoadOf, Attempt, JobType, Road
<1>8. RoadOf(k, "locked")' /\ StageOf(k, "locked")'
  BY <1>0, <1>1, <1>2, <1>3, <1>4 DEF Abandon, IInv, MarksInv, InputInv, RoadOf, StageOf,
    Active, With, Has, TypeOK, Attempt, local, Failed
<1>9. Quiet(k, "locked")
  BY <1>0, <1>1, <1>2, <1>3, <1>4 DEF Abandon, Quiet, With, Has, TypeOK, local, Active,
    Attempt, RoadOf, Failed
<1> QED BY <1>0, <1>2, <1>5, <1>6, <1>7, <1>8, <1>9, Frame DEF Failed

LEMMA SubmitKnownKeeps ==
  ASSUME IInv, NEW k \in Controller, SubmitKnown(k)
  PROVE  IInv'
<1>0. /\ TypeOK /\ "locked" \in Slot /\ job[k]["locked"] \in JobType
      /\ RoadOf(k, "locked") /\ StageOf(k, "locked")
  BY DEF IInv, CallsInv, TypeOK, JobType, Slot
<1>1. job[k]["locked"].at = "idle"
  BY <1>0 DEF SubmitKnown, Free
<1>2. Others(k, "locked") /\ job'[k]["locked"] = job[k]["locked"]
  BY <1>0, StayFacts DEF SubmitKnown
<1>3. UNCHANGED <<expired, inputs, boot, faults>>
  BY DEF SubmitKnown, local
<1>4. Has(store, "claim") /\ (store' = store \/ store' = With(store, {"terminal"}))
  BY DEF SubmitKnown, Read
<1>5. TypeOK'
  <2>1. store' \in StoreType
    BY <1>0, <1>4, WithFacts DEF TypeOK, StoreType, Mark, Legacy, Review
  <2>2. /\ session' \in [Controller -> {"none", "ready", "consumed"}]
        /\ published' \in [Controller -> BOOLEAN]
        /\ lease' \in [Controller -> {"none", "session", "job", "recovery"}]
    BY <1>0 DEF SubmitKnown, TypeOK, local
  <2> QED BY <1>0, <1>2, <1>3, <2>1, <2>2, TypeStep DEF TypeOK, Failed
<1>6. MarksInv' /\ InputInv'
  BY <1>0, <1>3, <1>4 DEF IInv, MarksInv, InputInv, With, Has, TypeOK
<1>7. SessionInv'
  BY <1>0, <1>1, <1>2, <1>3, <1>4 DEF SubmitKnown, IInv, MarksInv, SessionInv, With, Has,
    Others, Failed, local, TypeOK, Slot, RoadOf, Attempt, JobType, Road
<1>8. RoadOf(k, "locked")' /\ StageOf(k, "locked")'
  BY <1>0, <1>1, <1>2, <1>3, <1>4 DEF SubmitKnown, IInv, MarksInv, InputInv, RoadOf, StageOf,
    Active, With, Has, TypeOK, Attempt, local, Failed
<1>9. Quiet(k, "locked")
  BY <1>0, <1>1, <1>2, <1>3, <1>4 DEF SubmitKnown, Quiet, With, Has, TypeOK, local, Active,
    Attempt, RoadOf, Failed
<1> QED BY <1>0, <1>2, <1>5, <1>6, <1>7, <1>8, <1>9, Frame DEF Failed

LEMMA SubmitApprovedKeeps ==
  ASSUME IInv, NEW k \in Controller, SubmitApproved(k)
  PROVE  IInv'
<1>0. /\ TypeOK /\ "locked" \in Slot /\ job[k]["locked"] \in JobType
      /\ RoadOf(k, "locked") /\ StageOf(k, "locked")
  BY DEF IInv, CallsInv, TypeOK, JobType, Slot
<1>1. job[k]["locked"].at = "idle"
  BY <1>0 DEF SubmitApproved, Free
<1>2. Others(k, "locked") /\ job'[k]["locked"].at = "approved" /\ job'[k]["locked"].road = "resume"
  <2>1. "approved" \in Place /\ "resume" \in Road /\ Start(k, "locked", "approved", "resume")
    BY DEF SubmitApproved, Place, Road
  <2> QED BY <1>0, <2>1, StartFacts
<1>3. UNCHANGED <<expired, inputs, boot, faults>>
  BY DEF SubmitApproved, local
<1>4. store' = store
  BY DEF SubmitApproved, Read
<1>5. TypeOK'
  <2>1. store' \in StoreType
    BY <1>0, <1>4, WithFacts DEF TypeOK, StoreType, Mark, Legacy, Review
  <2>2. /\ session' \in [Controller -> {"none", "ready", "consumed"}]
        /\ published' \in [Controller -> BOOLEAN]
        /\ lease' \in [Controller -> {"none", "session", "job", "recovery"}]
    BY <1>0 DEF SubmitApproved, TypeOK, local
  <2> QED BY <1>0, <1>2, <1>3, <2>1, <2>2, TypeStep DEF TypeOK, Failed
<1>6. MarksInv' /\ InputInv'
  BY <1>0, <1>3, <1>4 DEF IInv, MarksInv, InputInv, With, Has, TypeOK
<1>7. SessionInv'
  BY <1>0, <1>1, <1>2, <1>3, <1>4 DEF SubmitApproved, IInv, MarksInv, SessionInv, With, Has,
    Others, Failed, local, TypeOK, Slot, RoadOf, Attempt, JobType, Road
<1>8. RoadOf(k, "locked")' /\ StageOf(k, "locked")'
  BY <1>0, <1>1, <1>2, <1>3, <1>4 DEF SubmitApproved, IInv, MarksInv, InputInv, RoadOf,
    StageOf, Active, With, Has, TypeOK, Attempt, local, Failed
<1>9. Quiet(k, "locked")
  BY <1>0, <1>1, <1>2, <1>3, <1>4 DEF SubmitApproved, Quiet, With, Has, TypeOK, local, Active,
    Attempt, RoadOf, Failed
<1> QED BY <1>0, <1>2, <1>5, <1>6, <1>7, <1>8, <1>9, Frame DEF Failed

LEMMA RecheckKeeps ==
  ASSUME IInv, NEW k \in Controller, Recheck(k)
  PROVE  IInv'
<1>0. /\ TypeOK /\ "locked" \in Slot /\ job[k]["locked"] \in JobType
      /\ RoadOf(k, "locked") /\ StageOf(k, "locked") /\ PhaseOf
  BY PhaseFacts DEF IInv, CallsInv, TypeOK, JobType, Slot
<1>1. job[k]["locked"].at = "idle" /\ Has(store, "pending")
  BY <1>0 DEF Recheck, Free, PhaseOf
<1>2. Others(k, "locked") /\ job'[k]["locked"].at = "verify" /\ job'[k]["locked"].road = "recheck"
  <2>1. "verify" \in Place /\ "recheck" \in Road /\ Start(k, "locked", "verify", "recheck")
    BY DEF Recheck, Place, Road
  <2> QED BY <1>0, <2>1, StartFacts
<1>3. UNCHANGED <<expired, inputs, boot, faults>>
  BY DEF Recheck, local
<1>4. store' = store
  BY DEF Recheck, Read
<1>5. TypeOK'
  <2>1. store' \in StoreType
    BY <1>0, <1>4, WithFacts DEF TypeOK, StoreType, Mark, Legacy, Review
  <2>2. /\ session' \in [Controller -> {"none", "ready", "consumed"}]
        /\ published' \in [Controller -> BOOLEAN]
        /\ lease' \in [Controller -> {"none", "session", "job", "recovery"}]
    BY <1>0 DEF Recheck, TypeOK, local
  <2> QED BY <1>0, <1>2, <1>3, <2>1, <2>2, TypeStep DEF TypeOK, Failed
<1>6. MarksInv' /\ InputInv'
  BY <1>0, <1>3, <1>4 DEF IInv, MarksInv, InputInv, With, Has, TypeOK
<1>7. SessionInv'
  BY <1>0, <1>1, <1>2, <1>3, <1>4 DEF Recheck, IInv, MarksInv, SessionInv, With, Has, Others,
    Failed, local, TypeOK, Slot, RoadOf, Attempt, JobType, Road
<1>8. RoadOf(k, "locked")' /\ StageOf(k, "locked")'
  BY <1>0, <1>1, <1>2, <1>3, <1>4 DEF Recheck, IInv, MarksInv, InputInv, RoadOf, StageOf,
    Active, With, Has, TypeOK, Attempt, local, Failed
<1>9. Quiet(k, "locked")
  BY <1>0, <1>1, <1>2, <1>3, <1>4 DEF Recheck, Quiet, With, Has, TypeOK, local, Active,
    Attempt, RoadOf, Failed
<1> QED BY <1>0, <1>2, <1>5, <1>6, <1>7, <1>8, <1>9, Frame DEF Failed

LEMMA RequestReviewKeeps ==
  ASSUME IInv, NEW k \in Controller, RequestReview(k)
  PROVE  IInv'
<1>0. /\ TypeOK /\ "locked" \in Slot /\ job[k]["locked"] \in JobType
      /\ RoadOf(k, "locked") /\ StageOf(k, "locked")
  BY DEF IInv, CallsInv, TypeOK, JobType, Slot
<1>1. job[k]["locked"].at = "idle"
  BY <1>0 DEF RequestReview, Free
<1>2. Others(k, "locked") /\ job'[k]["locked"].at = "publish" /\ job'[k]["locked"].road = "grounded"
  <2>1. "publish" \in Place /\ "grounded" \in Road /\ Start(k, "locked", "publish", "grounded")
    BY DEF RequestReview, Place, Road
  <2> QED BY <1>0, <2>1, StartFacts
<1>3. UNCHANGED <<expired, inputs, boot, faults>>
  BY DEF RequestReview, local
<1>4. store' = store
  BY DEF RequestReview, Read
<1>5. TypeOK'
  <2>1. store' \in StoreType
    BY <1>0, <1>4, WithFacts DEF TypeOK, StoreType, Mark, Legacy, Review
  <2>2. /\ session' \in [Controller -> {"none", "ready", "consumed"}]
        /\ published' \in [Controller -> BOOLEAN]
        /\ lease' \in [Controller -> {"none", "session", "job", "recovery"}]
    BY <1>0 DEF RequestReview, TypeOK, local
  <2> QED BY <1>0, <1>2, <1>3, <2>1, <2>2, TypeStep DEF TypeOK, Failed
<1>6. MarksInv' /\ InputInv'
  BY <1>0, <1>3, <1>4 DEF IInv, MarksInv, InputInv, With, Has, TypeOK
<1>7. SessionInv'
  <2>1. RoadOf(k, "free")
    BY DEF IInv, CallsInv, Slot
  <2> QED BY <1>0, <1>1, <1>2, <1>3, <1>4, <2>1 DEF RequestReview, IInv, MarksInv, SessionInv,
    With, Has, Others, Failed, local, TypeOK, Slot, RoadOf, Attempt, JobType, Road
<1>8. RoadOf(k, "locked")' /\ StageOf(k, "locked")'
  BY <1>0, <1>1, <1>2, <1>3, <1>4 DEF RequestReview, IInv, MarksInv, InputInv, RoadOf, StageOf,
    Active, With, Has, TypeOK, Attempt, local, Failed
<1>9. Quiet(k, "locked")
  BY <1>0, <1>1, <1>2, <1>3, <1>4 DEF RequestReview, Quiet, With, Has, TypeOK, local, Active,
    Attempt, RoadOf, Failed
<1> QED BY <1>0, <1>2, <1>5, <1>6, <1>7, <1>8, <1>9, Frame DEF Failed

LEMMA ConsumeTerminalKeeps ==
  ASSUME IInv, NEW k \in Controller, ConsumeTerminal(k)
  PROVE  IInv'
<1>0. /\ TypeOK /\ "locked" \in Slot /\ job[k]["locked"] \in JobType
      /\ RoadOf(k, "locked") /\ StageOf(k, "locked")
  BY DEF IInv, CallsInv, TypeOK, JobType, Slot
<1>1. job[k]["locked"].at = "idle"
  BY <1>0 DEF ConsumeTerminal, Free
<1>2. Others(k, "locked") /\ job'[k]["locked"] = job[k]["locked"]
  BY <1>0, StayFacts DEF ConsumeTerminal
<1>3. UNCHANGED <<expired, inputs, boot, faults>>
  BY DEF ConsumeTerminal, local
<1>4. Has(store, "claim") /\ (store' = store \/ store' = With(store, {"terminal"}))
  BY DEF ConsumeTerminal, Read, IInv, MarksInv, Grounded, Has
<1>5. TypeOK'
  <2>1. store' \in StoreType
    BY <1>0, <1>4, WithFacts DEF TypeOK, StoreType, Mark, Legacy, Review
  <2>2. /\ session' \in [Controller -> {"none", "ready", "consumed"}]
        /\ published' \in [Controller -> BOOLEAN]
        /\ lease' \in [Controller -> {"none", "session", "job", "recovery"}]
    BY <1>0 DEF ConsumeTerminal, TypeOK, local
  <2> QED BY <1>0, <1>2, <1>3, <2>1, <2>2, TypeStep DEF TypeOK, Failed
<1>6. MarksInv' /\ InputInv'
  BY <1>0, <1>3, <1>4 DEF IInv, MarksInv, InputInv, With, Has, TypeOK
<1>7. SessionInv'
  BY <1>0, <1>1, <1>2, <1>3, <1>4 DEF ConsumeTerminal, IInv, MarksInv, SessionInv, With, Has,
    Others, Failed, local, TypeOK, Slot, RoadOf, Attempt, JobType, Road
<1>8. RoadOf(k, "locked")' /\ StageOf(k, "locked")'
  BY <1>0, <1>1, <1>2, <1>3, <1>4 DEF ConsumeTerminal, IInv, MarksInv, InputInv, RoadOf,
    StageOf, Active, With, Has, TypeOK, Attempt, local, Failed
<1>9. Quiet(k, "locked")
  BY <1>0, <1>1, <1>2, <1>3, <1>4 DEF ConsumeTerminal, Quiet, With, Has, TypeOK, local, Active,
    Attempt, RoadOf, Failed
<1> QED BY <1>0, <1>2, <1>5, <1>6, <1>7, <1>8, <1>9, Frame DEF Failed

LEMMA ConsumePendingKeeps ==
  ASSUME IInv, NEW k \in Controller, ConsumePending(k)
  PROVE  IInv'
<1>0. /\ TypeOK /\ "locked" \in Slot /\ job[k]["locked"] \in JobType
      /\ RoadOf(k, "locked") /\ StageOf(k, "locked") /\ PhaseOf
  BY PhaseFacts DEF IInv, CallsInv, TypeOK, JobType, Slot
<1>1. job[k]["locked"].at = "idle" /\ Has(store, "pending")
  BY <1>0 DEF ConsumePending, Free, PhaseOf
<1>2. Others(k, "locked") /\ job'[k]["locked"].at = "verify" /\ job'[k]["locked"].road = "g_recheck"
  <2>1. "verify" \in Place /\ "g_recheck" \in Road /\ Start(k, "locked", "verify", "g_recheck")
    BY DEF ConsumePending, Place, Road
  <2> QED BY <1>0, <2>1, StartFacts
<1>3. UNCHANGED <<expired, inputs, boot, faults>>
  BY DEF ConsumePending, local
<1>4. store' = store
  BY DEF ConsumePending, Read
<1>5. TypeOK'
  <2>1. store' \in StoreType
    BY <1>0, <1>4, WithFacts DEF TypeOK, StoreType, Mark, Legacy, Review
  <2>2. /\ session' \in [Controller -> {"none", "ready", "consumed"}]
        /\ published' \in [Controller -> BOOLEAN]
        /\ lease' \in [Controller -> {"none", "session", "job", "recovery"}]
    BY <1>0 DEF ConsumePending, TypeOK, local
  <2> QED BY <1>0, <1>2, <1>3, <2>1, <2>2, TypeStep DEF TypeOK, Failed
<1>6. MarksInv' /\ InputInv'
  BY <1>0, <1>3, <1>4 DEF IInv, MarksInv, InputInv, With, Has, TypeOK
<1>7. SessionInv'
  BY <1>0, <1>1, <1>2, <1>3, <1>4 DEF ConsumePending, IInv, MarksInv, SessionInv, With, Has,
    Others, Failed, local, TypeOK, Slot, RoadOf, Attempt, JobType, Road
<1>8. RoadOf(k, "locked")' /\ StageOf(k, "locked")'
  BY <1>0, <1>1, <1>2, <1>3, <1>4 DEF ConsumePending, IInv, MarksInv, InputInv, RoadOf,
    StageOf, Active, With, Has, TypeOK, Attempt, local, Failed
<1>9. Quiet(k, "locked")
  BY <1>0, <1>1, <1>2, <1>3, <1>4 DEF ConsumePending, Quiet, With, Has, TypeOK, local, Active,
    Attempt, RoadOf, Failed
<1> QED BY <1>0, <1>2, <1>5, <1>6, <1>7, <1>8, <1>9, Frame DEF Failed

LEMMA ReleaseKeeps ==
  ASSUME IInv, NEW k \in Controller, Release(k)
  PROVE  IInv'
<1>0. /\ TypeOK /\ "locked" \in Slot /\ job[k]["locked"] \in JobType
      /\ RoadOf(k, "locked") /\ StageOf(k, "locked")
  BY DEF IInv, CallsInv, TypeOK, JobType, Slot
<1>1. job[k]["locked"].at = "release"
  BY <1>0 DEF Release, Free
<1>2. Others(k, "locked") /\ job'[k]["locked"].at = "idle"
  BY <1>0, RestFacts DEF Release
<1>3. UNCHANGED <<expired, inputs, boot, faults>>
  BY DEF Release, local
<1>4. store' = store
  BY DEF Release, Read
<1>5. TypeOK'
  <2>1. store' \in StoreType
    BY <1>0, <1>4, WithFacts DEF TypeOK, StoreType, Mark, Legacy, Review
  <2>2. /\ session' \in [Controller -> {"none", "ready", "consumed"}]
        /\ published' \in [Controller -> BOOLEAN]
        /\ lease' \in [Controller -> {"none", "session", "job", "recovery"}]
    BY <1>0 DEF Release, TypeOK, local
  <2> QED BY <1>0, <1>2, <1>3, <2>1, <2>2, TypeStep DEF TypeOK, Failed
<1>6. MarksInv' /\ InputInv'
  BY <1>0, <1>3, <1>4 DEF IInv, MarksInv, InputInv, With, Has, TypeOK
<1>7. SessionInv'
  BY <1>0, <1>1, <1>2, <1>3, <1>4 DEF Release, IInv, MarksInv, SessionInv, With, Has, Others,
    Failed, local, TypeOK, Slot, RoadOf, Attempt, JobType, Road
<1>8. RoadOf(k, "locked")' /\ StageOf(k, "locked")'
  BY <1>0, <1>1, <1>2, <1>3, <1>4 DEF Release, IInv, MarksInv, InputInv, RoadOf, StageOf,
    Active, With, Has, TypeOK, Attempt, local, Failed
<1>9. Quiet(k, "locked")
  BY <1>0, <1>1, <1>2, <1>3, <1>4 DEF Release, Quiet, With, Has, TypeOK, local, Active,
    Attempt, RoadOf, Failed
<1> QED BY <1>0, <1>2, <1>5, <1>6, <1>7, <1>8, <1>9, Frame DEF Failed

LEMMA FinishReviewKeeps ==
  ASSUME IInv, NEW k \in Controller, FinishReview(k)
  PROVE  IInv'
<1>0. /\ TypeOK /\ "locked" \in Slot /\ job[k]["locked"] \in JobType
      /\ RoadOf(k, "locked") /\ StageOf(k, "locked")
  BY DEF IInv, CallsInv, TypeOK, JobType, Slot
<1>1. job[k]["locked"].at = "done" /\ job[k]["locked"].road \in {"grounded", "g_recheck"}
  BY <1>0 DEF FinishReview, Free
<1>2. Others(k, "locked") /\ job'[k]["locked"].at = "idle"
  BY <1>0, RestFacts DEF FinishReview
<1>3. UNCHANGED <<expired, inputs, boot, faults>>
  BY DEF FinishReview, local
<1>4. store' = store
  BY DEF FinishReview, Read
<1>5. TypeOK'
  <2>1. store' \in StoreType
    BY <1>0, <1>4, WithFacts DEF TypeOK, StoreType, Mark, Legacy, Review
  <2>2. /\ session' \in [Controller -> {"none", "ready", "consumed"}]
        /\ published' \in [Controller -> BOOLEAN]
        /\ lease' \in [Controller -> {"none", "session", "job", "recovery"}]
    BY <1>0 DEF FinishReview, TypeOK, local
  <2> QED BY <1>0, <1>2, <1>3, <2>1, <2>2, TypeStep DEF TypeOK, Failed
<1>6. MarksInv' /\ InputInv'
  BY <1>0, <1>3, <1>4 DEF IInv, MarksInv, InputInv, With, Has, TypeOK
<1>7. SessionInv'
  BY <1>0, <1>1, <1>2, <1>3, <1>4 DEF FinishReview, IInv, MarksInv, SessionInv, With, Has,
    Others, Failed, local, TypeOK, Slot, RoadOf, Attempt, JobType, Road
<1>8. RoadOf(k, "locked")' /\ StageOf(k, "locked")'
  BY <1>0, <1>1, <1>2, <1>3, <1>4 DEF FinishReview, IInv, MarksInv, InputInv, RoadOf, StageOf,
    Active, With, Has, TypeOK, Attempt, local, Failed
<1>9. Quiet(k, "locked")
  BY <1>0, <1>1, <1>2, <1>3, <1>4 DEF FinishReview, Quiet, With, Has, TypeOK, local, Active,
    Attempt, RoadOf, Failed
<1> QED BY <1>0, <1>2, <1>5, <1>6, <1>7, <1>8, <1>9, Frame DEF Failed

LEMMA VerifyFailsKeeps ==
  ASSUME IInv, NEW k \in Controller, NEW s \in Slot, VerifyFails(k, s)
  PROVE  IInv'
<1>0. TypeOK /\ s \in Slot /\ job[k][s] \in JobType /\ RoadOf(k, s) /\ StageOf(k, s)
  BY DEF IInv, CallsInv, TypeOK, JobType, Slot
<1>1. job[k][s].at = "verify"
  BY <1>0 DEF VerifyFails, Free
<1>2. Failed(k, s)
  BY <1>0, FailFacts DEF VerifyFails
<1>3. UNCHANGED <<expired, inputs, boot, faults>>
  BY DEF VerifyFails, local
<1>4. store' = store
  BY DEF VerifyFails, Read
<1>5. TypeOK'
  <2>1. store' \in StoreType
    BY <1>0, <1>4, WithFacts DEF TypeOK, StoreType, Mark, Legacy, Review
  <2>2. /\ session' \in [Controller -> {"none", "ready", "consumed"}]
        /\ published' \in [Controller -> BOOLEAN]
        /\ lease' \in [Controller -> {"none", "session", "job", "recovery"}]
    BY <1>0 DEF VerifyFails, TypeOK, local
  <2> QED BY <1>0, <1>2, <1>3, <2>1, <2>2, TypeStep DEF TypeOK, Failed
<1>6. MarksInv' /\ InputInv'
  BY <1>0, <1>3, <1>4 DEF IInv, MarksInv, InputInv, With, Has, TypeOK
<1>7. SessionInv'
  BY <1>0, <1>1, <1>2, <1>3, <1>4 DEF VerifyFails, IInv, MarksInv, SessionInv, With, Has,
    Others, Failed, local, TypeOK, Slot, RoadOf, Attempt, JobType, Road
<1>8. RoadOf(k, s)' /\ StageOf(k, s)'
  BY <1>0, <1>1, <1>2, <1>3, <1>4 DEF VerifyFails, IInv, MarksInv, InputInv, RoadOf, StageOf,
    Active, With, Has, TypeOK, Attempt, local, Failed
<1>9. Quiet(k, s)
  BY <1>0, <1>1, <1>2, <1>3, <1>4 DEF VerifyFails, Quiet, With, Has, TypeOK, local, Active,
    Attempt, RoadOf, Failed
<1> QED BY <1>0, <1>2, <1>5, <1>6, <1>7, <1>8, <1>9, Frame DEF Failed

LEMMA FinishKeeps ==
  ASSUME IInv, NEW k \in Controller, NEW s \in Slot, Finish(k, s)
  PROVE  IInv'
<1>0. TypeOK /\ s \in Slot /\ job[k][s] \in JobType /\ RoadOf(k, s) /\ StageOf(k, s)
  BY DEF IInv, CallsInv, TypeOK, JobType, Slot
<1>1. job[k][s].at \in {"end", "done"} /\ job[k][s].road \in {"claim", "resume", "recheck"}
  BY <1>0 DEF Finish, Free
<1>2. Others(k, s) /\ job'[k][s].at = "idle"
  BY <1>0, RestFacts DEF Finish
<1>3. UNCHANGED <<expired, inputs, boot, faults>>
  BY DEF Finish, local
<1>4. store' = store
  BY DEF Finish, Read
<1>5. TypeOK'
  <2>1. store' \in StoreType
    BY <1>0, <1>4, WithFacts DEF TypeOK, StoreType, Mark, Legacy, Review
  <2>2. /\ session' \in [Controller -> {"none", "ready", "consumed"}]
        /\ published' \in [Controller -> BOOLEAN]
        /\ lease' \in [Controller -> {"none", "session", "job", "recovery"}]
    BY <1>0 DEF Finish, TypeOK, local
  <2> QED BY <1>0, <1>2, <1>3, <2>1, <2>2, TypeStep DEF TypeOK, Failed
<1>6. MarksInv' /\ InputInv'
  BY <1>0, <1>3, <1>4 DEF IInv, MarksInv, InputInv, With, Has, TypeOK
<1>7. SessionInv'
  BY <1>0, <1>1, <1>2, <1>3, <1>4 DEF Finish, IInv, MarksInv, SessionInv, With, Has, Others,
    Failed, local, TypeOK, Slot, RoadOf, Attempt, JobType, Road
<1>8. RoadOf(k, s)' /\ StageOf(k, s)'
  BY <1>0, <1>1, <1>2, <1>3, <1>4 DEF Finish, IInv, MarksInv, InputInv, RoadOf, StageOf,
    Active, With, Has, TypeOK, Attempt, local, Failed
<1>9. Quiet(k, s)
  BY <1>0, <1>1, <1>2, <1>3, <1>4 DEF Finish, Quiet, With, Has, TypeOK, local, Active, Attempt,
    RoadOf, Failed
<1> QED BY <1>0, <1>2, <1>5, <1>6, <1>7, <1>8, <1>9, Frame DEF Failed
-----------------------------------------------------------------------------
(* The review: its decision, its publication and its close.                 *)

\* What the writes of a review leave alone: the dispatch, the consume, the
\* receipt and the confirmation by identity.
ReviewWrite ==
  /\ store' \in StoreType
  /\ store.marks \subseteq store'.marks
  /\ store'.marks \subseteq store.marks \cup {"g_request", "g_closed"}
  /\ store'.receipt = store.receipt /\ store'.decision = store.decision
  /\ Has(store, "g_request")' => Has(store, "g_request") \/ ~Has(store, "request")

LEMMA ReviewKeeps ==
  ASSUME IInv, NEW k \in Controller, ReviewWrite, MarksInv',
         published[k] \/ Has(store, "g_request"),
         UNCHANGED <<expired, inputs, local>>, faults' \in 0 .. MaxFault,
         Others(k, "locked"), "locked" \in Slot, RoadOf(k, "locked")', StageOf(k, "locked")',
         Active(k, "locked")' => Active(k, "locked")
  PROVE  IInv'
<1>1. TypeOK'
  BY TypeStep DEF IInv, TypeOK, ReviewWrite, local
<1>2. InputInv'
  BY DEF IInv, InputInv, ReviewWrite, Has
<1>3. SessionInv'
  BY DEF IInv, SessionInv, MarksInv, ReviewWrite, Has, Others, local, TypeOK, Slot
<1>4. Has(store, "g_request") \/ job[Creator]["free"].at = "idle"
  BY DEF IInv, SessionInv
<1>5. Quiet(k, "locked")
  BY <1>4 DEF Quiet, ReviewWrite, Has, local
<1> QED BY <1>1, <1>2, <1>3, <1>5, Frame

LEMMA JudgeFacts ==
  ASSUME TypeOK, MarksInv, NEW k \in Controller, NEW d \in {"approved", "denied"},
         store' = store \/ (CanJudge(store, d) /\ store' = AfterJudge(store, d, k))
  PROVE  ReviewWrite /\ MarksInv'
<1>1. CASE store' = store
  BY <1>1 DEF ReviewWrite, MarksInv, TypeOK, StoreType, Has
<1>2. CASE CanJudge(store, d) /\ store' = AfterJudge(store, d, k)
  <2>1. \/ store' = store
        \/ store' = With(store, {"g_closed"})
        \/ store' = [store EXCEPT !.review = d]
    BY <1>2 DEF AfterJudge, CanJudge, TypeOK, Decision, Has
  <2>2. Has(store, "g_request") /\ ~Has(store, "g_consume") /\ ~Has(store, "dispatch")
    BY <1>2 DEF CanJudge, Legacy, Has
  <2>3. ReviewWrite
    <3>1. "g_closed" \in Mark /\ d \in Decision
      BY DEF Mark, Review, Decision
    <3>2. CASE store' = With(store, {"g_closed"})
      BY <2>2, <3>1, <3>2, WithFacts DEF ReviewWrite, Has
    <3>3. CASE store' = [store EXCEPT !.review = d]
      BY <2>2, <3>1, <3>3 DEF ReviewWrite, Has, TypeOK, StoreType
    <3> QED BY <2>1, <3>2, <3>3, <2>2 DEF ReviewWrite, Has, TypeOK, StoreType
  <2>4. MarksInv'
    BY <2>1, <2>2 DEF MarksInv, TypeOK, With, Has
  <2> QED BY <2>3, <2>4
<1> QED BY <1>1, <1>2

LEMMA FaultFacts ==
  ASSUME TypeOK, faults' = faults \/ (faults < MaxFault /\ faults' = faults + 1)
  PROVE  faults' \in 0 .. MaxFault
  BY ConstantsAssumption DEF TypeOK

LEMMA JudgeKeeps ==
  ASSUME IInv, NEW k \in Controller, NEW d \in {"approved", "denied"}, Judge(k, d)
  PROVE  IInv'
<1>0. TypeOK /\ MarksInv /\ "locked" \in Slot /\ RoadOf(k, "locked") /\ StageOf(k, "locked")
  BY DEF IInv, CallsInv, Slot
<1>1. published[k] /\ UNCHANGED <<expired, inputs, local>> /\ job[k]["locked"].at = "idle"
  BY DEF Judge, Free
<1>2. ReviewWrite /\ MarksInv'
  <2>1. store' = store \/ (CanJudge(store, d) /\ store' = AfterJudge(store, d, k))
    BY DEF Judge, Raise
  <2> QED BY <1>0, <2>1, JudgeFacts
<1>3. faults' \in 0 .. MaxFault
  <2>1. faults' = faults \/ (faults < MaxFault /\ faults' = faults + 1)
    BY DEF Judge, Raise
  <2> QED BY <1>0, <2>1, FaultFacts
<1>4. /\ Others(k, "locked") /\ job'[k]["locked"].at \in {"idle", "release"}
      /\ job'[k]["locked"].at = "release" => job'[k]["locked"].road = "grounded"
  <2>1. CASE UNCHANGED job
    BY <1>0, <1>1, <2>1, StayFacts
  <2>2. CASE Start(k, "locked", AfterVerdict(AfterJudge(store, d, k)), "grounded")
    <3>1. /\ AfterVerdict(AfterJudge(store, d, k)) \in {"idle", "release"}
          /\ "idle" \in Place /\ "release" \in Place /\ "grounded" \in Road
      BY DEF AfterVerdict, Place, Road
    <3> QED BY <1>0, <2>2, <3>1, StartFacts
  <2> QED BY <2>1, <2>2 DEF Judge
<1>5. RoadOf(k, "locked")' /\ StageOf(k, "locked")' /\ ~Active(k, "locked")'
  BY <1>1, <1>4 DEF RoadOf, StageOf, Active, Attempt, local
<1> QED BY <1>0, <1>1, <1>2, <1>3, <1>4, <1>5, ReviewKeeps

LEMMA ConsumeKeeps ==
  ASSUME IInv, NEW k \in Controller, Consume(k)
  PROVE  IInv'
<1>0. TypeOK /\ MarksInv /\ "locked" \in Slot /\ RoadOf(k, "locked") /\ StageOf(k, "locked")
  BY DEF IInv, CallsInv, Slot
<1>1. published[k] /\ UNCHANGED <<expired, inputs, local>> /\ job[k]["locked"].at = "idle"
  BY DEF Consume, Free
<1>2. ReviewWrite /\ MarksInv'
  <2>1. store' = store \/ (CanJudge(store, "approved") /\ store' = AfterJudge(store, "approved", k))
    BY DEF Consume, Raise
  <2> QED BY <1>0, <2>1, JudgeFacts
<1>3. faults' \in 0 .. MaxFault
  <2>1. faults' = faults \/ (faults < MaxFault /\ faults' = faults + 1)
    BY DEF Consume, Raise
  <2> QED BY <1>0, <2>1, FaultFacts
<1>4. /\ Others(k, "locked") /\ job'[k]["locked"].at \in {"idle", "release", "preview"}
      /\ job'[k]["locked"].at # "idle" => job'[k]["locked"].road = "grounded"
  <2>1. CASE UNCHANGED job
    BY <1>0, <1>1, <2>1, StayFacts
  <2>2. CASE \E at \in {"release", "preview"} : Start(k, "locked", at, "grounded")
    <3>1. {"release", "preview"} \subseteq Place /\ "grounded" \in Road
      BY DEF Place, Road
    <3> QED BY <1>0, <2>2, <3>1, StartFacts
  <2> QED BY <2>1, <2>2 DEF Consume
<1>5. RoadOf(k, "locked")' /\ StageOf(k, "locked")' /\ ~Active(k, "locked")'
  BY <1>1, <1>4 DEF RoadOf, StageOf, Active, Attempt, local
<1> QED BY <1>0, <1>1, <1>2, <1>3, <1>4, <1>5, ReviewKeeps

LEMMA ReviewFacts ==
  ASSUME TypeOK, MarksInv, CanReview(store), NEW k \in Controller
  PROVE  LET st == AfterReview(store, k) IN
         /\ st \in StoreType /\ With(st, {"g_closed"}) \in StoreType
         /\ st.marks = store.marks \cup {"g_request"}
         /\ With(st, {"g_closed"}).marks = store.marks \cup {"g_request", "g_closed"}
         /\ st.review = store.review /\ With(st, {"g_closed"}).review = store.review
         /\ st.receipt = store.receipt /\ With(st, {"g_closed"}).receipt = store.receipt
         /\ st.decision = store.decision /\ With(st, {"g_closed"}).decision = store.decision
<1>1. <<k, boot[k]>> \in Owner
  BY DEF TypeOK, Owner
<1>2. store \in StoreType /\ {"g_request", "g_closed"} \subseteq Mark
  BY DEF TypeOK, StoreType, Mark, Review
<1>3. CASE Has(store, "g_request")
  BY <1>2, <1>3 DEF AfterReview, With, Has, StoreType
<1>4. CASE ~Has(store, "g_request")
  <2>1. AfterReview(store, k) = [marks |-> store.marks \cup {"g_request"}, decision |-> store.decision,
                                 review |-> store.review, owner |-> <<k, boot[k]>>,
                                 receipt |-> store.receipt]
    BY <1>2, <1>4 DEF AfterReview, With, StoreType
  <2> QED BY <1>1, <1>2, <2>1 DEF With, StoreType
<1> QED BY <1>3, <1>4

LEMMA OpenFacts ==
  ASSUME TypeOK, MarksInv, NEW k \in Controller, CanReview(store),
         store' = AfterReview(store, k) \/ store' = With(AfterReview(store, k), {"g_closed"})
  PROVE  ReviewWrite /\ MarksInv'
<1>1. /\ ~Has(store, "g_consume") /\ ~Has(store, "request") /\ ~Has(store, "dispatch")
      /\ Has(store, "claim") /\ ~Has(store, "resume") /\ ~Has(store, "closed")
  BY DEF CanReview, Legacy, Has
<1>2. /\ store' \in StoreType
      /\ store'.marks \in {store.marks \cup {"g_request"}, store.marks \cup {"g_request", "g_closed"}}
      /\ store'.review = store.review /\ store'.receipt = store.receipt
      /\ store'.decision = store.decision
  BY ReviewFacts
<1>3. ReviewWrite
  BY <1>1, <1>2 DEF ReviewWrite, Has
<1>4. MarksInv'
  BY <1>1, <1>2 DEF MarksInv, Has
<1> QED BY <1>3, <1>4

LEMMA CancelKeeps ==
  ASSUME IInv, NEW k \in Controller, Cancel(k)
  PROVE  IInv'
<1>0. TypeOK /\ MarksInv /\ "locked" \in Slot /\ RoadOf(k, "locked") /\ StageOf(k, "locked")
  BY DEF IInv, CallsInv, Slot
<1>1. published[k] /\ UNCHANGED <<expired, inputs, local>>
  BY DEF Cancel
<1>2. ReviewWrite /\ MarksInv'
  <2>1. store' = store \/ (CanCancel(store, k) /\ store' = AfterCancel(store, k))
    BY DEF Cancel, Raise
  <2>2. CASE store' = store
    BY <1>0, <2>2 DEF ReviewWrite, MarksInv, TypeOK, StoreType, Has
  <2>3. CASE CanReview(store) /\ store' = With(AfterReview(store, k), {"g_closed"})
    BY <1>0, <2>3, OpenFacts
  <2> QED BY <2>1, <2>2, <2>3 DEF CanCancel, AfterCancel
<1>3. faults' \in 0 .. MaxFault
  <2>1. faults' = faults \/ (faults < MaxFault /\ faults' = faults + 1)
    BY DEF Cancel, Raise
  <2> QED BY <1>0, <2>1, FaultFacts
<1>4. /\ Others(k, "locked") /\ job'[k]["locked"].at \in {"idle", "release"}
      /\ job'[k]["locked"].at = "release" => job'[k]["locked"].road = "grounded"
  <2>1. CASE Rest(k, "locked")
    BY <1>0, <2>1, RestFacts
  <2>2. CASE Start(k, "locked", "release", "grounded")
    <3>1. "release" \in Place /\ "grounded" \in Road
      BY DEF Place, Road
    <3> QED BY <1>0, <2>2, <3>1, StartFacts
  <2> QED BY <2>1, <2>2 DEF Cancel
<1>5. RoadOf(k, "locked")' /\ StageOf(k, "locked")' /\ ~Active(k, "locked")'
  BY <1>1, <1>4 DEF RoadOf, StageOf, Active, Attempt, local
<1> QED BY <1>0, <1>1, <1>2, <1>3, <1>4, <1>5, ReviewKeeps

LEMMA PublishReviewKeeps ==
  ASSUME IInv, NEW k \in Controller, PublishReview(k)
  PROVE  IInv'
<1>0. /\ TypeOK /\ MarksInv /\ "locked" \in Slot /\ RoadOf(k, "locked") /\ StageOf(k, "locked")
      /\ job[k]["locked"] \in JobType
  BY DEF IInv, CallsInv, Slot, TypeOK, JobType
<1>1. job[k]["locked"].at = "review" /\ UNCHANGED <<expired, inputs, local>>
  BY DEF PublishReview
<1>2. published[k] /\ job[k]["locked"].road = "grounded"
  BY <1>0, <1>1 DEF RoadOf, Attempt, JobType, Road
<1>3. ReviewWrite /\ MarksInv'
  <2>1. store' = store \/ (CanReview(store) /\ store' = AfterReview(store, k))
    BY DEF PublishReview, Step, Raise
  <2>2. CASE store' = store
    BY <1>0, <2>2 DEF ReviewWrite, MarksInv, TypeOK, StoreType, Has
  <2>3. CASE CanReview(store) /\ store' = AfterReview(store, k)
    BY <1>0, <2>3, OpenFacts
  <2> QED BY <2>1, <2>2, <2>3
<1>4. faults' \in 0 .. MaxFault
  <2>1. faults' = faults \/ (faults < MaxFault /\ faults' = faults + 1)
    BY DEF PublishReview, Step, Raise
  <2> QED BY <1>0, <2>1, FaultFacts
<1>5. /\ Others(k, "locked") /\ job'[k]["locked"].at \in {"idle", "release"}
      /\ job'[k]["locked"].at = "release" => job'[k]["locked"].road = "grounded"
  <2>1. CASE Go(k, "locked", AfterVerdict(AfterReview(store, k)))
    <3>1. /\ AfterVerdict(AfterReview(store, k)) \in {"idle", "release"}
          /\ "idle" \in Place /\ "release" \in Place
      BY DEF AfterVerdict, Place
    <3> QED BY <1>0, <1>2, <2>1, <3>1, GoFacts
  <2>2. CASE Go(k, "locked", Failure(job[k]["locked"].road))
    BY <1>0, <1>2, <2>2, FailFacts DEF Failed
  <2> QED BY <2>1, <2>2 DEF PublishReview, Step
<1>6. RoadOf(k, "locked")' /\ StageOf(k, "locked")' /\ ~Active(k, "locked")'
  BY <1>1, <1>2, <1>5 DEF RoadOf, StageOf, Active, Attempt, local
<1> QED BY <1>0, <1>1, <1>2, <1>3, <1>4, <1>5, <1>6, ReviewKeeps
-----------------------------------------------------------------------------
(* The other calls, time and death.                                         *)

LEMMA CloseElsewhereKeeps ==
  ASSUME IInv, NEW k \in Controller, CloseElsewhere(k)
  PROVE  IInv'
<1>0. TypeOK /\ MarksInv /\ "locked" \in Slot /\ RoadOf(k, "locked") /\ StageOf(k, "locked")
  BY DEF IInv, CallsInv, Slot
<1>1. /\ Has(store, "g_request") /\ job[k]["locked"].at = "idle"
      /\ UNCHANGED <<expired, inputs, local, job>>
  BY DEF CloseElsewhere, Free
<1>2. ReviewWrite /\ MarksInv'
  <2>1. store' = store \/ (CanCloseReview(store) /\ store' = With(store, {"g_closed"}))
    BY DEF CloseElsewhere, Call, Raise
  <2>2. CASE store' = store
    BY <1>0, <2>2 DEF ReviewWrite, MarksInv, TypeOK, StoreType, Has
  <2>3. CASE CanCloseReview(store) /\ store' = With(store, {"g_closed"})
    <3>1. "g_closed" \in Mark /\ ~Has(store, "g_consume") /\ ~Has(store, "dispatch")
      BY <2>3 DEF Mark, Review, CanCloseReview, Legacy, Has
    <3>2. ReviewWrite
      BY <1>0, <1>1, <2>3, <3>1, WithFacts DEF ReviewWrite, Has
    <3>3. MarksInv'
      BY <1>0, <1>1, <2>3, <3>1, WithFacts DEF MarksInv, Has
    <3> QED BY <3>2, <3>3
  <2> QED BY <2>1, <2>2, <2>3
<1>3. faults' \in 0 .. MaxFault
  <2>1. faults' = faults \/ (faults < MaxFault /\ faults' = faults + 1)
    BY DEF CloseElsewhere, Call, Raise
  <2> QED BY <1>0, <2>1, FaultFacts
<1>4. Others(k, "locked") /\ job'[k]["locked"].at = "idle"
  BY <1>0, <1>1, StayFacts
<1>5. RoadOf(k, "locked")' /\ StageOf(k, "locked")' /\ ~Active(k, "locked")'
  BY <1>4 DEF RoadOf, StageOf, Active, Attempt
<1> QED BY <1>0, <1>1, <1>2, <1>3, <1>4, <1>5, ReviewKeeps

LEMMA DecideKeeps ==
  ASSUME IInv, NEW d \in {"approved", "denied"}, Decide(d)
  PROVE  IInv'
<1>0. /\ TypeOK /\ MarksInv /\ Creator \in Controller /\ "locked" \in Slot
      /\ RoadOf(Creator, "locked") /\ StageOf(Creator, "locked")
  BY ConstantsAssumption DEF IInv, CallsInv, Slot
<1>1. UNCHANGED <<expired, inputs, local, job>>
  BY DEF Decide
<1>2. \/ store' = store
      \/ /\ Has(store, "request") /\ ~Has(store, "closed") /\ ~Has(store, "resume")
         /\ store' = With(store, {"closed"}) \/ store' = [store EXCEPT !.decision = d]
  BY <1>0 DEF Decide, Call, Raise, CanDecide, AfterDecide, Has
<1>3. faults' \in 0 .. MaxFault
  <2>1. faults' = faults \/ (faults < MaxFault /\ faults' = faults + 1)
    BY DEF Decide, Call, Raise
  <2> QED BY <1>0, <2>1, FaultFacts
<1>4. /\ store' \in StoreType /\ store.marks \subseteq store'.marks
      /\ store'.marks \subseteq store.marks \cup {"closed"}
      /\ store'.receipt = store.receipt
  <2>1. "closed" \in Mark /\ d \in Decision
    BY DEF Mark, Legacy, Decision
  <2>2. CASE store' = With(store, {"closed"})
    BY <1>0, <2>1, <2>2, WithFacts
  <2>3. CASE store' = [store EXCEPT !.decision = d] \/ store' = store
    BY <1>0, <2>1, <2>3 DEF TypeOK, StoreType
  <2> QED BY <1>2, <2>2, <2>3
<1>5. Others(Creator, "locked") /\ job'[Creator]["locked"] = job[Creator]["locked"]
  BY <1>0, <1>1, StayFacts
<1>6. TypeOK'
  BY <1>0, <1>1, <1>3, <1>4, <1>5, TypeStep DEF TypeOK, local
<1>7. MarksInv'
  BY <1>0, <1>2 DEF MarksInv, With, Has, TypeOK
<1>8. InputInv'
  BY <1>1, <1>4 DEF IInv, InputInv, Has
<1>9. SessionInv'
  BY <1>0, <1>1, <1>2, <1>4 DEF IInv, SessionInv, MarksInv, Has, local
<1>10. RoadOf(Creator, "locked")' /\ StageOf(Creator, "locked")'
  BY <1>0, <1>1, <1>4, <1>5 DEF RoadOf, StageOf, Has, local, Active
<1>11. Quiet(Creator, "locked")
  BY <1>1, <1>4, <1>5 DEF Quiet, Has, local, Active
<1> QED BY <1>0, <1>5, <1>6, <1>7, <1>8, <1>9, <1>10, <1>11, Frame

LEMMA ExpireKeeps ==
  ASSUME IInv, Expire
  PROVE  IInv'
<1>1. UNCHANGED <<store, inputs, local, job, faults>> /\ expired' \in BOOLEAN
  BY DEF Expire
<1>2. TypeOK' /\ MarksInv' /\ InputInv' /\ SessionInv'
  BY <1>1 DEF IInv, TypeOK, MarksInv, InputInv, SessionInv, Has, local
<1>3. CallsInv' /\ OneActive'
  BY <1>1 DEF IInv, CallsInv, RoadOf, StageOf, OneActive, Active, Has, local
<1> QED BY <1>2, <1>3 DEF IInv

LEMMA SubmitNewKeeps ==
  ASSUME IInv, NEW k \in Controller, SubmitNew(k)
  PROVE  IInv'
<1>0. TypeOK /\ MarksInv /\ "free" \in Slot /\ RoadOf(k, "free") /\ StageOf(k, "free")
  BY DEF IInv, CallsInv, Slot
<1>1. /\ session[k] = "ready" /\ ~published[k] /\ ~Has(store, "claim")
      /\ store.marks = {} /\ k = Creator
      /\ UNCHANGED <<expired, inputs, boot, published>>
      /\ store' = store \/ store' = With(store, {"claim"})
  BY DEF SubmitNew, IInv, MarksInv, SessionInv, Has
<1>2. \A l \in Controller, t \in Slot : ~Active(l, t)
  BY <1>1 DEF IInv, CallsInv, RoadOf, Active, Attempt, Has
<1>3. job[k]["free"].at = "idle"
  <2>1. job[k]["free"].road \in Road
    BY <1>0 DEF TypeOK
  <2> QED BY <1>0, <1>1, <2>1 DEF RoadOf, Road, Has
<1>4. /\ Others(k, "free")
      /\ \/ job'[k]["free"].at = "idle"
         \/ /\ job'[k]["free"].at = "execute" /\ job'[k]["free"].road = "claim"
            /\ store' = With(store, {"claim"}) /\ session'[k] = "consumed"
  <2>1. CASE UNCHANGED job
    BY <1>0, <1>3, <2>1, StayFacts
  <2>2. CASE Start(k, "free", "execute", "claim") /\ store' = With(store, {"claim"})
             /\ session' = [session EXCEPT ![k] = "consumed"]
    <3>1. "execute" \in Place /\ "claim" \in Road
      BY DEF Place, Road
    <3>2. session'[k] = "consumed"
      BY <1>0, <2>2 DEF TypeOK
    <3> QED BY <1>0, <2>2, <3>1, <3>2, StartFacts
  <2> QED BY <2>1, <2>2 DEF SubmitNew
<1>5. faults' \in 0 .. MaxFault
  <2>1. faults' = faults \/ (faults < MaxFault /\ faults' = faults + 1)
    BY DEF SubmitNew
  <2> QED BY <1>0, <2>1, FaultFacts
<1>6. /\ store' \in StoreType /\ store.marks \subseteq store'.marks
      /\ store'.marks \subseteq {"claim"} /\ store'.receipt = store.receipt
      /\ store'.decision = store.decision /\ store'.review = store.review
  <2>1. "claim" \in Mark
    BY DEF Mark
  <2> QED BY <1>0, <1>1, <2>1, WithFacts DEF TypeOK, StoreType
<1>7. /\ session' \in [Controller -> {"none", "ready", "consumed"}]
      /\ lease' \in [Controller -> {"none", "session", "job", "recovery"}]
      /\ \A l \in Controller : session'[l] = "ready" => session[l] = "ready"
      /\ store' # store => session'[k] = "consumed"
  BY <1>0 DEF SubmitNew, TypeOK
<1>8. TypeOK'
  BY <1>0, <1>1, <1>4, <1>5, <1>6, <1>7, TypeStep DEF TypeOK
<1>9. MarksInv' /\ InputInv'
  BY <1>0, <1>1, <1>6 DEF IInv, MarksInv, InputInv, Has
<1>10. SessionInv'
  BY <1>0, <1>1, <1>4, <1>6, <1>7 DEF IInv, SessionInv, Has, Others, Slot
<1>11. RoadOf(k, "free")' /\ StageOf(k, "free")'
  BY <1>1, <1>4, <1>6, WithFacts, <1>0 DEF RoadOf, StageOf, Active, Attempt, Has, Mark
<1>12. Quiet(k, "free")
  BY <1>1, <1>2, <1>6, <1>7 DEF Quiet, Has
<1> QED BY <1>0, <1>4, <1>8, <1>9, <1>10, <1>11, <1>12, Frame
\* A confirmation that was not resumed has no call that may attempt the action.
LEMMA NobodyResumed ==
  ASSUME IInv, Has(store, "request"), ~Has(store, "resume"),
         NEW l \in Controller, NEW t \in Slot
  PROVE  ~Active(l, t)
  BY DEF IInv, CallsInv, RoadOf, MarksInv, Has, Active, Attempt

LEMMA ResumeKeeps ==
  ASSUME IInv, NEW k \in Controller, Resume(k)
  PROVE  IInv'
<1>0. /\ TypeOK /\ MarksInv /\ "locked" \in Slot /\ RoadOf(k, "locked") /\ StageOf(k, "locked")
      /\ job[k]["locked"] \in JobType
  BY DEF IInv, CallsInv, Slot, TypeOK, JobType
<1>1. /\ job[k]["locked"].at = "approved" /\ UNCHANGED <<expired, inputs, boot, session, published>>
      /\ lease' \in [Controller -> {"none", "session", "job", "recovery"}]
  BY <1>0 DEF Resume, TypeOK
<1>2. job[k]["locked"].road = "resume"
  BY <1>0, <1>1 DEF RoadOf, Attempt, JobType, Road
<1>3. /\ store' = store \/ (CanResume(store) /\ store' = AfterResume(store))
      /\ faults' = faults \/ (faults < MaxFault /\ faults' = faults + 1)
  BY DEF Resume, Step, Raise
<1>4. \/ store' = store
      \/ /\ Has(store, "request") /\ ~Has(store, "closed") /\ ~Has(store, "resume")
         /\ store.decision = "approved"
         /\ store' = With(store, {"closed"}) \/ store' = With(store, {"resume"})
  BY <1>0, <1>3 DEF CanResume, AfterResume, MarksInv, Has
<1>5. \/ job'[k]["locked"].at \in {"idle", "end"}
      \/ /\ job'[k]["locked"].at = "execute"
         /\ Has(store, "request") /\ ~Has(store, "resume")
         /\ store' = With(store, {"resume"})
  <2>1. CASE Rest(k, "locked")
    BY <1>0, <2>1, RestFacts
  <2>2. CASE Go(k, "locked", Failure(job[k]["locked"].road))
    BY <1>0, <2>2, FailFacts DEF Failed
  <2>3. CASE /\ CanResume(store) /\ store' = AfterResume(store)
             /\ Go(k, "locked", IF Has(AfterResume(store), "closed") THEN "end" ELSE "execute")
    <3>1. "end" \in Place /\ "execute" \in Place /\ "closed" \in Mark
      BY DEF Place, Mark, Legacy
    <3>2. CASE Has(AfterResume(store), "closed")
      BY <1>0, <2>3, <3>1, <3>2, GoFacts
    <3>3. CASE ~Has(AfterResume(store), "closed")
      <4>1. ~Has(store, "closed") /\ ~expired
        BY <1>0, <3>1, <3>3, WithFacts DEF AfterResume, Has, TypeOK
      <4>2. AfterResume(store) = With(store, {"resume"}) /\ ~Has(store, "resume")
        BY <2>3, <4>1 DEF AfterResume, CanResume
      <4>3. Has(store, "request")
        BY <1>0, <2>3 DEF CanResume, MarksInv
      <4> QED BY <1>0, <2>3, <3>1, <3>3, <4>2, <4>3, GoFacts
    <3> QED BY <3>2, <3>3
  <2> QED BY <2>1, <2>2, <2>3 DEF Resume, Step
<1>6. Others(k, "locked") /\ (job'[k]["locked"].at # "idle" => job'[k]["locked"].road = "resume")
  <2>1. CASE Rest(k, "locked")
    BY <1>0, <2>1, RestFacts
  <2>2. CASE Go(k, "locked", Failure(job[k]["locked"].road))
    BY <1>0, <1>2, <2>2, FailFacts DEF Failed
  <2>3. CASE \E at \in {"end", "execute"} : Go(k, "locked", at)
    <3>1. {"end", "execute"} \subseteq Place
      BY DEF Place
    <3> QED BY <1>0, <1>2, <2>3, <3>1, GoFacts
  <2> QED BY <2>1, <2>2, <2>3 DEF Resume, Step
<1>7. faults' \in 0 .. MaxFault
  BY <1>0, <1>3, FaultFacts
<1>8. store' \in StoreType
  BY <1>0, <1>4, WithFacts DEF TypeOK, StoreType, Mark, Legacy
<1>9. TypeOK'
  BY <1>0, <1>1, <1>6, <1>7, <1>8, TypeStep DEF TypeOK
<1>10. MarksInv' /\ InputInv'
  BY <1>0, <1>1, <1>4 DEF IInv, MarksInv, InputInv, With, Has, TypeOK
<1>11. SessionInv'
  BY <1>0, <1>1, <1>4, <1>6 DEF IInv, SessionInv, MarksInv, With, Has, TypeOK, Others, Slot
<1>12. RoadOf(k, "locked")' /\ StageOf(k, "locked")'
  BY <1>0, <1>1, <1>4, <1>5, <1>6 DEF RoadOf, StageOf, MarksInv, With, Has, TypeOK, Active,
    Attempt
<1>13. Active(k, "locked")' => \A l \in Controller, t \in Slot : ~Active(l, t)
  BY <1>5, NobodyResumed DEF Active, Attempt
<1>14. Quiet(k, "locked")
  BY <1>0, <1>1, <1>4, <1>13 DEF Quiet, With, Has, TypeOK
<1> QED BY <1>0, <1>6, <1>9, <1>10, <1>11, <1>12, <1>14, Frame

\* A step of a call that only moves it, with what it knows.
LEMMA MoveKeeps ==
  ASSUME IInv, NEW k \in Controller, NEW s \in Slot, Others(k, s),
         UNCHANGED <<store, expired, inputs, local, faults>>,
         RoadOf(k, s)', StageOf(k, s)', Active(k, s)' => Active(k, s),
         s = "free" /\ job[k][s].at = "idle" => job'[k][s].at = "idle"
  PROVE  IInv'
<1>1. TypeOK'
  BY TypeStep DEF IInv, TypeOK, StoreType, local
<1>2. MarksInv' /\ InputInv'
  BY DEF IInv, MarksInv, InputInv, Has
<1>3. SessionInv'
  BY DEF IInv, SessionInv, Others, Has, local, Slot
<1>4. Quiet(k, s)
  BY DEF Quiet, Has, local
<1> QED BY <1>1, <1>2, <1>3, <1>4, Frame

LEMMA PreviewKeeps ==
  ASSUME IInv, NEW k \in Controller, Preview(k)
  PROVE  IInv'
<1>0. /\ TypeOK /\ "locked" \in Slot /\ RoadOf(k, "locked") /\ StageOf(k, "locked")
      /\ job[k]["locked"] \in JobType
  BY DEF IInv, CallsInv, Slot, TypeOK, JobType
<1>1. job[k]["locked"].at = "preview" /\ UNCHANGED <<store, expired, inputs, local, faults>>
  BY DEF Preview
<1>2. published[k] /\ job[k]["locked"].road = "grounded"
  BY <1>0, <1>1 DEF RoadOf, Attempt, JobType, Road
<1>3. /\ Others(k, "locked") /\ job'[k]["locked"].at \in {"idle", "consume"}
      /\ job'[k]["locked"].at = "consume" => job'[k]["locked"].road = "grounded"
  <2>1. "consume" \in Place
    BY DEF Place
  <2> QED BY <1>0, <1>2, <2>1, GoFacts, RestFacts DEF Preview
<1>4. RoadOf(k, "locked")' /\ StageOf(k, "locked")' /\ ~Active(k, "locked")'
  BY <1>1, <1>2, <1>3 DEF RoadOf, StageOf, Active, Attempt, local
<1> QED BY <1>0, <1>1, <1>3, <1>4, MoveKeeps

LEMMA ExecuteKeeps ==
  ASSUME IInv, NEW k \in Controller, NEW s \in Slot, Execute(k, s)
  PROVE  IInv'
<1>0. /\ TypeOK /\ RoadOf(k, s) /\ StageOf(k, s) /\ job[k][s] \in JobType
  BY DEF IInv, CallsInv, TypeOK, JobType
<1>1. job[k][s].at = "execute" /\ UNCHANGED <<store, expired, inputs, local, faults>>
  BY DEF Execute
<1>2. Active(k, s) /\ job[k][s].road \in {"claim", "resume"}
  BY <1>0, <1>1 DEF RoadOf, Active, Attempt, JobType, Road
<1>3. /\ Others(k, s) /\ job'[k][s].road = job[k][s].road
      /\ \/ job'[k][s].at \in {"end", "mark"}
         \/ job'[k][s].at = "persist" /\ job'[k][s].receipt = "blocked"
  <2>1. "end" \in Place /\ "mark" \in Place /\ "persist" \in Place /\ "blocked" \in Receipt
    BY DEF Place, Receipt
  <2>2. CASE Go(k, s, "end") \/ Go(k, s, "mark")
    BY <1>0, <2>1, <2>2, GoFacts
  <2>3. CASE job' = [job EXCEPT ![k][s].at = "persist", ![k][s].receipt = "blocked"]
    BY <1>0, <2>1, <2>3 DEF TypeOK, Others, JobType
  <2> QED BY <2>2, <2>3 DEF Execute
<1>4. RoadOf(k, s)' /\ StageOf(k, s)'
  BY <1>0, <1>1, <1>2, <1>3 DEF RoadOf, StageOf, Active, Attempt, Has, local
<1> QED BY <1>1, <1>2, <1>3, <1>4, MoveKeeps

LEMMA VerifyKeeps ==
  ASSUME IInv, NEW k \in Controller, NEW s \in Slot, Verify(k, s)
  PROVE  IInv'
<1>0. /\ TypeOK /\ RoadOf(k, s) /\ StageOf(k, s) /\ job[k][s] \in JobType
  BY DEF IInv, CallsInv, TypeOK, JobType
<1>1. job[k][s].at = "verify" /\ UNCHANGED <<store, expired, inputs, local, faults>>
  BY DEF Verify
<1>2. /\ Others(k, s) /\ job'[k][s].road = job[k][s].road
      /\ job'[k][s].at = "persist" /\ job'[k][s].receipt = "semantic"
  BY <1>0 DEF Verify, TypeOK, Others, JobType, Place, Receipt
<1>3. RoadOf(k, s)' /\ StageOf(k, s)' /\ (Active(k, s)' => Active(k, s))
  BY <1>0, <1>1, <1>2 DEF RoadOf, StageOf, Active, Attempt, Has, local
<1> QED BY <1>1, <1>2, <1>3, MoveKeeps

LEMMA DispatchKeeps ==
  ASSUME IInv, NEW k \in Controller, NEW s \in Slot, Dispatch(k, s)
  PROVE  IInv'
<1>0. /\ TypeOK /\ InputInv /\ RoadOf(k, s) /\ StageOf(k, s) /\ job[k][s] \in JobType
  BY DEF IInv, CallsInv, TypeOK, JobType
<1>1. job[k][s].at = "dispatch" /\ UNCHANGED <<store, expired, local, faults>>
  BY DEF Dispatch
<1>2. Active(k, s) /\ Has(store, "dispatch") /\ inputs = 0 /\ store.receipt = "none"
  BY <1>0, <1>1 DEF RoadOf, StageOf, Active, Attempt, JobType, Road
<1>3. PICK o \in BackendOutcome :
        /\ inputs' = inputs + o.sent
        /\ job' = [job EXCEPT ![k][s].at = o.at, ![k][s].receipt = o.receipt]
  BY DEF Dispatch
<1>4. /\ o.at \in Place /\ o.receipt \in Receipt
      /\ \/ o.at = "checkpoint" /\ o.sent = 1
         \/ o.at = "persist" /\ o.receipt = "failed" /\ o.sent = 0
         \/ o.at = "persist" /\ o.receipt = "lost" /\ o.sent \in {0, 1}
  BY DEF BackendOutcome, Place, Receipt
<1>5. /\ Others(k, s) /\ job'[k][s].road = job[k][s].road
      /\ job'[k][s].at = o.at /\ job'[k][s].receipt = o.receipt
  BY <1>0, <1>3, <1>4 DEF TypeOK, Others, JobType
<1>6. inputs' \in {0, 1} /\ inputs' = o.sent
  BY <1>2, <1>3, <1>4
<1>7. TypeOK'
  <2>1. inputs' \in Nat /\ store' \in StoreType
    BY <1>0, <1>1, <1>6 DEF TypeOK, StoreType
  <2> QED BY <1>0, <1>1, <1>5, <2>1, TypeStep DEF TypeOK, local
<1>8. MarksInv' /\ InputInv'
  BY <1>0, <1>1, <1>2, <1>6 DEF IInv, MarksInv, InputInv, Has
<1>9. SessionInv'
  BY <1>1, <1>5 DEF IInv, SessionInv, Others, Has, local, Slot
<1>10. RoadOf(k, s)' /\ StageOf(k, s)'
  BY <1>0, <1>1, <1>2, <1>4, <1>5, <1>6 DEF RoadOf, StageOf, Active, Attempt, Has, local
<1>11. Quiet(k, s)
  BY <1>1, <1>2 DEF Quiet, Has, local
<1> QED BY <1>5, <1>7, <1>8, <1>9, <1>10, <1>11, Frame

LEMMA PersistFacts ==
  ASSUME IInv, NEW k \in Controller, NEW s \in Slot, job[k][s].at = "persist",
         CanPersist(store, job[k][s].road, job[k][s].receipt)
  PROVE  /\ Active(k, s) \/ Has(store, "pending")
         /\ job[k][s].receipt \in Receipt
         /\ job[k][s].receipt = "blocked" => ~Has(store, "dispatch")
         /\ job[k][s].receipt = "failed" => inputs = 0
         /\ job[k][s].receipt = "semantic" => Has(store, "pending")
         /\ Received(store, job[k][s].receipt) \in StoreType
         /\ Received(store, job[k][s].receipt).marks = store.marks
         /\ Received(store, job[k][s].receipt).decision = store.decision
         /\ Received(store, job[k][s].receipt).review = store.review
         /\ Received(store, job[k][s].receipt).receipt = job[k][s].receipt
<1>1. TypeOK /\ RoadOf(k, s) /\ StageOf(k, s) /\ job[k][s] \in JobType
  BY DEF IInv, CallsInv, TypeOK, JobType
<1>2. job[k][s].receipt \in Receipt
  BY <1>1 DEF JobType
<1>3. /\ Received(store, job[k][s].receipt) \in StoreType
      /\ Received(store, job[k][s].receipt).marks = store.marks
      /\ Received(store, job[k][s].receipt).decision = store.decision
      /\ Received(store, job[k][s].receipt).review = store.review
      /\ Received(store, job[k][s].receipt).receipt = job[k][s].receipt
  BY <1>1, <1>2 DEF Received, TypeOK, StoreType
<1> QED BY <1>1, <1>2, <1>3 DEF StageOf, CanPersist

\* A receipt, with or without its terminal marker.
ReceiptWrite(k, s) ==
  /\ Active(k, s) \/ Has(store, "pending")
  /\ store' \in StoreType
  /\ store.marks \subseteq store'.marks /\ store'.marks \subseteq store.marks \cup {"terminal"}
  /\ store'.decision = store.decision /\ store'.review = store.review
  /\ store'.receipt = "blocked" => ~Has(store, "dispatch")
  /\ store'.receipt = "failed" => inputs = 0
  /\ store'.receipt = "semantic" => Has(store, "pending")
  /\ Has(store, "claim")

LEMMA ReceiptKeeps ==
  ASSUME IInv, NEW k \in Controller, NEW s \in Slot, ReceiptWrite(k, s), UNCHANGED inputs
  PROVE  MarksInv' /\ InputInv'
  BY DEF IInv, MarksInv, InputInv, ReceiptWrite, Has

LEMMA PersistKeeps ==
  ASSUME IInv, NEW k \in Controller, NEW s \in Slot, Persist(k, s)
  PROVE  IInv'
<1>0. /\ TypeOK /\ MarksInv /\ RoadOf(k, s) /\ StageOf(k, s) /\ job[k][s] \in JobType
  BY DEF IInv, CallsInv, TypeOK, JobType
<1>1. job[k][s].at = "persist" /\ UNCHANGED <<expired, inputs, local>>
  BY DEF Persist
<1>2. /\ \/ store' = store
         \/ /\ CanPersist(store, job[k][s].road, job[k][s].receipt)
            /\ store' = With(Received(store, job[k][s].receipt), {"terminal"})
      /\ Go(k, s, "done") \/ Go(k, s, Failure(job[k][s].road))
      /\ faults' = faults \/ (faults < MaxFault /\ faults' = faults + 1)
  BY DEF Persist, Step, Raise
<1>3. /\ Others(k, s)
      /\ \/ job'[k][s].at \in {"done", "end"} /\ job'[k][s].road = job[k][s].road
         \/ job'[k][s].at = "idle"
      /\ job'[k][s].at = "end" => job[k][s].road # "grounded"
  <2>1. CASE Go(k, s, "done")
    <3>1. "done" \in Place
      BY DEF Place
    <3> QED BY <1>0, <2>1, <3>1, GoFacts
  <2>2. CASE Go(k, s, Failure(job[k][s].road))
    BY <1>0, <2>2, FailFacts DEF Failed
  <2> QED BY <1>2, <2>1, <2>2
<1>4. faults' \in 0 .. MaxFault
  BY <1>0, <1>2, FaultFacts
<1>5. CASE store' = store
  <2>1. RoadOf(k, s)' /\ StageOf(k, s)' /\ ~Active(k, s)'
    BY <1>0, <1>1, <1>3, <1>5 DEF RoadOf, StageOf, Active, Attempt, Has, local
  <2>2. TypeOK'
    BY <1>0, <1>1, <1>3, <1>4, <1>5, TypeStep DEF TypeOK, StoreType, local
  <2>3. MarksInv' /\ InputInv'
    BY <1>1, <1>5 DEF IInv, MarksInv, InputInv, Has
  <2>4. SessionInv'
    BY <1>1, <1>3, <1>5 DEF IInv, SessionInv, Others, Has, local, Slot
  <2>5. Quiet(k, s)
    BY <1>1, <1>5, <2>1 DEF Quiet, Has, local
  <2> QED BY <1>3, <2>1, <2>2, <2>3, <2>4, <2>5, Frame
<1>6. CASE /\ CanPersist(store, job[k][s].road, job[k][s].receipt)
           /\ store' = With(Received(store, job[k][s].receipt), {"terminal"})
  <2>1. Has(store, "claim")
    BY <1>0, <1>1 DEF RoadOf, StageOf, JobType, Road, Active, MarksInv, Has
  <2>2. ReceiptWrite(k, s)
    <3>1. "terminal" \in Mark
      BY DEF Mark, Legacy
    <3> QED BY <1>1, <1>6, <2>1, <3>1, PersistFacts DEF ReceiptWrite, With, StoreType
  <2>3. RoadOf(k, s)' /\ StageOf(k, s)' /\ ~Active(k, s)'
    BY <1>0, <1>1, <1>3, <2>2 DEF RoadOf, StageOf, Active, Attempt, Has, local, ReceiptWrite
  <2>4. TypeOK'
    BY <1>0, <1>1, <1>3, <1>4, <2>2, TypeStep DEF TypeOK, local, ReceiptWrite
  <2>5. MarksInv' /\ InputInv'
    BY <1>1, <2>2, ReceiptKeeps
  <2>6. SessionInv'
    BY <1>1, <1>3, <2>2 DEF IInv, SessionInv, Others, Has, local, Slot, ReceiptWrite
  <2>7. Quiet(k, s)
    BY <1>1, <2>2, <2>3 DEF Quiet, Has, local, ReceiptWrite
  <2> QED BY <1>3, <2>3, <2>4, <2>5, <2>6, <2>7, Frame
<1> QED BY <1>2, <1>5, <1>6

\* A process dies: its calls are gone, the others go on.
LEMMA DieKeeps ==
  ASSUME IInv, NEW k \in Controller, Die(k), store' \in StoreType, MarksInv', InputInv',
         store'.marks = store.marks,
         store'.receipt # store.receipt =>
           Has(store, "pending") \/ \E s \in Slot : Active(k, s)
  PROVE  IInv'
<1>0. TypeOK
  BY DEF IInv
<1>1. UNCHANGED <<expired, inputs, faults>>
  BY DEF Die
<1>2. /\ job' \in [Controller -> [Slot -> JobType]]
      /\ \A l \in Controller, t \in Slot :
           IF l = k THEN job'[l][t].at = "idle" ELSE job'[l][t] = job[l][t]
  BY <1>0 DEF Die, TypeOK, Idle, JobType, Place, Road, Receipt
<1>3. /\ boot' \in [Controller -> 0 .. MaxCrash]
      /\ session' = [session EXCEPT ![k] = "none"]
      /\ published' = [published EXCEPT ![k] = FALSE]
      /\ lease' = [lease EXCEPT ![k] = "none"]
  BY <1>0, ConstantsAssumption DEF Die, TypeOK
<1>4. TypeOK'
  BY <1>0, <1>1, <1>2, <1>3 DEF TypeOK, StoreType, JobType
<1>5. SessionInv'
  BY <1>0, <1>2, <1>3 DEF IInv, SessionInv, TypeOK, Has, Slot
<1>6. ASSUME NEW l \in Controller, NEW t \in Slot
      PROVE  RoadOf(l, t)' /\ StageOf(l, t)'
  <2>1. CASE l = k
    BY <1>2, <2>1 DEF RoadOf, StageOf
  <2>2. CASE l # k
    <3>1. RoadOf(l, t) /\ StageOf(l, t) /\ InputInv /\ job[l][t] \in JobType
      BY <1>0 DEF IInv, CallsInv, TypeOK, JobType
    <3>2. job'[l][t] = job[l][t] /\ session'[l] = session[l] /\ published'[l] = published[l]
      BY <1>0, <1>2, <1>3, <2>2 DEF TypeOK
    <3>3. RoadOf(l, t)'
      BY <3>1, <3>2 DEF RoadOf, Active, Has
    <3>4. job[l][t].at = "dispatch" => store'.receipt = store.receipt
      <4>1. job[l][t].at = "dispatch" => Active(l, t) /\ ~Has(store, "pending")
        BY <3>1 DEF RoadOf, StageOf, InputInv, Active, Attempt, JobType, Road
      <4> QED BY <2>2, <4>1 DEF IInv, OneActive
    <3>5. StageOf(l, t)'
      BY <1>1, <3>1, <3>2, <3>4 DEF StageOf, Active, Has
    <3> QED BY <3>3, <3>5
  <2> QED BY <2>1, <2>2
<1>7. OneActive'
  BY <1>2 DEF IInv, OneActive, Active, Attempt
<1> QED BY <1>4, <1>5, <1>6, <1>7 DEF IInv, CallsInv

LEMMA CrashKeeps ==
  ASSUME IInv, NEW k \in Controller, Crash(k)
  PROVE  IInv'
<1>1. Die(k) /\ store' = store /\ UNCHANGED inputs
  BY DEF Crash, Die
<1>2. store' \in StoreType /\ MarksInv' /\ InputInv'
  BY <1>1 DEF IInv, TypeOK, StoreType, MarksInv, InputInv, Has
<1> QED BY <1>1, <1>2, DieKeeps

LEMMA CrashInPersistKeeps ==
  ASSUME IInv, NEW k \in Controller, NEW s \in Slot, CrashInPersist(k, s)
  PROVE  IInv'
<1>0. /\ TypeOK /\ MarksInv /\ RoadOf(k, s) /\ StageOf(k, s) /\ job[k][s] \in JobType
  BY DEF IInv, CallsInv, TypeOK, JobType
<1>1. /\ Die(k) /\ UNCHANGED inputs /\ job[k][s].at = "persist"
      /\ CanPersist(store, job[k][s].road, job[k][s].receipt)
      /\ store' = Received(store, job[k][s].receipt)
  BY DEF CrashInPersist, Die
<1>2. Has(store, "claim")
  BY <1>0, <1>1 DEF RoadOf, StageOf, JobType, Road, Active, MarksInv, Has
<1>3. ReceiptWrite(k, s) /\ store'.marks = store.marks
  BY <1>1, <1>2, PersistFacts DEF ReceiptWrite
<1>4. MarksInv' /\ InputInv'
  BY <1>1, <1>3, ReceiptKeeps
<1> QED BY <1>1, <1>3, <1>4, DieKeeps DEF ReceiptWrite
-----------------------------------------------------------------------------
(* Every reachable state.                                                   *)

LEMMA InvInit ==
  ASSUME Init
  PROVE  IInv
<1> USE ConstantsAssumption DEF Init, Idle
<1>1. TypeOK
  <2>1. store \in [marks : SUBSET Mark, decision : Decision, review : Decision,
                  owner : Owner, receipt : Receipt]
    BY DEF Decision, Receipt, Owner
  <2>2. job \in [Controller -> [Slot -> [at : Place, road : Road, receipt : Receipt]]]
    BY DEF Place, Road, Receipt
  <2>3. /\ expired \in BOOLEAN /\ inputs \in Nat
        /\ boot \in [Controller -> 0 .. MaxCrash] /\ faults \in 0 .. MaxFault
    <3>1. /\ expired = FALSE /\ inputs = 0 /\ faults = 0
          /\ boot = [k \in Controller |-> 0]
      OBVIOUS
    <3>2. 0 \in 0 .. MaxCrash /\ 0 \in 0 .. MaxFault
      OBVIOUS
    <3> HIDE DEF Init
    <3> QED BY <3>1, <3>2
  <2>4. /\ session \in [Controller -> {"none", "ready", "consumed"}]
        /\ published \in [Controller -> BOOLEAN]
        /\ lease \in [Controller -> {"none", "session", "job", "recovery"}]
    OBVIOUS
  <2> HIDE DEF Init
  <2> QED BY <2>1, <2>2, <2>3, <2>4 DEF TypeOK
<1>2. MarksInv /\ InputInv /\ SessionInv
  BY DEF MarksInv, InputInv, SessionInv, Has, Slot
<1>3. CallsInv /\ OneActive
  BY DEF CallsInv, RoadOf, StageOf, OneActive, Active, Attempt
<1> QED BY <1>1, <1>2, <1>3 DEF IInv

LEMMA InvStutter ==
  ASSUME IInv, UNCHANGED vars
  PROVE  IInv'
<1>1. UNCHANGED <<store, expired, inputs, boot, session, published, lease, job, faults>>
  BY DEF vars
<1>2. TypeOK' /\ MarksInv' /\ InputInv' /\ SessionInv'
  BY <1>1 DEF IInv, TypeOK, MarksInv, InputInv, SessionInv, Has
<1>3. CallsInv' /\ OneActive'
  BY <1>1 DEF IInv, CallsInv, RoadOf, StageOf, OneActive, Active, Has
<1> QED BY <1>2, <1>3 DEF IInv

LEMMA InvNext ==
  ASSUME IInv, Next
  PROVE  IInv'
<1>1. ASSUME NEW k \in Controller, Calls(k)
      PROVE  IInv'
  BY <1>1, SubmitNewKeeps, SubmitSpentKeeps, AbandonKeeps, SubmitKnownKeeps,
    SubmitApprovedKeeps,
     RecheckKeeps, RequestReviewKeeps, CancelKeeps, CloseElsewhereKeeps, ConsumeKeeps,
     ConsumeTerminalKeeps, ConsumePendingKeeps, JudgeKeeps
  DEF Calls
<1>2. ASSUME NEW k \in Controller, Locked(k)
      PROVE  IInv'
  BY <1>2, ResumeStaleKeeps, ResumeKeeps, PublishClaimKeeps, PublishReviewKeeps, ReleaseKeeps,
     PreviewKeeps, BeginConsumeKeeps, FinishReviewKeeps
  DEF Locked
<1>3. ASSUME NEW k \in Controller, NEW s \in Slot, Work(k, s)
      PROVE  IInv'
  BY <1>3, ExecuteKeeps, AskHumanKeeps, CloseChangedKeeps, MarkDispatchKeeps, DispatchKeeps,
     CheckpointKeeps, VerifyKeeps, VerifyFailsKeeps, PersistKeeps, FinishKeeps
  DEF Work
<1> QED BY <1>1, <1>2, <1>3, CrashKeeps, CrashInPersistKeeps, DecideKeeps, ExpireKeeps DEF Next

\* The markers, the decisions, the receipt and the calls in progress agree on
\* how far the one attempt is, in every reachable state and whoever died.
THEOREM InductiveInvariant == Spec => []IInv
<1>1. Init => IInv
  BY InvInit
<1>2. IInv /\ [Next]_vars => IInv'
  BY InvNext, InvStutter
<1> QED BY <1>1, <1>2, PTL DEF Spec

\* One input for one claim, recorded before it is sent, never behind a refusal,
\* and a receipt that tells what came of it, for any number of controllers,
\* deaths and failing calls (submit_intent, RuntimeIntentClaimStore).
THEOREM OneTrueInputHolds == Spec => []OneTrueInput
<1>1. IInv => OneTrueInput
  <2> SUFFICES ASSUME IInv PROVE OneTrueInput
    OBVIOUS
  <2>1. TypeOK /\ OneInput
    BY DEF IInv, InputInv, OneInput
  <2>2. InputIsRecorded
    BY DEF IInv, InputInv, CallsInv, StageOf, InputIsRecorded
  <2>3. RefusalHolds
    <3> SUFFICES ASSUME \/ Has(store, "closed") \/ store.decision = "denied"
                        \/ Has(store, "g_closed") \/ store.review = "denied"
                 PROVE  ~Has(store, "dispatch")
      BY DEF IInv, InputInv, RefusalHolds
    <3> QED BY DEF IInv, MarksInv
  <2>4. ReceiptIsTrue
    BY DEF IInv, InputInv, ReceiptIsTrue
  <2> QED BY <2>1, <2>2, <2>3, <2>4 DEF OneTrueInput
<1> QED BY <1>1, InductiveInvariant, PTL
-----------------------------------------------------------------------------
(* The window.  A call that needs it holds the lease, since whoever        *)
(* releases a lease is the call that holds it, or finds no other that      *)
(* could; and a review loses its owner only once its durable end is        *)
(* written (CallOf at "release" and "done"), which nothing takes back.     *)

\* A review that is still to be decided, consumed or settled.
Open(st) ==
  /\ Has(st, "g_request") /\ ~Has(st, "g_closed") /\ st.review # "denied"
  /\ ~(Has(st, "g_consume") /\ (Has(st, "terminal") \/ (Has(st, "pending") /\ st.receipt # "none")))

\* What the end of a call rests on, and who holds the window for it.
CallOf(k, s) ==
  /\ job[k][s].at = "release" =>
       ~Has(store, "g_request") \/ Has(store, "g_closed") \/ store.review = "denied"
  /\ job[k][s].at = "done" /\ job[k][s].road \in {"grounded", "g_recheck"} =>
       Has(store, "g_consume") /\ Has(store, "terminal")
  /\ job[k][s].at # "idle" /\ job[k][s].road = "g_recheck" => Has(store, "g_consume")
  /\ job[k][s].at \in Driving /\ store.receipt = "none" => lease[k] \in Holder(job[k][s].road)

\* The terminal marker is behind its receipt, an unspent session and a
\* published review hold the window, and an open review has its owner.
OwnerInv ==
  /\ Has(store, "terminal") => store.receipt # "none"
  /\ \A k \in Controller : session[k] = "ready" \/ published[k] => lease[k] = "session"
  /\ store.owner[2] <= boot[store.owner[1]]
  /\ \A k \in Controller : Open(store) /\ store.owner = <<k, boot[k]>> => published[k]

WInv == OwnerInv /\ \A k \in Controller, s \in Slot : CallOf(k, s)

\* What is durable about a review is not taken back.
Grows ==
  /\ store.marks \subseteq store'.marks
  /\ store.receipt # "none" => store'.receipt # "none"
  /\ store.review = "denied" => store'.review = "denied"
  /\ Has(store, "terminal")' => Has(store, "terminal") \/ store'.receipt # "none"
  /\ Has(store, "g_request") => store'.owner = store.owner

\* A review is published by a call that has its context.
Taken(k, s) ==
  /\ store'.owner \in {store.owner, <<k, boot[k]>>}
  /\ Has(store, "g_request")' /\ ~Has(store, "g_request") =>
       s = "locked" /\ published'[k] /\ store'.owner = <<k, boot[k]>>

\* Only what one process keeps in memory changes.
Elsewhere(k) ==
  /\ boot' = boot
  /\ \A l \in Controller : l # k =>
       session'[l] = session[l] /\ published'[l] = published[l] /\ lease'[l] = lease[l]

LEMMA ReleasingFacts ==
  ASSUME IInv, NEW k \in Controller, NEW s \in Slot, job[k][s].at = "release"
  PROVE  published[k] /\ s = "locked" /\ k = Creator
<1>1. RoadOf(k, s) /\ job[k][s].road \in Road
  BY DEF IInv, CallsInv, TypeOK
<1> QED BY <1>1 DEF RoadOf, Road, Attempt, IInv, SessionInv

LEMMA WindowFrame ==
  ASSUME IInv, IInv', WInv, NEW k \in Controller, NEW s \in Slot, Others(k, s), Elsewhere(k),
         Grows, Taken(k, s), CallOf(k, s)',
         session'[k] = "ready" \/ published'[k] => lease'[k] = "session",
         published[k] /\ ~published'[k] => ~Open(store)',
         \A t \in Slot : t # s /\ job[k][t].at \in Driving /\ store'.receipt = "none"
                         => lease'[k] \in Holder(job[k][t].road)
  PROVE  WInv'
<1>1. store.owner \in Owner /\ store'.owner \in Owner
  BY DEF IInv, TypeOK
<1>2. Has(store, "terminal")' => store'.receipt # "none"
  BY DEF Grows, WInv, OwnerInv
<1>3. \A l \in Controller : session'[l] = "ready" \/ published'[l] => lease'[l] = "session"
  BY DEF Elsewhere, WInv, OwnerInv
<1>4. store'.owner[2] <= boot'[store'.owner[1]]
  <2>1. CASE store'.owner = store.owner
    BY <2>1 DEF WInv, OwnerInv, Elsewhere
  <2>2. CASE store'.owner = <<k, boot[k]>>
    <3>1. boot[k] \in Nat
      BY ConstantsAssumption DEF IInv, TypeOK
    <3>2. store'.owner[1] = k /\ store'.owner[2] = boot[k]
      BY <2>2
    <3> QED BY <3>1, <3>2 DEF Elsewhere
  <2> QED BY <2>1, <2>2 DEF Taken
<1>5. ASSUME NEW l \in Controller, Open(store)', store'.owner = <<l, boot'[l]>>
      PROVE  published'[l]
  <2>1. CASE Has(store, "g_request")
    <3>1. Open(store)
      BY <1>5, <2>1 DEF Open, Grows, Has
    <3>2. published[l]
      BY <1>5, <2>1, <3>1 DEF Grows, WInv, OwnerInv, Elsewhere
    <3> QED BY <1>5, <3>2 DEF Elsewhere
  <2>2. CASE ~Has(store, "g_request")
    <3>1. published'[k] /\ store'.owner = <<k, boot[k]>>
      BY <1>5, <2>2 DEF Taken, Open, Has
    <3>2. k = l
      BY <1>5, <3>1
    <3> QED BY <3>1, <3>2
  <2> QED BY <2>1, <2>2
<1>6. ASSUME NEW l \in Controller, NEW t \in Slot, l # k \/ t # s
      PROVE  CallOf(l, t)'
  <2>1. job'[l][t] = job[l][t] /\ CallOf(l, t)
    BY <1>6 DEF Others, WInv
  <2>2. job[l][t].at = "release" =>
          (Has(store, "g_request")' => Has(store, "g_request"))
    <3> SUFFICES ASSUME job[l][t].at = "release", Has(store, "g_request")', ~Has(store, "g_request")
                 PROVE  FALSE
      OBVIOUS
    <3>1. t = "locked" /\ l = Creator
      BY ReleasingFacts
    <3>2. s = "locked" /\ published'[k]
      BY DEF Taken
    <3>3. k = Creator
      BY <3>2 DEF IInv, SessionInv
    <3> QED BY <1>6, <3>1, <3>2, <3>3
  <2>3. job[l][t].at \in Driving /\ store'.receipt = "none" => lease'[l] \in Holder(job[l][t].road)
    BY <1>6, <2>1 DEF Elsewhere, Grows, CallOf
  <2> QED BY <2>1, <2>2, <2>3 DEF CallOf, Grows, Has
<1> QED BY <1>2, <1>3, <1>4, <1>5, <1>6 DEF WInv, OwnerInv

\* A call that leaves its process as it is.
LEMMA WindowCall ==
  ASSUME IInv, IInv', WInv, NEW k \in Controller, NEW s \in Slot, Others(k, s), UNCHANGED local,
         Grows, Taken(k, s), CallOf(k, s)'
  PROVE  WInv'
<1>1. Elsewhere(k)
  BY DEF Elsewhere, local
<1>2. session'[k] = "ready" \/ published'[k] => lease'[k] = "session"
  BY DEF WInv, OwnerInv, local
<1>3. published[k] = published'[k]
  BY DEF local
<1>4. \A t \in Slot : job[k][t].at \in Driving /\ store'.receipt = "none"
                      => lease'[k] \in Holder(job[k][t].road)
  BY DEF WInv, CallOf, Grows, local
<1> QED BY <1>1, <1>2, <1>3, <1>4, WindowFrame

LEMMA SameStore ==
  ASSUME store' = store, NEW k \in Controller, NEW s \in Slot
  PROVE  Grows /\ Taken(k, s)
  BY DEF Grows, Taken, Has

LEMMA OneMark ==
  ASSUME TypeOK, NEW m \in Mark, m \notin {"terminal", "g_request"},
         store' = store \/ store' = With(store, {m}), NEW k \in Controller, NEW s \in Slot
  PROVE  Grows /\ Taken(k, s)
<1>1. store.marks \subseteq store'.marks /\ store'.marks \subseteq store.marks \cup {m}
  BY WithFacts
<1>2. store'.receipt = store.receipt /\ store'.review = store.review /\ store'.owner = store.owner
  BY WithFacts
<1> QED BY <1>1, <1>2 DEF Grows, Taken, Has

\* A call that goes on with the window it has, or ends.
LEMMA Onward ==
  ASSUME WInv, NEW k \in Controller, NEW s \in Slot, Grows, lease'[k] = lease[k],
         \/ job'[k][s].at = "idle"
         \/ /\ job[k][s].at # "idle" /\ job'[k][s].road = job[k][s].road
            /\ job'[k][s].at \notin {"release", "done"}
            /\ job'[k][s].at \in Driving => job[k][s].at \in Driving
  PROVE  CallOf(k, s)'
<1>1. CallOf(k, s)
  BY DEF WInv
<1>2. CASE job'[k][s].at = "idle"
  BY <1>2 DEF CallOf, Driving
<1>3. CASE /\ job[k][s].at # "idle" /\ job'[k][s].road = job[k][s].road
           /\ job'[k][s].at \notin {"release", "done"}
           /\ job'[k][s].at \in Driving => job[k][s].at \in Driving
  BY <1>1, <1>3 DEF CallOf, Grows, Has
<1> QED BY <1>2, <1>3

\* A call of the store that publishes one marker and goes on.
LEMMA StepMark ==
  ASSUME IInv, IInv', WInv, NEW k \in Controller, NEW s \in Slot, UNCHANGED local,
         NEW m \in Mark, m \notin {"terminal", "g_request"},
         NEW at \in Place, at \notin {"release", "done", "idle"},
         job[k][s].at # "idle", at \in Driving => job[k][s].at \in Driving,
         store' = store \/ store' = With(store, {m}),
         Go(k, s, at) \/ Go(k, s, Failure(job[k][s].road))
  PROVE  WInv'
<1>0. TypeOK
  BY DEF IInv
<1>1. Grows /\ Taken(k, s)
  BY <1>0, OneMark
<1>2. /\ Others(k, s)
      /\ \/ job'[k][s].at = "idle"
         \/ /\ job'[k][s].road = job[k][s].road
            /\ job'[k][s].at \in {at, "end"}
  <2>1. CASE Go(k, s, at)
    BY <1>0, <2>1, GoFacts
  <2>2. CASE Go(k, s, Failure(job[k][s].road))
    BY <1>0, <2>2, FailFacts DEF Failed
  <2> QED BY <2>1, <2>2
<1>3. CallOf(k, s)'
  BY <1>1, <1>2, Onward DEF Driving, local
<1> QED BY <1>1, <1>2, <1>3, WindowCall
-----------------------------------------------------------------------------
(* The window, action by action: the calls that publish one marker.         *)

LEMMA ResumeStaleHolds ==
  ASSUME IInv, IInv', WInv, NEW k \in Controller, ResumeStale(k)
  PROVE  WInv'
<1>1. /\ UNCHANGED local /\ job[k]["locked"].at = "approved" /\ "locked" \in Slot
      /\ store' = store \/ store' = With(store, {"closed"})
      /\ Go(k, "locked", "end") \/ Go(k, "locked", Failure(job[k]["locked"].road))
  BY DEF ResumeStale, Step, Raise, Slot
<1>2. "closed" \in Mark /\ "end" \in Place \ Driving
  BY DEF Mark, Legacy, Place, Driving
<1> QED BY <1>1, <1>2, StepMark

LEMMA PublishClaimHolds ==
  ASSUME IInv, IInv', WInv, NEW k \in Controller, PublishClaim(k)
  PROVE  WInv'
<1>1. /\ UNCHANGED local /\ job[k]["locked"].at = "publish" /\ "locked" \in Slot
      /\ store' = store \/ store' = With(store, {"claim"})
      /\ Go(k, "locked", "review") \/ Go(k, "locked", Failure(job[k]["locked"].road))
  BY DEF PublishClaim, Step, Raise, Slot
<1>2. "claim" \in Mark /\ "review" \in Place \ Driving
  BY DEF Mark, Place, Driving
<1> QED BY <1>1, <1>2, StepMark

LEMMA BeginConsumeHolds ==
  ASSUME IInv, IInv', WInv, NEW k \in Controller, BeginConsume(k)
  PROVE  WInv'
<1>1. /\ UNCHANGED local /\ job[k]["locked"].at = "consume" /\ "locked" \in Slot
      /\ store' = store \/ store' = With(store, {"g_consume"})
      /\ Go(k, "locked", "mark") \/ Go(k, "locked", Failure(job[k]["locked"].road))
  BY DEF BeginConsume, Step, Raise, Slot
<1>2. "g_consume" \in Mark /\ "mark" \in Place /\ "consume" \in Driving
  BY DEF Mark, Review, Place, Driving
<1> QED BY <1>1, <1>2, StepMark

LEMMA AskHumanHolds ==
  ASSUME IInv, IInv', WInv, NEW k \in Controller, NEW s \in Slot, AskHuman(k, s)
  PROVE  WInv'
<1>1. /\ UNCHANGED local /\ job[k][s].at = "execute"
      /\ store' = store \/ store' = With(store, {"request"})
      /\ Go(k, s, "end") \/ Go(k, s, Failure(job[k][s].road))
  BY DEF AskHuman, Step, Raise
<1>2. "request" \in Mark /\ "end" \in Place \ Driving
  BY DEF Mark, Legacy, Place, Driving
<1> QED BY <1>1, <1>2, StepMark

LEMMA CloseChangedHolds ==
  ASSUME IInv, IInv', WInv, NEW k \in Controller, NEW s \in Slot, CloseChanged(k, s)
  PROVE  WInv'
<1>1. /\ UNCHANGED local /\ job[k][s].at = "execute"
      /\ store' = store \/ store' = With(store, {"closed"})
      /\ Go(k, s, "end") \/ Go(k, s, Failure(job[k][s].road))
  BY DEF CloseChanged, Step, Raise
<1>2. "closed" \in Mark /\ "end" \in Place \ Driving
  BY DEF Mark, Legacy, Place, Driving
<1> QED BY <1>1, <1>2, StepMark

LEMMA MarkDispatchHolds ==
  ASSUME IInv, IInv', WInv, NEW k \in Controller, NEW s \in Slot, MarkDispatch(k, s)
  PROVE  WInv'
<1>1. /\ UNCHANGED local /\ job[k][s].at = "mark"
      /\ store' = store \/ store' = With(store, {"dispatch"})
      /\ Go(k, s, "dispatch") \/ Go(k, s, Failure(job[k][s].road))
  BY DEF MarkDispatch, Step, Raise
<1>2. "dispatch" \in Mark /\ "dispatch" \in Place /\ "mark" \in Driving
  BY DEF Mark, Legacy, Place, Driving
<1> QED BY <1>1, <1>2, StepMark

LEMMA CheckpointHolds ==
  ASSUME IInv, IInv', WInv, NEW k \in Controller, NEW s \in Slot, Checkpoint(k, s)
  PROVE  WInv'
<1>1. /\ UNCHANGED local /\ job[k][s].at = "checkpoint"
      /\ store' = store \/ store' = With(store, {"pending"})
      /\ Go(k, s, "verify") \/ Go(k, s, Failure(job[k][s].road))
  BY DEF Checkpoint, Step, Raise
<1>2. "pending" \in Mark /\ "verify" \in Place /\ "checkpoint" \in Driving
  BY DEF Mark, Legacy, Place, Driving
<1> QED BY <1>1, <1>2, StepMark
-----------------------------------------------------------------------------
(* The calls that leave the store alone.                                    *)

\* A call that moves on in a process and a store that stay as they are.
LEMMA MoveOn ==
  ASSUME IInv, IInv', WInv, NEW k \in Controller, NEW s \in Slot, UNCHANGED <<store, local>>,
         Others(k, s),
         \/ job'[k][s].at = "idle"
         \/ /\ job[k][s].at # "idle" /\ job'[k][s].road = job[k][s].road
            /\ job'[k][s].at \notin {"release", "done"}
            /\ job'[k][s].at \in Driving => job[k][s].at \in Driving
  PROVE  WInv'
<1>1. Grows /\ Taken(k, s)
  BY SameStore
<1>2. lease'[k] = lease[k]
  BY DEF local
<1>3. CallOf(k, s)'
  BY <1>1, <1>2, Onward
<1> QED BY <1>1, <1>3, WindowCall

LEMMA SubmitApprovedHolds ==
  ASSUME IInv, IInv', WInv, NEW k \in Controller, SubmitApproved(k)
  PROVE  WInv'
<1>0. TypeOK /\ "locked" \in Slot
  BY DEF IInv, Slot
<1>1. UNCHANGED <<store, local>> /\ Start(k, "locked", "approved", "resume")
  BY DEF SubmitApproved
<1>2. "approved" \in Place /\ "resume" \in Road
  BY DEF Place, Road
<1>3. Others(k, "locked") /\ job'[k]["locked"].at = "approved" /\ job'[k]["locked"].road = "resume"
  BY <1>0, <1>1, <1>2, StartFacts
<1>4. CallOf(k, "locked")'
  BY <1>3 DEF CallOf, Driving
<1>5. Grows /\ Taken(k, "locked")
  BY <1>0, <1>1, SameStore
<1> QED BY <1>0, <1>1, <1>3, <1>4, <1>5, WindowCall

LEMMA ExecuteHolds ==
  ASSUME IInv, IInv', WInv, NEW k \in Controller, NEW s \in Slot, Execute(k, s)
  PROVE  WInv'
<1>0. TypeOK /\ job[k][s] \in JobType
  BY DEF IInv, TypeOK, JobType
<1>1. UNCHANGED <<store, local>> /\ job[k][s].at = "execute"
  BY DEF Execute
<1>2. CASE Go(k, s, "end") \/ Go(k, s, "mark")
  <2>1. {"end", "mark"} \subseteq Place
    BY DEF Place
  <2>2. Others(k, s) /\ job'[k][s].at \in {"end", "mark"} /\ job'[k][s].road = job[k][s].road
    BY <1>0, <1>2, <2>1, GoFacts
  <2> QED BY <1>1, <2>2, MoveOn DEF Driving
<1>3. CASE job' = [job EXCEPT ![k][s].at = "persist", ![k][s].receipt = "blocked"]
  <2>1. Others(k, s) /\ job'[k][s].at = "persist" /\ job'[k][s].road = job[k][s].road
    BY <1>0, <1>3 DEF TypeOK, Others, JobType, Place, Receipt
  <2> QED BY <1>1, <2>1, MoveOn DEF Driving
<1> QED BY <1>2, <1>3 DEF Execute

LEMMA DispatchHolds ==
  ASSUME IInv, IInv', WInv, NEW k \in Controller, NEW s \in Slot, Dispatch(k, s)
  PROVE  WInv'
<1>0. TypeOK /\ job[k][s] \in JobType
  BY DEF IInv, TypeOK, JobType
<1>1. UNCHANGED <<store, local>> /\ job[k][s].at = "dispatch"
  BY DEF Dispatch
<1>2. PICK o \in BackendOutcome : job' = [job EXCEPT ![k][s].at = o.at, ![k][s].receipt = o.receipt]
  BY DEF Dispatch
<1>3. o.at \in {"checkpoint", "persist"} /\ o.receipt \in Receipt
  BY DEF BackendOutcome, Receipt
<1>4. Others(k, s) /\ job'[k][s].at \in {"checkpoint", "persist"} /\ job'[k][s].road = job[k][s].road
  BY <1>0, <1>2, <1>3 DEF TypeOK, Others, JobType, Place
<1> QED BY <1>1, <1>4, MoveOn DEF Driving

LEMMA VerifyHolds ==
  ASSUME IInv, IInv', WInv, NEW k \in Controller, NEW s \in Slot, Verify(k, s)
  PROVE  WInv'
<1>0. TypeOK /\ job[k][s] \in JobType
  BY DEF IInv, TypeOK, JobType
<1>1. UNCHANGED <<store, local>> /\ job[k][s].at = "verify"
  BY DEF Verify
<1>2. Others(k, s) /\ job'[k][s].at = "persist" /\ job'[k][s].road = job[k][s].road
  BY <1>0 DEF Verify, TypeOK, Others, JobType, Place, Receipt
<1> QED BY <1>1, <1>2, MoveOn DEF Driving

LEMMA VerifyFailsHolds ==
  ASSUME IInv, IInv', WInv, NEW k \in Controller, NEW s \in Slot, VerifyFails(k, s)
  PROVE  WInv'
<1>1. TypeOK /\ UNCHANGED <<store, local>> /\ Go(k, s, Failure(job[k][s].road))
      /\ job[k][s].at = "verify"
  BY DEF VerifyFails, IInv
<1>2. Failed(k, s)
  BY <1>1, FailFacts
<1> QED BY <1>1, <1>2, MoveOn DEF Failed, Driving

LEMMA PreviewHolds ==
  ASSUME IInv, IInv', WInv, NEW k \in Controller, Preview(k)
  PROVE  WInv'
<1>0. TypeOK /\ "locked" \in Slot
  BY DEF IInv, Slot
<1>1. UNCHANGED <<store, local>> /\ job[k]["locked"].at = "preview"
  BY DEF Preview
<1>2. CASE Go(k, "locked", "consume")
  <2>1. "consume" \in Place
    BY DEF Place
  <2>2. /\ Others(k, "locked") /\ job'[k]["locked"].at = "consume"
        /\ job'[k]["locked"].road = job[k]["locked"].road
    BY <1>0, <1>2, <2>1, GoFacts
  <2> QED BY <1>0, <1>1, <2>2, MoveOn DEF Driving
<1>3. CASE Rest(k, "locked")
  BY <1>0, <1>1, <1>3, RestFacts, MoveOn
<1> QED BY <1>2, <1>3 DEF Preview
-----------------------------------------------------------------------------
(* The phases of a review, and the calls that write one.                    *)

LEMMA ReviewPhases ==
  ASSUME NEW st \in StoreType
  PROVE  /\ Phase(st) = "review_denied" => st.review = "denied"
         /\ Phase(st) = "review_closed" => Has(st, "g_closed")
         /\ Phase(st) = "terminal" => Has(st, "terminal") \/ st.receipt # "none"
         /\ Phase(st) \in {"terminal", "verification_pending"} /\ Grounded(st) => Has(st, "g_consume")
         /\ Phase(st) = "terminal" /\ Grounded(st) =>
              Has(st, "terminal") \/ (Has(st, "pending") /\ st.receipt # "none")
<1> USE DEF StoreType, Decision, Receipt, Has
<1>1. CASE ~Has(st, "claim")
  BY <1>1 DEF Phase
<1>2. CASE Has(st, "claim") /\ Grounded(st)
  <2>1. Phase(st) = ReviewPhase(st)
    BY <1>2 DEF Phase
  <2>2. CASE Has(st, "g_consume")
    BY <2>1, <2>2 DEF ReviewPhase
  <2>3. CASE ~Has(st, "g_consume")
    BY <2>1, <2>3 DEF ReviewPhase
  <2> QED BY <2>2, <2>3
<1>3. CASE Has(st, "claim") /\ ~Grounded(st)
  <2>1. Phase(st) = LegacyPhase(st)
    BY <1>3 DEF Phase
  <2>2. CASE st.receipt # "none" \/ Has(st, "pending") \/ Has(st, "dispatch")
    BY <1>3, <2>1, <2>2 DEF LegacyPhase
  <2>3. CASE st.receipt = "none" /\ st.marks \cap {"pending", "dispatch"} = {}
    BY <1>3, <2>1, <2>3 DEF LegacyPhase
  <2> QED BY <2>2, <2>3
<1> QED BY <1>1, <1>2, <1>3

\* The store after a review was opened, decided or closed.
LEMMA GrowsByJudge ==
  ASSUME TypeOK, NEW k \in Controller, NEW d \in {"approved", "denied"},
         store' = store \/ (CanJudge(store, d) /\ store' = AfterJudge(store, d, k))
  PROVE  Grows /\ Taken(k, "locked") /\ store' \in StoreType
<1>1. \/ store' = store
      \/ store' = With(store, {"g_closed"})
      \/ store' = [store EXCEPT !.review = d] /\ store.review = "none"
  BY DEF AfterJudge, CanJudge, TypeOK, Decision
<1>2. CASE store' = store
  BY <1>2, SameStore DEF TypeOK, StoreType, Slot
<1>3. CASE store' = With(store, {"g_closed"})
  <2>1. "g_closed" \in Mark /\ "locked" \in Slot
    BY DEF Mark, Review, Slot
  <2> QED BY <1>3, <2>1, OneMark, WithFacts
<1>4. CASE store' = [store EXCEPT !.review = d] /\ store.review = "none"
  BY <1>4 DEF Grows, Taken, Has, TypeOK, StoreType, Decision
<1> QED BY <1>1, <1>2, <1>3, <1>4

LEMMA GrowsByReview ==
  ASSUME TypeOK, MarksInv, NEW k \in Controller, published'[k], CanReview(store),
         store' = AfterReview(store, k) \/ store' = With(AfterReview(store, k), {"g_closed"})
  PROVE  Grows /\ Taken(k, "locked") /\ store' \in StoreType
<1>1. /\ store' \in StoreType
      /\ store'.marks \in {store.marks \cup {"g_request"}, store.marks \cup {"g_request", "g_closed"}}
      /\ store'.review = store.review /\ store'.receipt = store.receipt
  BY ReviewFacts
<1>2. store'.owner = IF Has(store, "g_request") THEN store.owner ELSE <<k, boot[k]>>
  <2>1. <<k, boot[k]>> \in Owner
    BY DEF TypeOK, Owner
  <2> QED BY <2>1 DEF AfterReview, With, TypeOK
<1> QED BY <1>1, <1>2 DEF Grows, Taken, Has

\* A call of a published review that ends, releases or looks at the window.
LEMMA ReviewHolds ==
  ASSUME IInv, IInv', WInv, NEW k \in Controller, published[k], UNCHANGED local,
         Grows, Taken(k, "locked"), Others(k, "locked"),
         job'[k]["locked"].at \in {"idle", "release", "preview"},
         job'[k]["locked"].at # "idle" => job'[k]["locked"].road = "grounded",
         job'[k]["locked"].at = "release" =>
           ~Has(store, "g_request")' \/ Has(store, "g_closed")' \/ store'.review = "denied"
  PROVE  WInv'
<1>1. lease'[k] = "session"
  BY DEF WInv, OwnerInv, local
<1>2. CallOf(k, "locked")'
  BY <1>1 DEF CallOf, Holder, Driving
<1> QED BY <1>2, WindowCall DEF Slot

LEMMA VerdictFacts ==
  ASSUME NEW st \in StoreType
  PROVE  /\ AfterVerdict(st) \in {"release", "idle"}
         /\ AfterVerdict(st) = "release" => Has(st, "g_closed") \/ st.review = "denied"
  BY ReviewPhases DEF AfterVerdict

LEMMA PublishReviewHolds ==
  ASSUME IInv, IInv', WInv, NEW k \in Controller, PublishReview(k)
  PROVE  WInv'
<1>0. /\ TypeOK /\ MarksInv /\ "locked" \in Slot /\ RoadOf(k, "locked")
      /\ job[k]["locked"] \in JobType /\ {"idle", "release"} \subseteq Place
  BY DEF IInv, CallsInv, Slot, TypeOK, JobType, Place
<1>1. job[k]["locked"].at = "review" /\ UNCHANGED local
  BY DEF PublishReview
<1>2. published[k] /\ job[k]["locked"].road = "grounded"
  BY <1>0, <1>1 DEF RoadOf, Attempt, JobType, Road
<1>3. \/ /\ CanReview(store) /\ store' = AfterReview(store, k)
         /\ Go(k, "locked", AfterVerdict(AfterReview(store, k)))
      \/ /\ store' = store \/ (CanReview(store) /\ store' = AfterReview(store, k))
         /\ Go(k, "locked", Failure(job[k]["locked"].road))
  BY DEF PublishReview, Step, Raise
<1>4. Grows /\ Taken(k, "locked") /\ store' \in StoreType
  <2>1. CASE store' = store
    BY <1>0, <2>1, SameStore DEF TypeOK, StoreType
  <2>2. CASE CanReview(store) /\ store' = AfterReview(store, k)
    BY <1>0, <1>1, <1>2, <2>2, GrowsByReview DEF local
  <2> QED BY <1>3, <2>1, <2>2
<1>5. CASE /\ store' = AfterReview(store, k)
           /\ Go(k, "locked", AfterVerdict(AfterReview(store, k)))
  <2>1. Go(k, "locked", AfterVerdict(store'))
    BY <1>5
  <2>2. /\ AfterVerdict(store') \in {"release", "idle"}
        /\ AfterVerdict(store') = "release" => Has(store, "g_closed")' \/ store'.review = "denied"
    BY <1>4, VerdictFacts DEF Has
  <2>3. /\ Others(k, "locked") /\ job'[k]["locked"].at = AfterVerdict(store')
        /\ job'[k]["locked"].at # "idle" => job'[k]["locked"].road = "grounded"
    BY <1>0, <1>2, <2>1, <2>2, GoFacts
  <2> QED BY <1>1, <1>2, <1>4, <2>2, <2>3, ReviewHolds
<1>6. CASE Go(k, "locked", Failure(job[k]["locked"].road))
  <2>1. Others(k, "locked") /\ job'[k]["locked"].at = "idle"
    BY <1>0, <1>2, <1>6, FailFacts DEF Failed
  <2> QED BY <1>1, <1>2, <1>4, <2>1, ReviewHolds
<1> QED BY <1>3, <1>5, <1>6

LEMMA JudgeHolds ==
  ASSUME IInv, IInv', WInv, NEW k \in Controller, NEW d \in {"approved", "denied"}, Judge(k, d)
  PROVE  WInv'
<1>0. TypeOK /\ "locked" \in Slot /\ {"idle", "release"} \subseteq Place /\ "grounded" \in Road
  BY DEF IInv, Slot, Place, Road
<1>1. published[k] /\ UNCHANGED local /\ job[k]["locked"].at = "idle"
  BY DEF Judge, Free
<1>2. \/ /\ CanJudge(store, d) /\ store' = AfterJudge(store, d, k)
         /\ Start(k, "locked", AfterVerdict(AfterJudge(store, d, k)), "grounded")
      \/ /\ store' = store \/ (CanJudge(store, d) /\ store' = AfterJudge(store, d, k))
         /\ UNCHANGED job
  BY DEF Judge, Raise
<1>3. Grows /\ Taken(k, "locked") /\ store' \in StoreType
  BY <1>0, <1>2, GrowsByJudge
<1>4. CASE /\ store' = AfterJudge(store, d, k)
           /\ Start(k, "locked", AfterVerdict(AfterJudge(store, d, k)), "grounded")
  <2>1. Start(k, "locked", AfterVerdict(store'), "grounded")
    BY <1>4
  <2>2. /\ AfterVerdict(store') \in {"release", "idle"}
        /\ AfterVerdict(store') = "release" => Has(store, "g_closed")' \/ store'.review = "denied"
    BY <1>3, VerdictFacts DEF Has
  <2>3. /\ Others(k, "locked") /\ job'[k]["locked"].at = AfterVerdict(store')
        /\ job'[k]["locked"].at # "idle" => job'[k]["locked"].road = "grounded"
    BY <1>0, <2>1, <2>2, StartFacts
  <2> QED BY <1>1, <1>3, <2>2, <2>3, ReviewHolds
<1>5. CASE UNCHANGED job
  <2>1. Others(k, "locked") /\ job'[k]["locked"].at = "idle"
    BY <1>0, <1>1, <1>5, StayFacts
  <2> QED BY <1>1, <1>3, <2>1, ReviewHolds
<1> QED BY <1>2, <1>4, <1>5

LEMMA ConsumeHolds ==
  ASSUME IInv, IInv', WInv, NEW k \in Controller, Consume(k)
  PROVE  WInv'
<1>0. /\ TypeOK /\ "locked" \in Slot /\ {"idle", "release", "preview"} \subseteq Place
      /\ "grounded" \in Road
  BY DEF IInv, Slot, Place, Road
<1>1. published[k] /\ UNCHANGED local /\ job[k]["locked"].at = "idle"
  BY DEF Consume, Free
<1>2. \/ /\ CanJudge(store, "approved") /\ store' = AfterJudge(store, "approved", k)
         /\ Start(k, "locked", IF Phase(store') = "review_closed" THEN "release" ELSE "preview",
                  "grounded")
      \/ /\ store' = store \/ (CanJudge(store, "approved") /\ store' = AfterJudge(store, "approved", k))
         /\ UNCHANGED job
  BY DEF Consume, Raise
<1>3. Grows /\ Taken(k, "locked") /\ store' \in StoreType
  BY <1>0, <1>2, GrowsByJudge
<1>4. CASE Start(k, "locked", IF Phase(store') = "review_closed" THEN "release" ELSE "preview",
                 "grounded")
  <2>1. Phase(store') = "review_closed" => Has(store, "g_closed")'
    BY <1>3, ReviewPhases DEF Has
  <2>2. /\ Others(k, "locked")
        /\ job'[k]["locked"].at = IF Phase(store') = "review_closed" THEN "release" ELSE "preview"
        /\ job'[k]["locked"].road = "grounded"
    BY <1>0, <1>4, StartFacts
  <2> QED BY <1>1, <1>3, <2>1, <2>2, ReviewHolds
<1>5. CASE UNCHANGED job
  <2>1. Others(k, "locked") /\ job'[k]["locked"].at = "idle"
    BY <1>0, <1>1, <1>5, StayFacts
  <2> QED BY <1>1, <1>3, <2>1, ReviewHolds
<1> QED BY <1>2, <1>4, <1>5

LEMMA CancelHolds ==
  ASSUME IInv, IInv', WInv, NEW k \in Controller, Cancel(k)
  PROVE  WInv'
<1>0. TypeOK /\ MarksInv /\ "locked" \in Slot /\ "release" \in Place /\ "grounded" \in Road
  BY DEF IInv, Slot, Place, Road
<1>1. published[k] /\ UNCHANGED local /\ published'[k]
  BY DEF Cancel, local
<1>2. \/ /\ CanCancel(store, k) /\ store' = AfterCancel(store, k)
         /\ Start(k, "locked", "release", "grounded")
      \/ /\ store' = store \/ (CanCancel(store, k) /\ store' = AfterCancel(store, k))
         /\ Rest(k, "locked")
  BY DEF Cancel, Raise
<1>3. CASE CanCancel(store, k) /\ store' = AfterCancel(store, k)
  <2>1. Grows /\ Taken(k, "locked") /\
          (~Has(store, "g_request")' \/ Has(store, "g_closed")' \/ store'.review = "denied")
    <3>1. CASE ~Has(store, "claim")
      <4>1. store' = store /\ ~Has(store, "g_request")
        BY <1>0, <1>3, <3>1 DEF AfterCancel, MarksInv, Has
      <4> QED BY <1>0, <4>1, SameStore DEF Has
    <3>2. CASE Phase(store) \in {"review_denied", "review_closed"}
      <4>1. store' = store
        BY <1>3, <3>2 DEF AfterCancel
      <4>2. Has(store, "g_closed") \/ store.review = "denied"
        BY <1>0, <3>2, ReviewPhases DEF TypeOK, StoreType
      <4> QED BY <1>0, <4>1, <4>2, SameStore DEF Has
    <3>3. CASE ~(~Has(store, "claim") \/ Phase(store) \in {"review_denied", "review_closed"})
      <4>1. CanReview(store) /\ store' = With(AfterReview(store, k), {"g_closed"})
        BY <1>3, <3>3 DEF CanCancel, AfterCancel
      <4>2. Has(store, "g_closed")'
        BY <1>0, <4>1, ReviewFacts DEF Has
      <4> QED BY <1>0, <1>1, <4>1, <4>2, GrowsByReview
    <3> QED BY <3>1, <3>2, <3>3
  <2>2. /\ Others(k, "locked") /\ job'[k]["locked"].at \in {"idle", "release"}
        /\ job'[k]["locked"].at # "idle" => job'[k]["locked"].road = "grounded"
    <3>1. CASE Start(k, "locked", "release", "grounded")
      BY <1>0, <3>1, StartFacts
    <3>2. CASE Rest(k, "locked")
      BY <1>0, <3>2, RestFacts
    <3> QED BY <1>2, <3>1, <3>2
  <2> QED BY <1>1, <2>1, <2>2, ReviewHolds
<1>4. CASE store' = store /\ Rest(k, "locked")
  <2>1. Others(k, "locked") /\ job'[k]["locked"].at = "idle"
    BY <1>0, <1>4, RestFacts
  <2> QED BY <1>0, <1>1, <1>4, <2>1, SameStore, ReviewHolds
<1> QED BY <1>2, <1>3, <1>4

\* A write of the store by nobody's call.
LEMMA QuietWrite ==
  ASSUME IInv, IInv', WInv, NEW k \in Controller, UNCHANGED <<local, job>>,
         Grows, Taken(k, "locked"), Has(store, "g_request")' => Has(store, "g_request")
  PROVE  WInv'
<1>1. Others(k, "locked") /\ job'[k]["locked"] = job[k]["locked"] /\ "locked" \in Slot
  BY StayFacts DEF IInv, Slot
<1>2. CallOf(k, "locked")'
  <2>1. CallOf(k, "locked")
    BY <1>1 DEF WInv
  <2> QED BY <1>1, <2>1 DEF CallOf, Grows, Has, local
<1> QED BY <1>1, <1>2, WindowCall

LEMMA CloseElsewhereHolds ==
  ASSUME IInv, IInv', WInv, NEW k \in Controller, CloseElsewhere(k)
  PROVE  WInv'
<1>1. /\ UNCHANGED <<local, job>> /\ TypeOK /\ Has(store, "g_request")
      /\ store' = store \/ store' = With(store, {"g_closed"})
  BY DEF CloseElsewhere, Call, Raise, IInv
<1>2. "g_closed" \in Mark /\ "locked" \in Slot
  BY DEF Mark, Review, Slot
<1> QED BY <1>1, <1>2, OneMark, QuietWrite

LEMMA DecideHolds ==
  ASSUME IInv, IInv', WInv, NEW d \in {"approved", "denied"}, Decide(d)
  PROVE  WInv'
<1>0. TypeOK /\ Creator \in Controller /\ "locked" \in Slot
  BY ConstantsAssumption DEF IInv, Slot
<1>1. /\ UNCHANGED <<local, job>>
      /\ \/ store' = store \/ store' = With(store, {"closed"})
         \/ store' = [store EXCEPT !.decision = d]
  <2>1. AfterDecide(store, d) \in {store, With(store, {"closed"}), [store EXCEPT !.decision = d]}
    <3>1. expired \in BOOLEAN
      BY <1>0 DEF TypeOK
    <3>2. CASE Has(store, "closed") \/ Has(store, "resume")
      BY <3>2 DEF AfterDecide
    <3>3. CASE ~(Has(store, "closed") \/ Has(store, "resume"))
      <4>1. store.marks \cap {"closed", "resume"} = {}
        BY <3>3 DEF Has
      <4> QED BY <3>1, <3>3, <4>1 DEF AfterDecide
    <3> QED BY <3>2, <3>3
  <2>2. store' = store \/ store' = AfterDecide(store, d)
    BY DEF Decide, Call, Raise
  <2> QED BY <2>1, <2>2 DEF Decide
<1>2. CASE store' = store \/ store' = With(store, {"closed"})
  <2>1. "closed" \in Mark
    BY DEF Mark, Legacy
  <2>2. Grows /\ Taken(Creator, "locked")
    BY <1>0, <1>2, <2>1, OneMark
  <2>3. Has(store, "g_request")' => Has(store, "g_request")
    BY <1>0, <1>2, <2>1, WithFacts DEF Has
  <2> QED BY <1>0, <1>1, <2>2, <2>3, QuietWrite
<1>3. CASE store' = [store EXCEPT !.decision = d]
  <2>1. /\ store'.marks = store.marks /\ store'.receipt = store.receipt
        /\ store'.review = store.review /\ store'.owner = store.owner
    BY <1>0, <1>3 DEF TypeOK
  <2>2. Grows /\ Taken(Creator, "locked") /\ (Has(store, "g_request")' => Has(store, "g_request"))
    BY <2>1 DEF Grows, Taken, Has
  <2> QED BY <1>0, <1>1, <2>2, QuietWrite
<1> QED BY <1>1, <1>2, <1>3

LEMMA ExpireHolds ==
  ASSUME IInv, IInv', WInv, Expire
  PROVE  WInv'
<1>1. Creator \in Controller /\ "locked" \in Slot /\ UNCHANGED <<local, job>> /\ store' = store
  BY ConstantsAssumption DEF Slot, Expire
<1>2. Grows /\ Taken(Creator, "locked") /\ (Has(store, "g_request")' => Has(store, "g_request"))
  BY <1>1, SameStore DEF Has
<1> QED BY <1>1, <1>2, QuietWrite

LEMMA PersistGrows ==
  ASSUME IInv, NEW k \in Controller, NEW s \in Slot, job[k][s].at = "persist",
         CanPersist(store, job[k][s].road, job[k][s].receipt),
         store' = With(Received(store, job[k][s].receipt), {"terminal"})
  PROVE  Grows /\ Taken(k, s) /\ Has(store, "terminal")'
<1>1. TypeOK /\ job[k][s].receipt # "none" /\ job[k][s].receipt \in Receipt
  BY PersistFacts DEF IInv, CallsInv, StageOf
<1>2. /\ store'.marks = store.marks \cup {"terminal"} /\ store'.owner = store.owner
      /\ store'.review = store.review /\ store'.receipt = job[k][s].receipt
  BY <1>1 DEF TypeOK, With, Received
<1> QED BY <1>1, <1>2 DEF Grows, Taken, Has

LEMMA PersistHolds ==
  ASSUME IInv, IInv', WInv, NEW k \in Controller, NEW s \in Slot, Persist(k, s)
  PROVE  WInv'
<1>0. /\ TypeOK /\ StageOf(k, s) /\ CallOf(k, s) /\ "done" \in Place
      /\ job[k][s].at = "persist" /\ UNCHANGED local
  BY DEF IInv, CallsInv, WInv, Persist, Place
<1>1. \/ /\ CanPersist(store, job[k][s].road, job[k][s].receipt)
         /\ store' = With(Received(store, job[k][s].receipt), {"terminal"})
         /\ Go(k, s, "done") \/ Go(k, s, Failure(job[k][s].road))
      \/ store' = store /\ Go(k, s, Failure(job[k][s].road))
  BY DEF Persist, Step, Raise
<1>2. CASE Go(k, s, Failure(job[k][s].road))
  <2>1. /\ Others(k, s)
        /\ \/ job'[k][s].at = "idle"
           \/ job'[k][s].at = "end" /\ job'[k][s].road = job[k][s].road
    BY <1>0, <1>2, FailFacts DEF Failed
  <2>2. Grows /\ Taken(k, s)
    <3>1. CASE store' = store
      BY <3>1, SameStore
    <3>2. CASE /\ CanPersist(store, job[k][s].road, job[k][s].receipt)
               /\ store' = With(Received(store, job[k][s].receipt), {"terminal"})
      BY <1>0, <3>2, PersistGrows
    <3> QED BY <1>1, <3>1, <3>2
  <2>3. CallOf(k, s)'
    BY <1>0, <2>1, <2>2, Onward DEF Driving, local
  <2> QED BY <1>0, <2>1, <2>2, <2>3, WindowCall
<1>3. CASE /\ CanPersist(store, job[k][s].road, job[k][s].receipt)
           /\ store' = With(Received(store, job[k][s].receipt), {"terminal"})
           /\ Go(k, s, "done")
  <2>1. Others(k, s) /\ job'[k][s].at = "done" /\ job'[k][s].road = job[k][s].road
    BY <1>0, <1>3, GoFacts
  <2>2. Grows /\ Taken(k, s) /\ Has(store, "terminal")'
    BY <1>0, <1>3, PersistGrows
  <2>3. job[k][s].road \in {"grounded", "g_recheck"} => Has(store, "g_consume")'
    BY <1>3, <2>2 DEF CanPersist, Grows, Has
  <2>4. CallOf(k, s)'
    BY <2>1, <2>2, <2>3 DEF CallOf, Driving
  <2> QED BY <1>0, <2>1, <2>2, <2>4, WindowCall
<1> QED BY <1>1, <1>2, <1>3
-----------------------------------------------------------------------------
(* The calls that take the window or give it up.                            *)

\* While a claim's first run goes on, nobody works on a review of it.
LEMMA FreeSlot ==
  ASSUME IInv, NEW k \in Controller, job[k]["free"].at # "idle"
  PROVE  /\ job[k]["free"].road = "claim" /\ session[k] # "ready" /\ ~published[k]
         /\ Has(store, "claim") /\ ~Has(store, "g_request") /\ ~Has(store, "g_consume")
<1>1. "free" \in Slot /\ RoadOf(k, "free")
  BY DEF IInv, CallsInv, Slot
<1> QED BY <1>1 DEF RoadOf, IInv, SessionInv, MarksInv

\* The locked call of a process changes what the process keeps.
LEMMA OwnerStep ==
  ASSUME IInv, IInv', WInv, NEW k \in Controller, Others(k, "locked"), Elsewhere(k),
         Grows, Taken(k, "locked"), CallOf(k, "locked")',
         session'[k] = "ready" \/ published'[k] => lease'[k] = "session",
         published[k] /\ ~published'[k] => ~Open(store)',
         \/ job[k]["free"].at = "idle"
         \/ lease[k] = "session" /\ store'.receipt = "none" => lease'[k] = "session"
  PROVE  WInv'
<1>1. ASSUME NEW t \in Slot, t # "locked", job[k][t].at \in Driving, store'.receipt = "none"
      PROVE  lease'[k] \in Holder(job[k][t].road)
  <2>1. t = "free" /\ job[k]["free"].at # "idle"
    BY <1>1 DEF Slot, Driving
  <2>2. job[k]["free"].road = "claim"
    BY <2>1, FreeSlot
  <2>3. lease[k] = "session"
    BY <1>1, <2>1, <2>2 DEF WInv, CallOf, Grows, Holder
  <2> QED BY <1>1, <2>1, <2>2, <2>3 DEF Holder
<1>2. "locked" \in Slot
  BY DEF Slot
<1> QED BY <1>1, <1>2, WindowFrame

LEMMA SubmitSpentHolds ==
  ASSUME IInv, IInv', WInv, NEW k \in Controller, SubmitSpent(k) \/ Abandon(k)
  PROVE  WInv'
<1>0. TypeOK /\ "locked" \in Slot
  BY DEF IInv, Slot
<1>1. /\ store' = store /\ job' = job /\ job[k]["locked"].at = "idle" /\ ~Has(store, "claim")
      /\ boot' = boot /\ published' = published
      /\ lease' = [lease EXCEPT ![k] = "none"] /\ session[k] \in {"ready", "consumed"}
      /\ session' = session \/ session' = [session EXCEPT ![k] = "none"]
      /\ session[k] = "ready" => session' = [session EXCEPT ![k] = "none"]
  BY DEF SubmitSpent, Abandon, Free
<1>2. ~published[k]
  BY <1>1 DEF SubmitSpent, Abandon, IInv, SessionInv
<1>3. session'[k] # "ready" /\ ~published'[k] /\ Elsewhere(k)
  BY <1>0, <1>1, <1>2 DEF Elsewhere, TypeOK
<1>4. Others(k, "locked") /\ job'[k]["locked"].at = "idle"
  BY <1>0, <1>1, StayFacts
<1>5. job[k]["free"].at = "idle"
  BY <1>1, FreeSlot
<1>6. CallOf(k, "locked")'
  BY <1>4 DEF CallOf, Driving
<1> QED BY <1>0, <1>1, <1>2, <1>3, <1>4, <1>5, <1>6, SameStore, OwnerStep

LEMMA ReadFacts ==
  ASSUME IInv, WInv, store' = Read(store), NEW k \in Controller, NEW s \in Slot
  PROVE  /\ Grows /\ Taken(k, s)
         /\ Phase(store) = "terminal" => store'.receipt # "none"
<1>0. TypeOK /\ store \in StoreType
  BY DEF IInv, TypeOK, StoreType
<1>1. Phase(store) = "terminal" => store.receipt # "none"
  BY <1>0, ReviewPhases DEF WInv, OwnerInv
<1>2. CASE Phase(store) = "terminal"
  <2>1. "terminal" \in Mark
    BY DEF Mark, Legacy
  <2>2. /\ store'.marks = store.marks \cup {"terminal"} /\ store'.owner = store.owner
        /\ store'.review = store.review /\ store'.receipt = store.receipt
    BY <1>0, <1>2, <2>1, WithFacts DEF Read
  <2> QED BY <1>1, <1>2, <2>2 DEF Grows, Taken, Has
<1>3. CASE Phase(store) # "terminal"
  BY <1>3, SameStore DEF Read
<1> QED BY <1>2, <1>3

LEMMA SubmitKnownHolds ==
  ASSUME IInv, IInv', WInv, NEW k \in Controller, SubmitKnown(k)
  PROVE  WInv'
<1>0. TypeOK /\ "locked" \in Slot
  BY DEF IInv, Slot
<1>1. /\ store' = Read(store) /\ job' = job /\ job[k]["locked"].at = "idle" /\ ~published[k]
      /\ boot' = boot /\ published' = published
      /\ session' = [session EXCEPT ![k] = IF @ = "ready" THEN "consumed" ELSE @]
      /\ lease' = [lease EXCEPT ![k] =
                     IF @ = "session" /\ (session[k] = "ready" \/ Phase(store) = "terminal")
                     THEN "none" ELSE @]
  BY DEF SubmitKnown, Free
<1>2. Grows /\ Taken(k, "locked") /\ (Phase(store) = "terminal" => store'.receipt # "none")
  BY <1>0, <1>1, ReadFacts
<1>3. session'[k] # "ready" /\ ~published'[k] /\ Elsewhere(k)
  BY <1>0, <1>1 DEF Elsewhere, TypeOK
<1>4. Others(k, "locked") /\ job'[k]["locked"].at = "idle"
  BY <1>0, <1>1, StayFacts
<1>5. \/ job[k]["free"].at = "idle"
      \/ lease[k] = "session" /\ store'.receipt = "none" => lease'[k] = "session"
  BY <1>0, <1>1, <1>2, FreeSlot DEF TypeOK
<1>6. CallOf(k, "locked")'
  BY <1>4 DEF CallOf, Driving
<1> QED BY <1>1, <1>2, <1>3, <1>4, <1>5, <1>6, OwnerStep

LEMMA RecheckHolds ==
  ASSUME IInv, IInv', WInv, NEW k \in Controller, Recheck(k)
  PROVE  WInv'
<1>0. TypeOK /\ "locked" \in Slot /\ "verify" \in Place /\ "recheck" \in Road
  BY DEF IInv, Slot, Place, Road
<1>1. /\ UNCHANGED <<store, boot, session, published>> /\ ~published[k] /\ lease[k] = "none"
      /\ lease' = [lease EXCEPT ![k] = "job"] /\ Start(k, "locked", "verify", "recheck")
  BY DEF Recheck
<1>2. session[k] # "ready"
  BY <1>1 DEF WInv, OwnerInv
<1>3. Elsewhere(k) /\ lease'[k] = "job"
  BY <1>0, <1>1 DEF Elsewhere, TypeOK
<1>4. /\ Others(k, "locked") /\ job'[k]["locked"].at = "verify"
      /\ job'[k]["locked"].road = "recheck"
  BY <1>0, <1>1, StartFacts
<1>5. CallOf(k, "locked")'
  BY <1>3, <1>4 DEF CallOf, Holder
<1> QED BY <1>0, <1>1, <1>2, <1>3, <1>4, <1>5, SameStore, OwnerStep

LEMMA ResumeHolds ==
  ASSUME IInv, IInv', WInv, NEW k \in Controller, Resume(k)
  PROVE  WInv'
<1>0. TypeOK /\ "locked" \in Slot /\ {"end", "execute"} \subseteq Place
  BY DEF IInv, Slot, Place
<1>1. UNCHANGED <<boot, session, published>> /\ job[k]["locked"].at = "approved"
  BY DEF Resume
<1>2. CASE lease[k] # "none"
  <2>1. UNCHANGED <<store, local>> /\ Rest(k, "locked")
    BY <1>1, <1>2 DEF Resume, local
  <2> QED BY <1>0, <2>1, RestFacts, MoveOn
<1>3. CASE lease[k] = "none"
  <2>1. lease' = [lease EXCEPT ![k] = "job"]
    BY <1>3 DEF Resume
  <2>2. \/ Go(k, "locked", "end") \/ Go(k, "locked", "execute")
        \/ Go(k, "locked", Failure(job[k]["locked"].road))
    BY <1>3 DEF Resume, Step
  <2>3. store' = store \/ store' = AfterResume(store)
    BY <1>3 DEF Resume, Step, Raise
  <2>4. AfterResume(store) \in {store, With(store, {"closed"}), With(store, {"resume"})}
    <3>1. expired \in BOOLEAN
      BY <1>0 DEF TypeOK
    <3>2. CASE Has(store, "closed")
      BY <3>2 DEF AfterResume
    <3>3. CASE ~Has(store, "closed")
      BY <3>1, <3>3 DEF AfterResume
    <3> QED BY <3>2, <3>3
  <2>5. Grows /\ Taken(k, "locked")
    <3>1. "closed" \in Mark /\ "resume" \in Mark
      BY DEF Mark, Legacy
    <3> QED BY <1>0, <2>3, <2>4, <3>1, OneMark
  <2>6. session[k] # "ready" /\ ~published[k]
    BY <1>3 DEF WInv, OwnerInv
  <2>7. Elsewhere(k) /\ lease'[k] = "job"
    BY <1>0, <1>1, <2>1 DEF Elsewhere, TypeOK
  <2>8. /\ Others(k, "locked")
        /\ \/ job'[k]["locked"].at = "idle"
           \/ /\ job'[k]["locked"].at \in {"end", "execute"}
              /\ job'[k]["locked"].road = job[k]["locked"].road
    <3>1. CASE Go(k, "locked", "end") \/ Go(k, "locked", "execute")
      BY <1>0, <3>1, GoFacts
    <3>2. CASE Go(k, "locked", Failure(job[k]["locked"].road))
      BY <1>0, <3>2, FailFacts DEF Failed
    <3> QED BY <2>2, <3>1, <3>2
  <2>9. job[k]["locked"].road = "resume"
    <3>1. RoadOf(k, "locked") /\ job[k]["locked"].road \in Road
      BY <1>0 DEF IInv, CallsInv, TypeOK
    <3> QED BY <1>1, <3>1 DEF RoadOf, Road, Attempt
  <2>10. CallOf(k, "locked")'
    BY <2>7, <2>8, <2>9 DEF CallOf, Holder, Driving
  <2> QED BY <1>1, <1>3, <2>5, <2>6, <2>7, <2>8, <2>10, OwnerStep
<1> QED BY <1>2, <1>3

LEMMA RequestReviewHolds ==
  ASSUME IInv, IInv', WInv, NEW k \in Controller, RequestReview(k)
  PROVE  WInv'
<1>0. TypeOK /\ "locked" \in Slot /\ "publish" \in Place /\ "grounded" \in Road
  BY DEF IInv, Slot, Place, Road
<1>1. /\ UNCHANGED <<store, boot, lease>> /\ Start(k, "locked", "publish", "grounded")
      /\ published' = [published EXCEPT ![k] = TRUE]
      /\ session' = [session EXCEPT ![k] = "consumed"]
      /\ published[k] \/ session[k] = "ready"
  BY DEF RequestReview
<1>2. lease'[k] = "session"
  BY <1>1 DEF WInv, OwnerInv
<1>3. Elsewhere(k) /\ published'[k]
  BY <1>0, <1>1 DEF Elsewhere, TypeOK
<1>4. Others(k, "locked") /\ job'[k]["locked"].at = "publish" /\ job'[k]["locked"].road = "grounded"
  BY <1>0, <1>1, StartFacts
<1>5. CallOf(k, "locked")'
  BY <1>4 DEF CallOf, Driving
<1> QED BY <1>0, <1>1, <1>2, <1>3, <1>4, <1>5, SameStore, OwnerStep

LEMMA ConsumePendingHolds ==
  ASSUME IInv, IInv', WInv, NEW k \in Controller, ConsumePending(k)
  PROVE  WInv'
<1>0. TypeOK /\ store \in StoreType /\ "locked" \in Slot /\ "verify" \in Place
      /\ "g_recheck" \in Road
  BY DEF IInv, Slot, Place, Road, TypeOK, StoreType
<1>1. /\ UNCHANGED <<store, boot, session, published>>
      /\ Start(k, "locked", "verify", "g_recheck")
      /\ published[k] \/ lease[k] \in {"none", "recovery"}
      /\ lease' = [lease EXCEPT ![k] = IF published[k] THEN @ ELSE "recovery"]
      /\ Phase(store) = "verification_pending" /\ Grounded(store)
  BY DEF ConsumePending
<1>2. Has(store, "g_consume")
  BY <1>0, <1>1, ReviewPhases
<1>3. Elsewhere(k) /\ lease'[k] = IF published[k] THEN lease[k] ELSE "recovery"
  BY <1>0, <1>1 DEF Elsewhere, TypeOK
<1>4. /\ published[k] => lease[k] = "session"
      /\ session[k] = "ready" => published[k]
  BY <1>1 DEF WInv, OwnerInv
<1>5. Others(k, "locked") /\ job'[k]["locked"].at = "verify" /\ job'[k]["locked"].road = "g_recheck"
  BY <1>0, <1>1, StartFacts
<1>6. CallOf(k, "locked")'
  BY <1>1, <1>2, <1>3, <1>4, <1>5 DEF CallOf, Holder, Has
<1>7. lease'[k] \in {"session", "recovery"}
  BY <1>3, <1>4
<1>8. job[k]["free"].at = "idle"
  BY <1>2, FreeSlot
<1> QED BY <1>0, <1>1, <1>3, <1>4, <1>5, <1>6, <1>8, SameStore, OwnerStep

\* The window is released once the review is settled for good.
LEMMA GivenUp ==
  ASSUME IInv, IInv', WInv, NEW k \in Controller, Others(k, "locked"), Elsewhere(k),
         Grows, Taken(k, "locked"), job'[k]["locked"].at = "idle",
         ~published'[k], session'[k] # "ready", job[k]["free"].at = "idle",
         published[k] => ~Open(store)'
  PROVE  WInv'
<1>1. CallOf(k, "locked")'
  BY DEF CallOf, Driving
<1> QED BY <1>1, OwnerStep

LEMMA ReleaseHolds ==
  ASSUME IInv, IInv', WInv, NEW k \in Controller, Release(k)
  PROVE  WInv'
<1>0. TypeOK /\ "locked" \in Slot
  BY DEF IInv, Slot
<1>1. /\ store' = store /\ boot' = boot /\ job[k]["locked"].at = "release" /\ Rest(k, "locked")
      /\ session' = [session EXCEPT ![k] = "none"]
      /\ published' = [published EXCEPT ![k] = FALSE]
      /\ lease' = [lease EXCEPT ![k] = "none"]
  BY DEF Release
<1>2. Elsewhere(k) /\ ~published'[k] /\ session'[k] # "ready"
  BY <1>0, <1>1 DEF Elsewhere, TypeOK
<1>3. Others(k, "locked") /\ job'[k]["locked"].at = "idle"
  BY <1>0, <1>1, RestFacts
<1>4. ~Open(store)'
  <2>1. CallOf(k, "locked")
    BY <1>0 DEF WInv
  <2> QED BY <1>1, <2>1 DEF CallOf, Open, Has
<1>5. job[k]["free"].at = "idle"
  BY <1>0, <1>1, ReleasingFacts, FreeSlot
<1> QED BY <1>0, <1>1, <1>2, <1>3, <1>4, <1>5, SameStore, GivenUp

LEMMA ConsumeTerminalHolds ==
  ASSUME IInv, IInv', WInv, NEW k \in Controller, ConsumeTerminal(k)
  PROVE  WInv'
<1>0. TypeOK /\ "locked" \in Slot /\ store \in StoreType
  BY DEF IInv, Slot, TypeOK, StoreType
<1>1. /\ store' = Read(store) /\ boot' = boot /\ job' = job /\ job[k]["locked"].at = "idle"
      /\ Grounded(store) /\ Phase(store) = "terminal"
      /\ session' = [session EXCEPT ![k] = IF published[k] THEN "none" ELSE @]
      /\ published' = [published EXCEPT ![k] = FALSE]
      /\ lease' = [lease EXCEPT ![k] = IF published[k] \/ @ = "recovery" THEN "none" ELSE @]
  BY DEF ConsumeTerminal, Free
<1>2. /\ Has(store, "g_consume")
      /\ Has(store, "terminal") \/ (Has(store, "pending") /\ store.receipt # "none")
  BY <1>0, <1>1, ReviewPhases
<1>3. Has(store, "claim") /\ Has(store, "g_request")
  BY <1>2 DEF IInv, MarksInv, Has
<1>4. Grows /\ Taken(k, "locked")
  BY <1>0, <1>1, ReadFacts
<1>5. ~Open(store)'
  BY <1>2, <1>4 DEF Open, Grows, Has
<1>6. Elsewhere(k) /\ ~published'[k] /\ session'[k] # "ready"
  <2>1. session[k] # "ready"
    BY <1>3 DEF IInv, SessionInv
  <2> QED BY <1>0, <1>1, <2>1 DEF Elsewhere, TypeOK
<1>7. Others(k, "locked") /\ job'[k]["locked"].at = "idle"
  BY <1>0, <1>1, StayFacts
<1>8. job[k]["free"].at = "idle"
  BY <1>3, FreeSlot
<1> QED BY <1>4, <1>5, <1>6, <1>7, <1>8, GivenUp

LEMMA FinishReviewHolds ==
  ASSUME IInv, IInv', WInv, NEW k \in Controller, FinishReview(k)
  PROVE  WInv'
<1>0. TypeOK /\ "locked" \in Slot
  BY DEF IInv, Slot
<1>1. /\ store' = store /\ boot' = boot /\ Rest(k, "locked") /\ job[k]["locked"].at = "done"
      /\ job[k]["locked"].road \in {"grounded", "g_recheck"}
      /\ session' = [session EXCEPT ![k] = IF published[k] THEN "none" ELSE @]
      /\ published' = [published EXCEPT ![k] = FALSE]
      /\ lease' = [lease EXCEPT ![k] = "none"]
  BY DEF FinishReview
<1>2. Has(store, "g_consume") /\ Has(store, "terminal")
  BY <1>0, <1>1 DEF WInv, CallOf
<1>3. Has(store, "claim") /\ Has(store, "g_request")
  BY <1>2 DEF IInv, MarksInv, Has
<1>4. ~Open(store)'
  BY <1>1, <1>2 DEF Open, Has
<1>5. Elsewhere(k) /\ ~published'[k] /\ session'[k] # "ready"
  <2>1. session[k] # "ready"
    BY <1>3 DEF IInv, SessionInv
  <2> QED BY <1>0, <1>1, <2>1 DEF Elsewhere, TypeOK
<1>6. Others(k, "locked") /\ job'[k]["locked"].at = "idle"
  BY <1>0, <1>1, RestFacts
<1>7. job[k]["free"].at = "idle"
  BY <1>3, FreeSlot
<1> QED BY <1>0, <1>1, <1>4, <1>5, <1>6, <1>7, SameStore, GivenUp

LEMMA SubmitNewHolds ==
  ASSUME IInv, IInv', WInv, NEW k \in Controller, SubmitNew(k)
  PROVE  WInv'
<1>0. TypeOK /\ "free" \in Slot /\ "locked" \in Slot /\ "execute" \in Place /\ "claim" \in Road
  BY DEF IInv, Slot, Place, Road
<1>1. /\ UNCHANGED <<boot, published>> /\ ~published[k] /\ session[k] = "ready"
      /\ ~Has(store, "claim") /\ job[k]["locked"].at = "idle"
  BY DEF SubmitNew, Free
<1>2. job[k]["free"].at = "idle" /\ lease[k] = "session"
  BY <1>1, FreeSlot DEF WInv, OwnerInv
<1>3. store' = store \/ store' = With(store, {"claim"})
  BY DEF SubmitNew
<1>4. "claim" \in Mark
  BY DEF Mark
<1>5. Grows /\ Taken(k, "free") /\ Taken(k, "locked")
  BY <1>0, <1>3, <1>4, OneMark
<1>6. CASE session' = [session EXCEPT ![k] = "consumed"] /\ Start(k, "free", "execute", "claim")
           /\ UNCHANGED lease
  <2>1. Elsewhere(k) /\ session'[k] # "ready" /\ lease'[k] = "session" /\ ~published'[k]
    BY <1>0, <1>1, <1>2, <1>6 DEF Elsewhere, TypeOK
  <2>2. Others(k, "free") /\ job'[k]["free"].at = "execute" /\ job'[k]["free"].road = "claim"
    BY <1>0, <1>6, StartFacts
  <2>3. CallOf(k, "free")'
    BY <2>1, <2>2 DEF CallOf, Holder
  <2>4. \A t \in Slot : t # "free" => job[k][t].at \notin Driving
    BY <1>1 DEF Slot, Driving
  <2> QED BY <1>0, <1>1, <1>5, <2>1, <2>2, <2>3, <2>4, WindowFrame
<1>7. CASE session' = [session EXCEPT ![k] = "consumed"] /\ UNCHANGED job
           /\ lease' = [lease EXCEPT ![k] = "none"]
  <2>1. Elsewhere(k) /\ session'[k] # "ready" /\ ~published'[k]
    BY <1>0, <1>1, <1>7 DEF Elsewhere, TypeOK
  <2>2. Others(k, "locked") /\ job'[k]["locked"].at = "idle"
    BY <1>0, <1>1, <1>7, StayFacts
  <2> QED BY <1>1, <1>2, <1>5, <2>1, <2>2, GivenUp
<1>8. CASE UNCHANGED <<store, session, lease, job>>
  <2>1. Others(k, "locked") /\ job'[k]["locked"].at = "idle" /\ UNCHANGED local
    BY <1>0, <1>1, <1>8, StayFacts DEF local
  <2> QED BY <1>0, <1>8, <2>1, MoveOn
<1> QED BY <1>6, <1>7, <1>8 DEF SubmitNew

LEMMA FinishHolds ==
  ASSUME IInv, IInv', WInv, NEW k \in Controller, NEW s \in Slot, Finish(k, s)
  PROVE  WInv'
<1>0. TypeOK /\ RoadOf(k, s) /\ "locked" \in Slot
  BY DEF IInv, CallsInv, Slot
<1>1. /\ store' = store /\ boot' = boot /\ published' = published /\ Rest(k, s)
      /\ job[k][s].at \in {"end", "done"} /\ job[k][s].road \in {"claim", "resume", "recheck"}
      /\ session' = [session EXCEPT ![k] = IF job[k][s].road = "claim" THEN "none" ELSE @]
      /\ lease' = [lease EXCEPT ![k] =
                     IF @ = (IF job[k][s].road = "claim" THEN "session" ELSE "job")
                     THEN "none" ELSE @]
  BY DEF Finish
<1>2. Others(k, s) /\ job'[k][s].at = "idle"
  BY <1>0, <1>1, RestFacts
<1>3. CallOf(k, s)'
  BY <1>2 DEF CallOf, Driving
<1>4. Grows /\ Taken(k, s)
  BY <1>1, SameStore
<1>5. Elsewhere(k)
  BY <1>0, <1>1 DEF Elsewhere, TypeOK
<1>6. CASE job[k][s].road = "claim"
  <2>1. s = "free" /\ job[k]["free"].at # "idle"
    BY <1>0, <1>1, <1>6 DEF RoadOf
  <2>2. ~published[k] /\ ~Has(store, "g_consume")
    BY <2>1, FreeSlot
  <2>3. session'[k] # "ready" /\ ~published'[k]
    BY <1>0, <1>1, <1>6, <2>2 DEF TypeOK
  <2>4. ASSUME NEW t \in Slot, t # s, job[k][t].at \in Driving, store'.receipt = "none"
        PROVE  lease'[k] \in Holder(job[k][t].road)
    <3>1. t = "locked" /\ job[k]["locked"].at # "idle"
      BY <2>1, <2>4 DEF Slot, Driving
    <3>2. RoadOf(k, "locked") /\ CallOf(k, "locked") /\ job[k]["locked"].road \in Road
      BY <1>0 DEF IInv, CallsInv, WInv, TypeOK
    <3>3. job[k]["locked"].road \in {"resume", "recheck"}
      BY <2>2, <3>1, <3>2 DEF RoadOf, CallOf, Road
    <3>4. lease[k] = "job"
      BY <1>1, <2>4, <3>1, <3>2, <3>3 DEF CallOf, Holder
    <3> QED BY <1>0, <1>1, <1>6, <3>1, <3>3, <3>4 DEF Holder, TypeOK
  <2> QED BY <1>2, <1>3, <1>4, <1>5, <2>2, <2>3, <2>4, WindowFrame
<1>7. CASE job[k][s].road # "claim"
  <2>1. s = "locked"
    BY <1>0, <1>1, <1>7 DEF RoadOf
  <2>2. session'[k] = session[k] /\ published'[k] = published[k]
        /\ lease'[k] = IF lease[k] = "job" THEN "none" ELSE lease[k]
    BY <1>0, <1>1, <1>7 DEF TypeOK
  <2>3. session'[k] = "ready" \/ published'[k] => lease'[k] = "session"
    BY <2>2 DEF WInv, OwnerInv
  <2> QED BY <1>2, <1>3, <1>4, <1>5, <2>1, <2>2, <2>3, OwnerStep
<1> QED BY <1>6, <1>7
-----------------------------------------------------------------------------
(* The window when a process dies, and in every reachable state.            *)

\* The reviews of a process that died are nobody's: its next life has an owner
\* id that no review carries yet.
LEMMA DieHolds ==
  ASSUME IInv, IInv', WInv, NEW k \in Controller, Die(k),
         store'.marks = store.marks, store'.review = store.review, store'.owner = store.owner,
         store.receipt # "none" => store'.receipt # "none"
  PROVE  WInv'
<1>0. TypeOK
  BY DEF IInv
<1>1. \A l \in Controller, t \in Slot :
        IF l = k THEN job'[l][t].at = "idle" ELSE job'[l][t] = job[l][t]
  BY <1>0 DEF Die, TypeOK, Idle
<1>2. \A l \in Controller :
        IF l = k THEN /\ boot'[l] = boot[l] + 1 /\ session'[l] = "none"
                      /\ ~published'[l] /\ lease'[l] = "none"
                 ELSE /\ boot'[l] = boot[l] /\ session'[l] = session[l]
                      /\ published'[l] = published[l] /\ lease'[l] = lease[l]
  BY <1>0 DEF Die, TypeOK
<1>3. /\ store.owner[1] \in Controller /\ store.owner[2] \in Nat
      /\ \A l \in Controller : boot[l] \in Nat
  BY <1>0, ConstantsAssumption DEF TypeOK, Owner
<1>4. store.owner[2] <= boot[store.owner[1]]
  BY DEF WInv, OwnerInv
<1>5. store'.owner[2] <= boot'[store'.owner[1]]
  <2>1. boot[store.owner[1]] <= boot'[store.owner[1]]
    BY <1>2, <1>3
  <2>2. boot'[store.owner[1]] \in Nat
    BY <1>2, <1>3
  <2> QED BY <1>3, <1>4, <2>1, <2>2
<1>6. ASSUME NEW l \in Controller, Open(store)', store'.owner = <<l, boot'[l]>>
      PROVE  published'[l]
  <2>1. CASE l = k
    <3>1. store.owner[1] = k /\ store.owner[2] = boot[k] + 1
      BY <1>2, <1>6, <2>1
    <3> QED BY <1>3, <1>4, <3>1
  <2>2. CASE l # k
    <3>1. Open(store) /\ store.owner = <<l, boot[l]>>
      BY <1>2, <1>6, <2>2 DEF Open, Has
    <3> QED BY <1>2, <2>2, <3>1 DEF WInv, OwnerInv
  <2> QED BY <2>1, <2>2
<1>7. OwnerInv'
  <2>1. Has(store, "terminal")' => store'.receipt # "none"
    BY DEF WInv, OwnerInv, Has
  <2>2. \A l \in Controller : session'[l] = "ready" \/ published'[l] => lease'[l] = "session"
    BY <1>2 DEF WInv, OwnerInv
  <2> QED BY <1>5, <1>6, <2>1, <2>2 DEF OwnerInv
<1>8. ASSUME NEW l \in Controller, NEW t \in Slot
      PROVE  CallOf(l, t)'
  <2>1. CASE l = k
    BY <1>1, <2>1 DEF CallOf, Driving
  <2>2. CASE l # k
    <3>1. job'[l][t] = job[l][t] /\ lease'[l] = lease[l] /\ CallOf(l, t)
      BY <1>1, <1>2, <2>2 DEF WInv
    <3> QED BY <3>1 DEF CallOf, Has
  <2> QED BY <2>1, <2>2
<1> QED BY <1>7, <1>8 DEF WInv

LEMMA CrashHolds ==
  ASSUME IInv, IInv', WInv, NEW k \in Controller, Crash(k)
  PROVE  WInv'
  BY DieHolds DEF Crash

LEMMA CrashInPersistHolds ==
  ASSUME IInv, IInv', WInv, NEW k \in Controller, NEW s \in Slot, CrashInPersist(k, s)
  PROVE  WInv'
<1>1. /\ Die(k) /\ job[k][s].at = "persist" /\ TypeOK
      /\ CanPersist(store, job[k][s].road, job[k][s].receipt)
      /\ store' = Received(store, job[k][s].receipt)
  BY DEF CrashInPersist, IInv
<1>2. /\ store'.marks = store.marks /\ store'.review = store.review
      /\ store'.owner = store.owner
  BY <1>1 DEF Received, TypeOK
<1>3. store.receipt = "none"
  BY <1>1 DEF CanPersist
<1> QED BY <1>1, <1>2, <1>3, DieHolds

LEMMA WindowInit ==
  ASSUME Init
  PROVE  WInv
<1>1. store.marks = {} /\ store.owner = <<Creator, 0>> /\ Creator \in Controller
  BY ConstantsAssumption DEF Init
<1>2. \A k \in Controller : /\ session[k] = IF k = Creator THEN "ready" ELSE "none"
                            /\ lease[k] = IF k = Creator THEN "session" ELSE "none"
                            /\ ~published[k] /\ boot[k] = 0
  BY DEF Init
<1>3. OwnerInv
  BY <1>1, <1>2 DEF OwnerInv, Open, Has
<1>4. \A k \in Controller, s \in Slot : job[k][s].at = "idle"
  BY DEF Init, Idle
<1> QED BY <1>3, <1>4 DEF WInv, CallOf, Driving

LEMMA WindowNext ==
  ASSUME IInv, IInv', WInv, [Next]_vars
  PROVE  WInv'
<1>1. ASSUME NEW k \in Controller, Calls(k)
      PROVE  WInv'
  BY <1>1, SubmitNewHolds, SubmitSpentHolds, SubmitKnownHolds, SubmitApprovedHolds,
    RecheckHolds,
     RequestReviewHolds, CancelHolds, CloseElsewhereHolds, ConsumeHolds, ConsumeTerminalHolds,
     ConsumePendingHolds, JudgeHolds
  DEF Calls
<1>2. ASSUME NEW k \in Controller, Locked(k)
      PROVE  WInv'
  BY <1>2, ResumeStaleHolds, ResumeHolds, PublishClaimHolds, PublishReviewHolds, ReleaseHolds,
     PreviewHolds, BeginConsumeHolds, FinishReviewHolds
  DEF Locked
<1>3. ASSUME NEW k \in Controller, NEW s \in Slot, Work(k, s)
      PROVE  WInv'
  BY <1>3, ExecuteHolds, AskHumanHolds, CloseChangedHolds, MarkDispatchHolds, DispatchHolds,
     CheckpointHolds, VerifyHolds, VerifyFailsHolds, PersistHolds, FinishHolds
  DEF Work
<1>4. CASE UNCHANGED vars
  BY <1>4 DEF vars, WInv, OwnerInv, CallOf, Open, Has
<1> QED BY <1>1, <1>2, <1>3, <1>4, CrashHolds, CrashInPersistHolds, DecideHolds, ExpireHolds
     DEF Next

\* An open review has its phase, and a settled one has another.
LEMMA OpenPhase ==
  ASSUME TypeOK, MarksInv, Has(store, "g_request"),
         Phase(store) \notin {"review_denied", "review_closed", "terminal"}
  PROVE  Open(store)
<1> USE DEF TypeOK, Decision, Receipt, Has, Open
<1>1. Has(store, "claim") /\ Grounded(store) /\ Phase(store) = ReviewPhase(store)
  BY DEF MarksInv, Grounded, Review, Phase
<1>2. CASE Has(store, "g_consume")
  <2>1. ~Has(store, "g_closed") /\ store.review = "approved"
    BY <1>2 DEF MarksInv
  <2>2. CASE Has(store, "terminal")
    BY <1>1, <1>2, <2>2 DEF ReviewPhase
  <2>3. CASE ~Has(store, "terminal") /\ Has(store, "pending") /\ store.receipt # "none"
    BY <1>1, <1>2, <2>3 DEF ReviewPhase
  <2> QED BY <2>1, <2>2, <2>3
<1>3. CASE ~Has(store, "g_consume")
  BY <1>1, <1>3 DEF ReviewPhase
<1> QED BY <1>2, <1>3

\* Whoever looks at or drives the target window before the claim has its
\* receipt holds its lease, and an open review keeps its living owner's context
\* and window, for any number of controllers, deaths and failing calls
\* (_release_grounded_session, cancel_grounded_review, submit_intent).
THEOREM WindowIsKeptHolds == Spec => []WindowIsKept
<1>1. Init => IInv /\ WInv
  BY InvInit, WindowInit
<1>2. IInv /\ WInv /\ [Next]_vars => IInv' /\ WInv'
  BY InvNext, InvStutter, WindowNext
<1>3. IInv /\ WInv => WindowIsKept
  <2> SUFFICES ASSUME IInv, WInv PROVE WindowIsKept
    OBVIOUS
  <2>1. WindowIsHeld
    BY DEF WInv, CallOf, WindowIsHeld
  <2>2. OpenReviewKeepsOwner
    BY OpenPhase DEF IInv, WInv, OwnerInv, OpenReviewKeepsOwner
  <2> QED BY <2>1, <2>2 DEF WindowIsKept
<1> QED BY <1>1, <1>2, <1>3, PTL DEF Spec
==============================================================================
