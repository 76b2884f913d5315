------------------------- MODULE SessionEpochProofs -------------------------
(***************************************************************************)
(* Proofs that one host serves an epoch and that a session is replaced     *)
(* only when it is proved over, for any number of recovery requests,       *)
(* sessions and MCP processes.                                             *)
(*                                                                         *)
(* The argument: sessions are numbered in the order they are taken, and    *)
(* the pointer only moves up (PointerInv).  A host is armed only while the *)
(* pointer names it, so two hosts of one process could serve only if the   *)
(* pointer left one that lives; an explicit recovery leaves a proved one,  *)
(* and an ordinary start the one its process was attached to, which is the *)
(* living host of that process if it has one (AttachedInv).                *)
(***************************************************************************)
EXTENDS SessionEpoch, FiniteSetTheorems, TLAPS

Unfinished(r) == admission[r].phase \notin {"none", "ready"}
Up(s)    == host[s].at # "none"
Own(s)   == mcp.up /\ Up(s) /\ host[s].parent = mcp.id
Armed(s) == host[s].at = "ready" \/ (host[s].at = "waiting" /\ s \in journal)
Launching == call.at \in {"launch", "created", "publish"}

\* An admission that was recorded names a session before and one after.
AdmissionInv ==
  /\ \A r \in Request :
       LET a == admission[r] IN
       /\ (a.phase = "none") <=> (a.new = 0)
       /\ a.phase # "none" => a.source # 0 /\ a.source < a.new /\ Up(a.source)
       /\ a.phase = "prepared" => ~Up(a.new)
       /\ a.phase \in {"host_created", "pointer_published", "ready"} => Up(a.new)
       /\ a.phase \in {"none", "prepared"} => launches[r] = 0
       /\ launches[r] <= 1
  /\ \A r, q \in Request : r # q /\ admission[r].new = admission[q].new => admission[r].new = 0
  /\ \A r, q \in Request : Unfinished(r) /\ Unfinished(q) => r = q

\* Sessions are taken in order, and what happens to a host happens after.
HostInv ==
  /\ \A s, t \in Session : s < t /\ Taken(t) => Taken(s)
  /\ \A s \in Session :
       /\ Up(s) => host[s].parent \in 1..mcp.id
       /\ s \in journal => s <= pointer /\ host[s].at \notin {"none", "starting"}
       /\ host[s].at \in {"ready", "ending"} \/ report[s] \in {"ready", "stopped"} => s \in journal
       /\ s \in accepted => Up(s)

PointerInv == (pointer # 0 => Up(pointer)) /\ PointerIsRecorded

\* What a call in progress knows.
CallInv ==
  /\ ~mcp.up => call = Idle /\ mcp.session = 0
  /\ call.at = "idle" => call = Idle
  /\ call.at \in {"admitted", "attach", "settle"} => call.for \in Request
  /\ call.for \in Request => /\ call.new = Mine.new /\ Mine.phase # "none"
                             /\ OthersReady(call.for)
  /\ call.at \in {"attach", "settle"} => pointer = call.new
  /\ Launching =>
       /\ call.new # 0 /\ pointer < call.new /\ call.new \notin journal
       /\ call.at = "launch" <=> ~Up(call.new)
       /\ call.at # "launch" => mcp.session = call.new /\ host[call.new].parent = mcp.id
  /\ call.at \in {"launch", "created"} /\ call.for \in Request => Mine.phase = "launch_started"
  /\ call.at = "publish" /\ call.for \in Request => Mine.phase = "host_created"
  /\ call.at = "launch" /\ call.for \in Request =>
       /\ launches[call.for] = 0
       /\ pointer = Mine.source /\ ~Living(Mine.source) /\ Mine.source \in settled
  /\ Launching /\ call.for \notin Request =>
       /\ \A r \in Request : admission[r].new # call.new
       /\ \A t \in Session : call.new < t => ~Taken(t)
       /\ \A t \in Session : t < call.new => Taken(t)
       /\ pointer # 0 => ~(Living(pointer) /\ host[pointer].parent = mcp.id)
  /\ call.at = "launch" /\ call.for \notin Request => mcp.session = 0

\* A living host of this process that the pointer names, or that an unfinished
\* recovery made, is the host of the session the process is attached to.
Made(r) == Unfinished(r) /\ admission[r].phase # "prepared"

Held(s) == /\ Own(s) /\ Living(s)
           /\ s = pointer \/ \E r \in Request : Made(r) /\ admission[r].new = s

AttachedInv == \A s \in Session : Held(s) => mcp.session = s

ArmedInv == \A s \in Session : Own(s) /\ Armed(s) => s = pointer

IInv == /\ TypeOK /\ AdmissionInv /\ HostInv /\ PointerInv /\ CallInv /\ AttachedInv
        /\ ArmedInv /\ NoCommandBeforeReady
-----------------------------------------------------------------------------
\* A step of the specification is one of its actions.
LEMMA NextCases ==
  ASSUME Next
  PROVE  \/ StartFirst \/ StartAttaches \/ StartNew
         \/ LaunchUnknown \/ BeginLaunch \/ PublishAgain \/ Reattach \/ AttachHost \/ SettleAdmission
         \/ Spawn \/ Created \/ Publish \/ CallRaises \/ Submit \/ Stop \/ Die \/ Connect
         \/ \E r \in Request : Admit(r) \/ Retry(r)
         \/ \E s \in Session : \/ Boot(s) \/ HostJournals(s) \/ HostServes(s) \/ HostGivesUp(s)
                               \/ HostOrphaned(s) \/ HostEnds(s) \/ HostDies(s) \/ Settle(s)
  BY DEF Next, Start, Recover, LaunchSession, StartUp

LEMMA InvInit == ASSUME Init PROVE IInv
<1> USE RequestAssumption, BoundAssumption DEF Init, Session, NoAdmission, Idle, AdmissionPhase
<1>1. TypeOK
  BY DEF TypeOK
<1>2. AdmissionInv /\ HostInv
  BY DEF AdmissionInv, HostInv, Unfinished, Up, Taken
<1>3. PointerInv /\ CallInv /\ AttachedInv
  BY DEF PointerInv, PointerIsRecorded, CallInv, Launching, AttachedInv, Held, Own, Unfinished,
    Up
<1>4. ArmedInv /\ NoCommandBeforeReady
  BY DEF ArmedInv, Own, Up, NoCommandBeforeReady
<1> QED BY <1>1, <1>2, <1>3, <1>4 DEF IInv

\* A new session is above every session that was taken.
LEMMA UnusedIsLast ==
  ASSUME TypeOK, HostInv, NEW s \in Unused
  PROVE  /\ s \in Session /\ ~Taken(s)
         /\ \A t \in Session : Taken(t) <=> t < s
  BY DEF TypeOK, HostInv, Unused, Session
\* A step that makes no host and moves no pointer.
LEMMA HeldFrame ==
  ASSUME UNCHANGED <<pointer, host>>, mcp'.up => mcp.up /\ mcp'.id = mcp.id,
         \A r \in Request : Made(r)' =>
           admission'[r].new = admission[r].new /\ (Made(r) \/ ~Up(admission[r].new)),
         NEW s \in Session, Held(s)'
  PROVE  Held(s) /\ mcp'.up
<1>1. mcp'.up /\ Own(s) /\ Living(s) /\ Up(s)
  BY DEF Held, Own, Up, Living
<1>2. CASE s = pointer'
  BY <1>1, <1>2 DEF Held
<1>3. CASE \E r \in Request : Made(r)' /\ admission'[r].new = s
  <2>1. PICK r \in Request : Made(r)' /\ admission'[r].new = s
    BY <1>3
  <2>2. admission[r].new = s /\ (Made(r) \/ ~Up(admission[r].new))
    BY <2>1
  <2>3. Made(r)
    BY <1>1, <2>2
  <2> QED BY <1>1, <2>2, <2>3 DEF Held
<1> QED BY <1>2, <1>3 DEF Held

LEMMA AttachedFrame ==
  ASSUME AttachedInv, UNCHANGED <<pointer, host>>, mcp'.up => mcp.up /\ mcp'.id = mcp.id,
         \A r \in Request : Made(r)' =>
           admission'[r].new = admission[r].new /\ (Made(r) \/ ~Up(admission[r].new)),
         \/ mcp'.up => mcp'.session = mcp.session
         \/ \A s \in Session : ~Held(s)
  PROVE  AttachedInv'
<1>1. \A s \in Session : Held(s)' => Held(s) /\ mcp'.up
  BY HeldFrame
<1>2. ASSUME NEW s \in Session, Held(s)' PROVE mcp'.session = s
  BY <1>1, <1>2 DEF AttachedInv
<1> QED BY <1>2 DEF AttachedInv, Session

\* A process without a session has no living host that anything names.
LEMMA NothingHeld ==
  ASSUME AttachedInv, TypeOK, mcp.session = 0 \/ ~Living(mcp.session)
  PROVE  \A s \in Session : ~Held(s)
<1>1. ASSUME NEW s \in Session, Held(s) PROVE FALSE
  <2>1. mcp.session = s /\ Living(s) /\ s # 0
    BY <1>1 DEF AttachedInv, Held, Session
  <2> QED BY <2>1
<1> QED BY <1>1

\* Nor has one that is about to launch another.
LEMMA NothingHeldAtLaunch ==
  ASSUME IInv, call.at = "launch"
  PROVE  \A s \in Session : ~Held(s)
<1>1. CASE call.for \in Request
  <2>1. ~Living(pointer) /\ ~Up(Mine.new) /\ OthersReady(call.for)
    BY <1>1 DEF IInv, CallInv, Launching
  <2>2. \A r \in Request : Made(r) => r = call.for
    BY <2>1 DEF OthersReady, Made, Unfinished
  <2>3. \A s \in Session : Living(s) => Up(s)
    BY DEF Living, Up, Alive, Serving
  <2>4. ASSUME NEW s \in Session, Held(s) PROVE FALSE
    <3>1. Living(s) /\ Up(s) /\ s # pointer
      BY <2>1, <2>3, <2>4 DEF Held
    <3>2. \E r \in Request : Made(r) /\ admission[r].new = s
      BY <2>4, <3>1 DEF Held
    <3>3. Mine.new = s
      BY <2>2, <3>2 DEF Mine
    <3> QED BY <2>1, <3>1, <3>3
  <2> QED BY <2>4
<1>2. CASE call.for \notin Request
  <2>1. mcp.session = 0
    BY <1>2 DEF IInv, CallInv
  <2> QED BY <2>1, NothingHeld DEF IInv
<1> QED BY <1>1, <1>2
-----------------------------------------------------------------------------
(* Writing the phase of the admission in hand.                              *)

LEMMA RecordFrame ==
  ASSUME TypeOK, call.for \in Request, NEW p \in AdmissionPhase, Record(p)
  PROVE  /\ admission' \in [Request -> [phase : AdmissionPhase, source : Session \cup {0},
                                        new : Session \cup {0}]]
         /\ admission'[call.for].phase = p
         /\ \A r \in Request : /\ admission'[r].new = admission[r].new
                               /\ admission'[r].source = admission[r].source
                               /\ r # call.for => admission'[r] = admission[r]
  BY DEF TypeOK, Record

LEMMA RecordKeeps ==
  ASSUME IInv, call.for \in Request, Unfinished(call.for),
         NEW p \in AdmissionPhase \ {"none", "prepared"}, Record(p),
         UNCHANGED <<pointer, host, report, journal, settled, accepted, launches>>,
         mcp'.id = mcp.id,
         p = "launch_started" => pointer # Mine.new,
         p # "launch_started" => Up(Mine.new)
  PROVE  AdmissionInv' /\ HostInv' /\ PointerInv' /\ NoCommandBeforeReady'
<1>1. /\ admission'[call.for].phase = p
      /\ \A r \in Request : /\ admission'[r].new = admission[r].new
                            /\ admission'[r].source = admission[r].source
                            /\ r # call.for => admission'[r] = admission[r]
  BY RecordFrame DEF IInv
<1>2. \A s \in Session : Taken(s)' <=> Taken(s)
  BY <1>1 DEF Taken
<1>3. AdmissionInv'
  <2>1. \A r \in Request :
          /\ (admission'[r].phase = "none") <=> (admission'[r].new = 0)
          /\ admission'[r].phase # "none" =>
               admission'[r].source # 0 /\ admission'[r].source < admission'[r].new /\ Up(admission[r].source)'
          /\ admission'[r].phase = "prepared" => ~Up(admission[r].new)'
          /\ admission'[r].phase \in {"host_created", "pointer_published", "ready"} => Up(admission[r].new)'
          /\ admission'[r].phase \in {"none", "prepared"} => launches'[r] = 0
          /\ launches'[r] <= 1
    <3> TAKE r \in Request
    <3>1. CASE r = call.for
      <4>1. admission[r].phase \notin {"none", "ready"} /\ Mine = admission[r]
        BY <3>1 DEF Unfinished, Mine
      <4>2. admission[r].new # 0 /\ admission[r].source # 0
            /\ admission[r].source < admission[r].new /\ Up(admission[r].source) /\ launches[r] <= 1
        BY <4>1 DEF IInv, AdmissionInv
      <4> QED BY <1>1, <3>1, <4>1, <4>2 DEF Up
    <3>2. CASE r # call.for
      BY <1>1, <3>2 DEF IInv, AdmissionInv, Up
    <3> QED BY <3>1, <3>2
  <2>2. \A r, q \in Request :
          r # q /\ admission'[r].new = admission'[q].new => admission'[r].new = 0
    BY <1>1 DEF IInv, AdmissionInv
  <2>3. \A r, q \in Request : Unfinished(r)' /\ Unfinished(q)' => r = q
    <3>1. \A r \in Request : Unfinished(r)' => Unfinished(r)
      BY <1>1 DEF Unfinished
    <3> QED BY <3>1 DEF IInv, AdmissionInv
  <2> QED BY <2>1, <2>2, <2>3 DEF AdmissionInv
<1>4. HostInv'
  BY <1>2 DEF IInv, HostInv, Up
<1>5. PointerInv'
  BY <1>1 DEF IInv, PointerInv, PointerIsRecorded, Up, Mine, AdmissionPhase
<1>6. NoCommandBeforeReady'
  BY <1>1 DEF IInv, NoCommandBeforeReady, Unfinished
<1> QED BY <1>3, <1>4, <1>5, <1>6
-----------------------------------------------------------------------------
(* The calls.                                                               *)

\* A call that writes nothing leaves what is on disk as it was.
LEMMA DiskFrame ==
  ASSUME IInv, TypeOK',
         UNCHANGED <<pointer, admission, host, report, journal, settled, accepted, launches>>,
         mcp'.id >= mcp.id
  PROVE  AdmissionInv' /\ HostInv' /\ PointerInv' /\ NoCommandBeforeReady'
<1> USE DEF IInv, TypeOK
<1>1. AdmissionInv'
  BY DEF AdmissionInv, Unfinished, Up
<1>2. HostInv'
  BY DEF HostInv, Up, Taken
<1>3. PointerInv'
  BY DEF PointerInv, PointerIsRecorded, Up
<1>4. NoCommandBeforeReady'
  BY DEF NoCommandBeforeReady
<1> QED BY <1>1, <1>2, <1>3, <1>4

LEMMA StartKeeps ==
  ASSUME IInv, TypeOK', StartFirst \/ StartAttaches \/ StartNew
  PROVE  IInv'
<1>0. /\ UNCHANGED <<pointer, admission, host, report, journal, settled, accepted, launches>>
      /\ mcp'.id >= mcp.id
  BY DEF StartFirst, StartAttaches, StartNew, IInv, TypeOK
<1>1. AdmissionInv' /\ HostInv' /\ PointerInv' /\ NoCommandBeforeReady'
  BY <1>0, DiskFrame
<1> USE DEF IInv, TypeOK, Session
<1>2. CASE StartFirst
  <2>1. PICK s \in Unused : Launch(NoRequest, s)
    BY <1>2 DEF StartFirst
  <2>2. /\ s \in Session /\ ~Taken(s) /\ \A t \in Session : Taken(t) <=> t < s
        /\ mcp.up /\ mcp' = mcp /\ pointer = 0 /\ mcp.session = 0
        /\ call = Idle /\ call' = [at |-> "launch", for |-> NoRequest, new |-> s]
        /\ UNCHANGED <<pointer, admission, host, report, journal, settled, accepted, launches>>
    BY <1>2, <2>1, UnusedIsLast DEF StartFirst, Ready, Launch
  <2>3. CallInv'
    <3>1. s # 0 /\ pointer < s /\ s \notin journal /\ ~Up(s) /\ \A r \in Request : admission[r].new # s
      BY <2>2 DEF Taken, Up, HostInv, PointerInv
    <3> QED BY <2>2, <3>1, RequestAssumption DEF CallInv, Launching, Up, Taken, Living
  <2>4. AttachedInv'
    BY <2>2, AttachedFrame DEF Made, Unfinished
  <2>5. ArmedInv'
    BY <2>2 DEF ArmedInv, Own, Up, Armed
  <2> QED BY <1>1, <2>3, <2>4, <2>5
<1>3. CASE StartAttaches
  <2>1. CallInv'
    BY <1>3 DEF StartAttaches, CallInv, Launching, Up, Living, Mine, OthersReady, Taken, Ready,
      Idle
  <2>2. mcp.session = 0 /\ mcp' = [mcp EXCEPT !.session = pointer]
    BY <1>3 DEF StartAttaches, Attached
  <2>3. AttachedInv'
    BY <1>0, <2>2, AttachedFrame, NothingHeld DEF Made, Unfinished
  <2>4. ArmedInv'
    BY <1>0, <2>2 DEF ArmedInv, Own, Up, Armed
  <2> QED BY <1>1, <2>1, <2>3, <2>4
<1>4. CASE StartNew
  <2>1. PICK s \in Unused : Launch(NoRequest, s)
    BY <1>4 DEF StartNew
  <2>2. /\ s \in Session /\ ~Taken(s) /\ \A t \in Session : Taken(t) <=> t < s
        /\ mcp.up /\ mcp' = [mcp EXCEPT !.session = 0]
        /\ call = Idle /\ call' = [at |-> "launch", for |-> NoRequest, new |-> s]
        /\ UNCHANGED <<pointer, admission, host, report, journal, settled, accepted, launches>>
    BY <1>4, <2>1, UnusedIsLast DEF StartNew, Ready, Launch
  <2>3. pointer # 0 => ~(Living(pointer) /\ host[pointer].parent = mcp.id)
    <3> SUFFICES ASSUME pointer # 0, Living(pointer), host[pointer].parent = mcp.id
                 PROVE  FALSE
      OBVIOUS
    <3>1. Own(pointer)
      BY <2>2 DEF Own, Up, Living, Alive, Serving
    <3>2. Attached # 0 /\ report[Attached] = "stopped" /\ ~Living(Attached) /\ Attached \in Session
      BY <1>4 DEF StartNew, CleanupVerified, Attached
    <3>3. Attached # pointer /\ Attached = mcp.session /\ mcp.session # 0
      BY <3>2 DEF Attached
    <3>4. Held(pointer)
      BY <3>1 DEF Held
    <3>5. mcp.session = pointer
      BY <3>4 DEF AttachedInv
    <3> QED BY <3>3, <3>5
  <2>4. CallInv'
    <3>1. s # 0 /\ pointer < s /\ s \notin journal /\ ~Up(s) /\ \A r \in Request : admission[r].new # s
      BY <2>2 DEF Taken, Up, HostInv, PointerInv
    <3> QED BY <2>2, <2>3, <3>1, RequestAssumption DEF CallInv, Launching, Up, Taken, Living
  <2>5. ~Living(mcp.session) \/ mcp.session = 0
    BY <1>4 DEF StartNew, CleanupVerified, Attached
  <2>6. AttachedInv'
    BY <2>2, <2>5, AttachedFrame, NothingHeld DEF Made, Unfinished
  <2>7. ArmedInv'
    BY <2>2 DEF ArmedInv, Own, Up, Armed
  <2> QED BY <1>1, <2>4, <2>6, <2>7
<1> QED BY <1>2, <1>3, <1>4

\* A call that ends, or begins with an admission that is there already.
LEMMA QuietCallKeeps ==
  ASSUME IInv, TypeOK',
         \/ LaunchUnknown \/ Reattach \/ CallRaises \/ Die \/ Connect
         \/ \E r \in Request : Retry(r)
  PROVE  IInv'
<1>0. /\ UNCHANGED <<pointer, admission, host, report, journal, settled, accepted, launches>>
      /\ mcp'.id >= mcp.id
  <2> USE BoundAssumption DEF IInv, TypeOK
  <2>1. CASE LaunchUnknown \/ Reattach \/ \E r \in Request : Retry(r)
    BY <2>1 DEF LaunchUnknown, Reattach, Retry
  <2>2. CASE CallRaises
    BY <2>2 DEF CallRaises
  <2>3. CASE Die
    BY <2>3 DEF Die
  <2>4. CASE Connect
    BY <2>4 DEF Connect
  <2> QED BY <2>1, <2>2, <2>3, <2>4
<1>1. AdmissionInv' /\ HostInv' /\ PointerInv' /\ NoCommandBeforeReady'
  BY <1>0, DiskFrame
<1> USE DEF IInv, TypeOK, Session
<1>2. CASE LaunchUnknown \/ Reattach
  <2>1. CallInv'
    BY <1>2, RequestAssumption DEF LaunchUnknown, Reattach, At, Return, Goto, Idle, Published,
      CallInv, Launching,
       Up, Mine, OthersReady, Living, Taken
  <2>2. mcp' = mcp
    BY <1>2 DEF LaunchUnknown, Reattach
  <2>3. AttachedInv'
    BY <1>0, <2>2, AttachedFrame DEF Made, Unfinished
  <2>4. ArmedInv'
    BY <1>0, <2>2 DEF ArmedInv, Own, Up, Armed
  <2> QED BY <1>1, <2>1, <2>3, <2>4
<1>3. CASE CallRaises
  <2>1. CallInv'
    BY <1>3, RequestAssumption DEF CallRaises, Return, Idle, CallInv, Launching
  <2>2. AttachedInv'
    <3>1. CASE mcp' = mcp
      BY <1>0, <3>1, AttachedFrame DEF Made, Unfinished
    <3>2. CASE call.at = "launch" /\ mcp' = [mcp EXCEPT !.session = call.new]
      BY <1>0, <3>2, AttachedFrame, NothingHeldAtLaunch DEF Made, Unfinished
    <3> QED BY <1>3, <3>1, <3>2 DEF CallRaises
  <2>3. ArmedInv'
    BY <1>3 DEF CallRaises, ArmedInv, Own, Up, Armed
  <2> QED BY <1>1, <2>1, <2>2, <2>3
<1>4. CASE Die
  <2>1. CallInv'
    BY <1>4, RequestAssumption DEF Die, Return, Idle, CallInv, Launching
  <2>2. AttachedInv' /\ ArmedInv'
    BY <1>4 DEF Die, AttachedInv, Held, ArmedInv, Own
  <2> QED BY <1>1, <2>1, <2>2
<1>6. CASE Connect
  <2>1. call = Idle /\ call' = Idle /\ mcp' = [up |-> TRUE, id |-> mcp.id + 1, session |-> 0]
    BY <1>6 DEF Connect, CallInv
  <2>2. \A s \in Session : ~Own(s)'
    BY <1>6, <2>1 DEF Connect, Own, Up, HostInv
  <2>3. CallInv'
    BY <2>1, RequestAssumption DEF CallInv, Launching, Idle
  <2>4. AttachedInv' /\ ArmedInv'
    BY <2>2 DEF AttachedInv, Held, ArmedInv
  <2> QED BY <1>1, <2>3, <2>4
<1>5. ASSUME NEW r \in Request, Retry(r) PROVE IInv'
  <2>1. CallInv'
    BY <1>5, RequestAssumption DEF Retry, Ready, Idle, OthersReady, CallInv, Launching, Mine
  <2>2. mcp' = mcp
    BY <1>5 DEF Retry
  <2>3. AttachedInv'
    BY <1>0, <2>2, AttachedFrame DEF Made, Unfinished
  <2>4. ArmedInv'
    BY <1>0, <2>2 DEF ArmedInv, Own, Up, Armed
  <2> QED BY <1>1, <2>1, <2>3, <2>4
<1> QED BY <1>2, <1>3, <1>4, <1>5, <1>6

\* The first write of a recovery: the request and the session it will have.
LEMMA AdmitKeeps ==
  ASSUME IInv, TypeOK', NEW r \in Request, Admit(r)
  PROVE  IInv'
<1> USE DEF Session
<1>1. PICK s \in Unused :
        /\ admission' = [admission EXCEPT ![r] = [phase |-> "prepared", source |-> pointer, new |-> s]]
        /\ call' = [at |-> "admitted", for |-> r, new |-> s]
  BY DEF Admit
<1>2. /\ s \in Session /\ ~Taken(s) /\ \A t \in Session : Taken(t) <=> t < s
  BY <1>1, UnusedIsLast DEF IInv
<1>3. /\ mcp.up /\ call = Idle /\ OthersReady(r) /\ admission[r].phase = "none"
      /\ Proved(pointer)
      /\ UNCHANGED <<mcp, pointer, host, report, journal, settled, accepted, launches>>
  BY DEF Admit, Ready
<1> USE DEF IInv, TypeOK
<1>4. /\ admission'[r] = [phase |-> "prepared", source |-> pointer, new |-> s]
      /\ \A q \in Request : q # r => admission'[q] = admission[q]
  BY <1>1
<1>5. /\ pointer # 0 /\ pointer \in Session /\ Up(pointer) /\ pointer < s /\ ~Up(s)
      /\ \A q \in Request : admission[q].new # s
  BY <1>2, <1>3 DEF Proved, PointerInv, Taken, Up
<1>6. \A t \in Session : Taken(t)' <=> Taken(t) \/ t = s
  <2>1. admission[r].new = 0
    BY <1>3 DEF AdmissionInv
  <2> TAKE t \in Session
  <2>2. (\E q \in Request : admission'[q].new = t) <=> (\E q \in Request : admission[q].new = t) \/ t = s
    <3>1. admission'[r].new = s /\ \A q \in Request \ {r} : admission'[q].new = admission[q].new
      BY <1>4
    <3>2. t # 0
      OBVIOUS
    <3> HIDE DEF IInv, TypeOK, Session
    <3> QED BY <2>1, <3>1, <3>2, SMTT(30)
  <2> QED BY <1>3, <2>2 DEF Taken
<1>7. AdmissionInv'
  <2>1. ASSUME NEW q \in Request, q # r
        PROVE  LET a == admission'[q] IN
               /\ (a.phase = "none") <=> (a.new = 0)
               /\ a.phase # "none" => a.source # 0 /\ a.source < a.new
               /\ a.phase # "none" => Up(admission[q].source)'
               /\ a.phase = "prepared" => ~Up(admission[q].new)'
               /\ a.phase \in {"host_created", "pointer_published", "ready"} => Up(admission[q].new)'
               /\ a.phase \in {"none", "prepared"} => launches'[q] = 0
               /\ launches'[q] <= 1
    BY <1>3, <1>4, <2>1 DEF AdmissionInv, Up
  <2>2. launches'[r] = 0
    BY <1>3 DEF AdmissionInv
  <2>3. \A p, q \in Request : Unfinished(p)' /\ Unfinished(q)' => p = q
    BY <1>3, <1>4 DEF OthersReady, Unfinished
  <2>4. \A p, q \in Request : p # q /\ admission'[p].new = admission'[q].new => admission'[p].new = 0
    <3>1. \A p, q \in Request : p # q /\ admission[p].new = admission[q].new => admission[p].new = 0
      BY DEF AdmissionInv
    <3>2. admission'[r].new = s /\ \A q \in Request \ {r} : admission'[q].new = admission[q].new
      BY <1>4
    <3>3. \A q \in Request : admission[q].new # s
      BY <1>5
    <3> HIDE DEF IInv, TypeOK, Session
    <3> QED BY <3>1, <3>2, <3>3, SMTT(30)
  <2> QED BY <1>3, <1>4, <1>5, <2>1, <2>2, <2>3, <2>4 DEF AdmissionInv, Up
<1>8. HostInv'
  BY <1>2, <1>3, <1>6 DEF HostInv, Up
<1>9. PointerInv'
  <2>1. \A q \in Request : admission'[q].new # 0 /\ pointer = admission'[q].new => q # r
    BY <1>4, <1>5
  <2> QED BY <1>3, <1>4, <2>1 DEF PointerInv, PointerIsRecorded, Up
<1>10. NoCommandBeforeReady'
  <2>1. s \notin accepted
    BY <1>2, <1>5 DEF HostInv
  <2>2. \A q \in Request \ {r} : admission'[q] = admission[q]
    BY <1>4
  <2>3. admission'[r].new = s /\ accepted' = accepted
    BY <1>3, <1>4
  <2>4. \A q \in Request : admission[q].new \in accepted => admission[q].phase = "ready"
    BY DEF NoCommandBeforeReady
  <2> HIDE DEF IInv, TypeOK, Session
  <2> QED BY <2>1, <2>2, <2>3, <2>4 DEF NoCommandBeforeReady
<1>11. CallInv'
  BY <1>1, <1>3, <1>4, <1>5, RequestAssumption DEF CallInv, Launching, Mine, OthersReady
<1>12. AttachedInv'
  <2>1. \A q \in Request : Made(q)' => admission'[q].new = admission[q].new /\ Made(q)
    BY <1>4 DEF Made, Unfinished
  <2> QED BY <1>3, <2>1, AttachedFrame
<1>13. ArmedInv'
  BY <1>3 DEF ArmedInv, Own, Up, Armed
<1> QED BY <1>7, <1>8, <1>9, <1>10, <1>11, <1>12, <1>13

\* The intention to launch, and the check of the source that precedes it.
LEMMA BeginLaunchKeeps ==
  ASSUME IInv, TypeOK', BeginLaunch
  PROVE  IInv'
<1>1. /\ call.for \in Request /\ call.new = Mine.new /\ Mine.phase = "prepared"
      /\ Record("launch_started") /\ call' = [call EXCEPT !.at = "launch"]
      /\ pointer # call.new /\ pointer = Mine.source /\ Proved(Mine.source)
      /\ UNCHANGED <<mcp, pointer, host, report, journal, settled, accepted, launches>>
  BY DEF BeginLaunch, At, MayLaunch, Published, Goto, IInv, CallInv
<1>2. Unfinished(call.for)
  BY <1>1 DEF Unfinished, Mine
<1>3. AdmissionInv' /\ HostInv' /\ PointerInv' /\ NoCommandBeforeReady'
  BY <1>1, <1>2, RecordKeeps DEF AdmissionPhase
<1>4. /\ admission'[call.for].phase = "launch_started"
      /\ \A q \in Request : /\ admission'[q].new = admission[q].new
                            /\ admission'[q].source = admission[q].source
                            /\ q # call.for => admission'[q] = admission[q]
  BY <1>1, RecordFrame DEF AdmissionPhase, IInv
<1> USE DEF IInv, TypeOK, Session
<1>5. CallInv'
  <2>1. call.at = "admitted"
    BY DEF BeginLaunch, At
  <2>2. /\ call.new # 0 /\ pointer < call.new /\ ~Up(call.new) /\ call.new \notin journal
        /\ launches[call.for] = 0
    BY <1>1 DEF AdmissionInv, HostInv, Up, Mine
  <2>3. OthersReady(call.for)'
    BY <1>1, <1>4, <2>1 DEF CallInv, OthersReady
  <2>4. ~Living(Mine.source) /\ Mine.source \in settled /\ Mine'.source = Mine.source
        /\ Mine'.new = call.new /\ Mine'.phase = "launch_started"
    BY <1>1, <1>4 DEF Proved, Mine
  <2>5. /\ call'.at = "launch" /\ call'.for = call.for /\ call'.new = call.new /\ mcp.up
    BY <1>1 DEF BeginLaunch, At
  <2> QED BY <1>1, <2>2, <2>3, <2>4, <2>5 DEF CallInv, Launching, Up, Living
<1>6. AttachedInv'
  <2>1. ~Up(admission[call.for].new)
    BY <1>1 DEF AdmissionInv, Mine
  <2>2. \A q \in Request : Made(q)' => Made(q) \/ q = call.for
    BY <1>4 DEF Made, Unfinished
  <2> QED BY <1>1, <1>4, <2>1, <2>2, AttachedFrame
<1>7. ArmedInv'
  BY <1>1 DEF ArmedInv, Own, Up, Armed
<1> QED BY <1>3, <1>5, <1>6, <1>7

\* The pointer moves to a recovered session whose source is proved over.
LEMMA PublishAgainKeeps ==
  ASSUME IInv, TypeOK', PublishAgain
  PROVE  IInv'
<1> USE DEF IInv, TypeOK, Session, PublishAgain, At, Published, Proved, Goto
<1>1. /\ pointer = Mine.source /\ ~Living(pointer) /\ Up(call.new) /\ pointer < call.new
      /\ call.for \in Request /\ call.new = Mine.new /\ Mine.phase = "host_created"
  BY DEF CallInv, AdmissionInv, Mine
<1>2. AdmissionInv' /\ NoCommandBeforeReady'
  BY DEF AdmissionInv, Unfinished, Up, NoCommandBeforeReady
<1>3. HostInv'
  <2>1. \A s \in Session : Taken(s)' <=> Taken(s)
    BY DEF Taken
  <2> QED BY <1>1, <2>1 DEF HostInv, Up
<1>4. PointerInv'
  BY <1>1 DEF PointerInv, PointerIsRecorded, Up, AdmissionInv, Mine
<1>5. CallInv'
  BY <1>1, RequestAssumption DEF CallInv, Launching, Mine, OthersReady
<1>6. AttachedInv'
  <2>1. Made(call.for) /\ admission[call.for].new = call.new
    BY <1>1 DEF Made, Unfinished, Mine
  <2>2. ASSUME NEW s \in Session, Held(s)' PROVE Held(s)
    <3>1. Own(s) /\ Living(s)
      BY <2>2 DEF Held, Own, Up, Living
    <3>2. \E r \in Request : Made(r) /\ admission[r].new = s
      BY <1>1, <2>1, <2>2 DEF Held, Made, Unfinished
    <3> QED BY <3>1, <3>2 DEF Held
  <2> QED BY <2>2 DEF AttachedInv
<1>7. ArmedInv'
  BY <1>1 DEF ArmedInv, Own, Armed, Up, Living, Alive, Serving
<1> QED BY <1>2, <1>3, <1>4, <1>5, <1>6, <1>7

\* The process of a new session is made.
LEMMA SpawnKeeps ==
  ASSUME IInv, TypeOK', Spawn
  PROVE  IInv'
<1> USE RequestAssumption DEF IInv, TypeOK, Session, Spawn, At, Goto
<1>1. /\ call.new \in Session /\ ~Up(call.new) /\ pointer < call.new /\ call.new \notin journal
      /\ pointer' = pointer /\ admission' = admission /\ journal' = journal /\ report' = report
      /\ accepted' = accepted /\ mcp'.id = mcp.id /\ mcp'.up /\ mcp.up
      /\ host'[call.new] = [at |-> "starting", parent |-> mcp.id]
      /\ \A s \in Session \ {call.new} : host'[s] = host[s]
  BY DEF CallInv, Launching
<1>2. AdmissionInv'
  BY DEF AdmissionInv, Unfinished, Up, CallInv, Launching, Mine
<1>3. HostInv'
  <2>1. \A s \in Session : Taken(s)' <=> Taken(s) \/ s = call.new
    BY <1>1 DEF Taken
  <2>2. \A t \in Session : t < call.new => Taken(t)
    <3>1. CASE call.for \in Request
      <4>1. Taken(call.new)
        BY <3>1, <1>1 DEF CallInv, Mine, Taken
      <4> QED BY <1>1, <4>1 DEF HostInv
    <3>2. CASE call.for \notin Request
      BY <3>2 DEF CallInv, Launching
    <3> QED BY <3>1, <3>2
  <2>3. \A s, t \in Session : s < t /\ Taken(t)' => Taken(s)'
    BY <2>1, <2>2 DEF HostInv
  <2>4. \A s \in Session :
          /\ Up(s)' => host'[s].parent \in 1..mcp'.id
          /\ s \in journal' => s <= pointer' /\ host'[s].at \notin {"none", "starting"}
          /\ host'[s].at \in {"ready", "ending"} \/ report'[s] \in {"ready", "stopped"} => s \in journal'
          /\ s \in accepted' => Up(s)'
    BY <1>1 DEF HostInv, Up
  <2> QED BY <2>3, <2>4 DEF HostInv
<1>4. PointerInv'
  BY <1>1 DEF PointerInv, PointerIsRecorded, Up
<1>5. CallInv'
  BY DEF CallInv, Launching, Up, Mine, OthersReady, Living, Taken
<1>6. AttachedInv'
  <2>1. \A s \in Session : ~Held(s)
    BY NothingHeldAtLaunch
  <2>2. ASSUME NEW s \in Session, Held(s)', s # call.new PROVE FALSE
    <3>1. Held(s)
      BY <1>1, <2>2 DEF Held, Own, Up, Living, Made, Unfinished
    <3> QED BY <2>1, <3>1
  <2>3. mcp'.session = call.new
    OBVIOUS
  <2> QED BY <2>2, <2>3 DEF AttachedInv
<1>7. ArmedInv'
  BY <1>1 DEF ArmedInv, Own, Armed, Up
<1>8. NoCommandBeforeReady'
  BY DEF NoCommandBeforeReady
<1> QED BY <1>2, <1>3, <1>4, <1>5, <1>6, <1>7, <1>8

\* The identity of the new host is on disk.
LEMMA CreatedKeeps ==
  ASSUME IInv, TypeOK', Created
  PROVE  IInv'
<1>1. /\ call.at = "created" /\ call' = [call EXCEPT !.at = "publish"] /\ mcp.up
      /\ UNCHANGED <<mcp, pointer, host, report, journal, settled, accepted, launches>>
      /\ call.new # 0 /\ Up(call.new)
  BY DEF Created, At, Goto, IInv, CallInv, Launching
<1>2. CASE call.for \notin Request
  <2>1. admission' = admission
    BY <1>2 DEF Created, IInv, TypeOK
  <2>2. AdmissionInv' /\ HostInv' /\ PointerInv' /\ NoCommandBeforeReady'
    BY <1>1, <2>1, DiskFrame DEF IInv, TypeOK
  <2>3. CallInv'
    BY <1>1, <1>2, <2>1, RequestAssumption DEF IInv, TypeOK, CallInv, Launching, Up, Living,
      Taken
  <2>4. AttachedInv'
    BY <1>1, <2>1, AttachedFrame DEF IInv, Made, Unfinished
  <2>5. ArmedInv'
    BY <1>1 DEF IInv, ArmedInv, Own, Up, Armed
  <2> QED BY <2>2, <2>3, <2>4, <2>5 DEF IInv
<1>3. CASE call.for \in Request
  <2>1. /\ call.new = Mine.new /\ Mine.phase = "launch_started" /\ Record("host_created")
    BY <1>1, <1>3, RequestAssumption DEF Created, IInv, CallInv
  <2>2. Unfinished(call.for)
    BY <2>1 DEF Unfinished, Mine
  <2>3. AdmissionInv' /\ HostInv' /\ PointerInv' /\ NoCommandBeforeReady'
    BY <1>1, <1>3, <2>1, <2>2, RecordKeeps DEF AdmissionPhase
  <2>4. /\ admission'[call.for].phase = "host_created"
        /\ \A q \in Request : /\ admission'[q].new = admission[q].new
                              /\ admission'[q].source = admission[q].source
                              /\ q # call.for => admission'[q] = admission[q]
    BY <1>3, <2>1, RecordFrame DEF AdmissionPhase, IInv
  <2>5. CallInv'
    <3>1. OthersReady(call.for)'
      BY <1>1, <1>3, <2>4 DEF IInv, CallInv, OthersReady
    <3>2. call'.at = "publish" /\ call'.for = call.for /\ call'.new = call.new
      BY <1>1 DEF IInv, TypeOK
    <3>3. Mine'.new = call.new /\ Mine'.phase = "host_created"
      BY <1>3, <2>1, <2>4, <3>2 DEF Mine
    <3> QED BY <1>1, <1>3, <3>1, <3>2, <3>3 DEF IInv, CallInv, Launching, Up
  <2>6. AttachedInv'
    <3>1. \A q \in Request : Made(q)' => Made(q)
      BY <2>1, <2>4 DEF Made, Unfinished, Mine
    <3> QED BY <1>1, <2>4, <3>1, AttachedFrame DEF IInv
  <2>7. ArmedInv'
    BY <1>1 DEF IInv, ArmedInv, Own, Up, Armed
  <2> QED BY <2>3, <2>5, <2>6, <2>7 DEF IInv
<1> QED BY <1>2, <1>3

\* The pointer moves to the session that was launched.
LEMMA PublishKeeps ==
  ASSUME IInv, TypeOK', Publish
  PROVE  IInv'
<1> USE RequestAssumption DEF IInv, TypeOK, Session
<1>1. /\ mcp.up /\ call.at = "publish" /\ pointer' = call.new /\ call.new # 0 /\ Up(call.new)
      /\ pointer < call.new /\ call.new \notin journal
      /\ mcp.session = call.new
      /\ UNCHANGED <<mcp, admission, host, report, journal, settled, accepted, launches>>
  BY DEF Publish, At, CallInv, Launching
<1>2. pointer # 0 => ~(Living(pointer) /\ host[pointer].parent = mcp.id)
  BY <1>1 DEF Publish, CallInv, Launching, Proved
<1>3. AdmissionInv' /\ NoCommandBeforeReady'
  BY <1>1 DEF AdmissionInv, Unfinished, Up, NoCommandBeforeReady
<1>4. HostInv'
  <2>1. \A s \in Session : Taken(s)' <=> Taken(s)
    BY <1>1 DEF Taken
  <2> QED BY <1>1, <2>1 DEF HostInv, Up
<1>5. PointerInv'
  BY <1>1 DEF PointerInv, PointerIsRecorded, Up, AdmissionInv, Mine, CallInv, Launching
<1>6. CallInv'
  BY <1>1 DEF Publish, Return, Idle, Goto, CallInv, Launching, Mine, OthersReady
<1>7. AttachedInv'
  <2>1. ASSUME NEW s \in Session, Held(s)' PROVE s = call.new \/ Held(s)
    BY <1>1, <2>1 DEF Held, Own, Up, Living, Made, Unfinished
  <2> QED BY <1>1, <2>1 DEF AttachedInv
<1>8. ArmedInv'
  BY <1>1, <1>2 DEF ArmedInv, Own, Armed, Up, Living, Alive, Serving
<1> QED BY <1>3, <1>4, <1>5, <1>6, <1>7, <1>8

\* The process holds the new session, and the record says so.
LEMMA AttachHostKeeps ==
  ASSUME IInv, TypeOK', AttachHost
  PROVE  IInv'
<1>1. /\ call.at = "attach" /\ call.for \in Request /\ call' = [call EXCEPT !.at = "settle"]
      /\ call.new = Mine.new /\ Up(call.new) /\ pointer = call.new /\ mcp.up
      /\ mcp' = [mcp EXCEPT !.session = call.new] /\ OthersReady(call.for) /\ call.new # 0
      /\ UNCHANGED <<pointer, host, report, journal, settled, accepted, launches>>
  BY DEF AttachHost, At, Goto, IInv, CallInv, Living, Up, Alive, Serving, AdmissionInv, Mine
<1>2. /\ AdmissionInv' /\ HostInv' /\ PointerInv' /\ NoCommandBeforeReady'
      /\ \A q \in Request : /\ admission'[q].new = admission[q].new
                            /\ admission'[q].source = admission[q].source
                            /\ Unfinished(q)' => Unfinished(q)
                            /\ q # call.for => admission'[q] = admission[q]
                            /\ admission[q].phase # "none" => admission'[q].phase # "none"
  <2>1. CASE Mine.phase = "host_created"
    <3>1. Record("pointer_published") /\ Unfinished(call.for) /\ mcp'.id = mcp.id
      BY <1>1, <2>1 DEF AttachHost, Unfinished, Mine, IInv, TypeOK
    <3>2. AdmissionInv' /\ HostInv' /\ PointerInv' /\ NoCommandBeforeReady'
      BY <1>1, <3>1, RecordKeeps DEF AdmissionPhase
    <3>3. /\ admission'[call.for].phase = "pointer_published"
          /\ \A q \in Request : /\ admission'[q].new = admission[q].new
                                /\ admission'[q].source = admission[q].source
                                /\ q # call.for => admission'[q] = admission[q]
      BY <1>1, <3>1, RecordFrame DEF AdmissionPhase, IInv
    <3> QED BY <3>1, <3>2, <3>3 DEF Unfinished
  <2>2. CASE Mine.phase # "host_created"
    <3>1. admission' = admission /\ mcp'.id >= mcp.id
      BY <1>1, <2>2, BoundAssumption DEF AttachHost, IInv, TypeOK
    <3> QED BY <1>1, <3>1, DiskFrame DEF Unfinished
  <2> QED BY <2>1, <2>2
<1> USE RequestAssumption DEF IInv, TypeOK, Session
<1>3. CallInv'
  <2>1. OthersReady(call.for)'
    BY <1>1, <1>2 DEF OthersReady
  <2>2. /\ call'.at = "settle" /\ call'.for = call.for /\ call'.new = call.new
        /\ Mine'.new = call.new /\ Mine'.phase # "none"
    BY <1>1, <1>2 DEF Mine, CallInv
  <2> QED BY <1>1, <2>1, <2>2 DEF CallInv, Launching
<1>4. AttachedInv'
  <2>1. mcp'.session = pointer' /\ pointer' = call.new /\ mcp'.up /\ call.new # 0
    BY <1>1
  <2>2. \A q \in Request : Unfinished(q)' => q = call.for
    BY <1>1, <1>2 DEF OthersReady, Unfinished
  <2>3. admission'[call.for].new = call.new
    BY <1>1, <1>2 DEF Mine
  <2> QED BY <2>1, <2>2, <2>3 DEF AttachedInv, Held, Made
<1>5. ArmedInv'
  BY <1>1 DEF ArmedInv, Own, Armed, Up
<1> QED BY <1>2, <1>3, <1>4, <1>5

\* The new epoch counts.
LEMMA SettleAdmissionKeeps ==
  ASSUME IInv, TypeOK', SettleAdmission
  PROVE  IInv'
<1>1. /\ call.at = "settle" /\ call.for \in Request /\ call' = Idle /\ mcp.up
      /\ call.new = Mine.new /\ Mine.phase # "none" /\ pointer = call.new
      /\ UNCHANGED <<mcp, pointer, host, report, journal, settled, accepted, launches>>
  BY DEF SettleAdmission, At, Return, IInv, CallInv
<1>2. /\ AdmissionInv' /\ HostInv' /\ PointerInv' /\ NoCommandBeforeReady'
      /\ \A q \in Request : /\ admission'[q].new = admission[q].new
                            /\ Unfinished(q)' => admission'[q] = admission[q]
  <2>1. CASE HostReady(call.new) /\ Mine.phase # "ready" /\ call.new \notin accepted
    <3>1. Record("ready") /\ Unfinished(call.for) /\ Up(Mine.new)
      BY <1>1, <2>1 DEF SettleAdmission, Unfinished, Mine, HostReady, Living, Alive, Serving, Up
    <3>2. AdmissionInv' /\ HostInv' /\ PointerInv' /\ NoCommandBeforeReady'
      BY <1>1, <3>1, RecordKeeps DEF AdmissionPhase
    <3>3. /\ admission'[call.for].phase = "ready"
          /\ \A q \in Request : /\ admission'[q].new = admission[q].new
                                /\ q # call.for => admission'[q] = admission[q]
      BY <1>1, <3>1, RecordFrame DEF AdmissionPhase, IInv
    <3> QED BY <3>2, <3>3 DEF Unfinished
  <2>2. CASE ~(HostReady(call.new) /\ Mine.phase # "ready" /\ call.new \notin accepted)
    <3>1. admission' = admission /\ mcp'.id >= mcp.id
      BY <1>1, <2>2, BoundAssumption DEF SettleAdmission, IInv, TypeOK
    <3> QED BY <1>1, <3>1, DiskFrame
  <2> QED BY <2>1, <2>2
<1> USE RequestAssumption DEF IInv, TypeOK, Session
<1>3. CallInv'
  BY <1>1 DEF CallInv, Launching, Idle
<1>4. AttachedInv'
  <2>1. \A q \in Request : Made(q)' => Made(q)
    BY <1>2 DEF Made, Unfinished
  <2> QED BY <1>1, <1>2, <2>1, AttachedFrame
<1>5. ArmedInv'
  BY <1>1 DEF ArmedInv, Own, Armed, Up
<1> QED BY <1>2, <1>3, <1>4, <1>5

\* A command reaches an admitted session only.
LEMMA SubmitKeeps ==
  ASSUME IInv, TypeOK', Submit
  PROVE  IInv'
<1> USE DEF IInv, TypeOK
<1>1. PICK s \in Session : /\ host[s].at = "ready" /\ EpochAdmits(s) /\ accepted' = accepted \cup {s}
                           /\ UNCHANGED <<mcp, call, pointer, admission, host, report, journal, settled, launches>>
  BY DEF Submit
<1>2. AdmissionInv' /\ PointerInv'
  BY <1>1 DEF AdmissionInv, PointerInv, PointerIsRecorded, Unfinished, Up
<1>3. HostInv'
  <2>1. \A t \in Session : Taken(t)' <=> Taken(t)
    BY <1>1 DEF Taken
  <2> QED BY <1>1, <2>1 DEF HostInv, Up
<1>4. CallInv'
  BY <1>1 DEF CallInv, Launching, Up, Mine, OthersReady, Living, Taken
<1>5. AttachedInv' /\ ArmedInv'
  BY <1>1 DEF AttachedInv, Held, Made, ArmedInv, Own, Armed, Unfinished, Up, Living
<1>6. NoCommandBeforeReady'
  BY <1>1 DEF NoCommandBeforeReady, EpochAdmits, AdmissionInv, Session
<1> QED BY <1>2, <1>3, <1>4, <1>5, <1>6
-----------------------------------------------------------------------------
(* The hosts.                                                               *)

\* What a step of a host, or of the world around it, cannot do: make a session,
\* bring one back to life, or touch what its MCP process holds.
HostFrame ==
  /\ UNCHANGED <<mcp, call, pointer, admission, accepted, launches>>
  /\ settled \subseteq settled' /\ journal \subseteq journal'
  /\ \A s \in journal' \ journal : s = pointer /\ host'[s].at = "waiting"
  /\ \A s \in Session :
       /\ host'[s].parent = host[s].parent
       /\ Up(s)' <=> Up(s)
       /\ Living(s)' => Living(s)
       /\ host[s].at \notin {"none", "starting"} => host'[s].at \notin {"none", "starting"}
       /\ host'[s].at \in {"ready", "ending"} => s \in journal'
       /\ report'[s] \in {"ready", "stopped"} => s \in journal'
       /\ host'[s].at = "waiting" => host[s].at \in {"starting", "waiting"}
       /\ host'[s].at = "ready" => s \in journal /\ host[s].at \in {"waiting", "ready"}

HostActions == \/ Stop
               \/ \E s \in Session : \/ Boot(s) \/ HostJournals(s) \/ HostServes(s) \/ HostGivesUp(s)
                                     \/ HostOrphaned(s) \/ HostEnds(s) \/ HostDies(s) \/ Settle(s)

OnlyHost(s) ==
  \A t \in Session : host'[t].parent = host[t].parent /\ (t # s => host'[t] = host[t])

\* One host goes from one place of its life to a later one.
LEMMA BecomeFrame ==
  ASSUME TypeOK, NEW s \in Session, NEW p \in {"waiting", "ready", "ending", "ended"},
         host' = [host EXCEPT ![s].at = p]
  PROVE  /\ host'[s].at = p
         /\ OnlyHost(s)
  BY DEF TypeOK, OnlyHost

LEMMA HostFrames == ASSUME IInv, HostActions PROVE HostFrame
<1> USE DEF Become, Alive, Serving, Finished, OnlyHost
<1>0. /\ journal \subseteq Session /\ report \in [Session -> {"none", "ready"} \cup Finished]
      /\ \A s \in Session :
           host[s].at \in {"ready", "ending"} \/ report[s] \in {"ready", "stopped"} => s \in journal
      /\ \A s \in journal : host[s].at \notin {"none", "starting"}
  BY DEF IInv, TypeOK, HostInv
<1>t. TypeOK
  BY DEF IInv
<1>1. CASE Stop
  <2>1. /\ host' = [host EXCEPT ![mcp.session].at = "ending"] /\ host[mcp.session].at = "ready"
        /\ mcp.session \in Session
        /\ UNCHANGED <<mcp, call, pointer, admission, report, journal, settled, accepted, launches>>
    BY <1>1, <1>t DEF Stop, TypeOK
  <2> QED BY <1>0, <1>t, <2>1, BecomeFrame DEF HostFrame, Up, Living
<1>2. ASSUME NEW s \in Session, Boot(s) PROVE HostFrame
  <2>1. host'[s].at = "waiting" /\ OnlyHost(s)
    BY <1>2, <1>t, BecomeFrame DEF Boot
  <2> QED BY <1>0, <1>2, <2>1 DEF Boot, HostFrame, Up, Living
<1>3. ASSUME NEW s \in Session, HostJournals(s) PROVE HostFrame
  BY <1>0, <1>3 DEF HostJournals, Named, HostFrame, Up, Living
<1>4. ASSUME NEW s \in Session, HostServes(s) PROVE HostFrame
  <2>1. host'[s].at = "ready" /\ OnlyHost(s)
    BY <1>4, <1>t, BecomeFrame DEF HostServes
  <2> QED BY <1>0, <1>4, <2>1 DEF HostServes, HostFrame, Up, Living
<1>5. ASSUME NEW s \in Session, HostGivesUp(s) PROVE HostFrame
  <2>1. host'[s].at = "ended" /\ OnlyHost(s)
    BY <1>5, <1>t, BecomeFrame DEF HostGivesUp
  <2> QED BY <1>0, <1>5, <2>1 DEF HostGivesUp, HostFrame, Up, Living
<1>6. ASSUME NEW s \in Session, HostOrphaned(s) PROVE HostFrame
  <2>1. host'[s].at = "ending" /\ OnlyHost(s)
    BY <1>6, <1>t, BecomeFrame DEF HostOrphaned
  <2> QED BY <1>0, <1>6, <2>1 DEF HostOrphaned, HostFrame, Up, Living
<1>7. ASSUME NEW s \in Session, HostEnds(s) PROVE HostFrame
  <2>1. host'[s].at = "ended" /\ OnlyHost(s)
    BY <1>7, <1>t, BecomeFrame DEF HostEnds
  <2> QED BY <1>0, <1>7, <2>1 DEF HostEnds, HostFrame, Up, Living
<1>8. ASSUME NEW s \in Session, HostDies(s) PROVE HostFrame
  <2>1. host'[s].at = "ended" /\ OnlyHost(s)
    BY <1>8, <1>t, BecomeFrame DEF HostDies
  <2> QED BY <1>0, <1>8, <2>1 DEF HostDies, HostFrame, Up, Living
<1>9. ASSUME NEW s \in Session, Settle(s) PROVE HostFrame
  BY <1>0, <1>9 DEF Settle, HostFrame, Up, Living
<1> QED BY <1>1, <1>2, <1>3, <1>4, <1>5, <1>6, <1>7, <1>8, <1>9 DEF HostActions

LEMMA HostKeeps ==
  ASSUME IInv, TypeOK', HostFrame
  PROVE  IInv'
<1> USE DEF IInv, TypeOK, HostFrame
<1>1. AdmissionInv'
  BY DEF AdmissionInv, Unfinished
<1>2. HostInv'
  <2>1. \A s \in Session : Taken(s)' <=> Taken(s)
    BY DEF Taken, Up
  <2>2. \A s \in Session : s \in journal' => s <= pointer' /\ host'[s].at \notin {"none", "starting"}
    BY DEF HostInv, Session
  <2> QED BY <2>1, <2>2 DEF HostInv
<1>3. PointerInv' /\ NoCommandBeforeReady'
  BY DEF PointerInv, PointerIsRecorded, NoCommandBeforeReady, Session
<1>4. CallInv'
  <2>1. \A s \in Session : Taken(s)' <=> Taken(s)
    BY DEF Taken, Up
  <2>2. Launching => call.new \notin journal'
    BY DEF CallInv, Session
  <2>3. call.for \in Request /\ call.at = "launch" => Mine.source \in Session
    BY DEF CallInv, AdmissionInv, Mine
  <2>4. Launching => /\ Up(call.new)' <=> Up(call.new)
                     /\ host'[call.new].parent = host[call.new].parent
    BY DEF CallInv
  <2> QED BY <2>1, <2>2, <2>3, <2>4 DEF CallInv, Launching, Mine, OthersReady, Session
<1>5. AttachedInv'
  <2>1. \A s \in Session : Held(s)' => Held(s)
    BY DEF Held, Made, Unfinished, Own
  <2> QED BY <2>1 DEF AttachedInv
<1>6. ArmedInv'
  BY DEF ArmedInv, Own, Armed, Up, HostInv
<1> QED BY <1>1, <1>2, <1>3, <1>4, <1>5, <1>6
-----------------------------------------------------------------------------
(* Types, and the theorems.                                                 *)

LEMMA HostTypes ==
  ASSUME TypeOK, HostActions
  PROVE  TypeOK'
<1> USE DEF TypeOK, Alive, Serving, Finished, Become
<1>1. CASE Stop
  BY <1>1 DEF Stop
<1>2. ASSUME NEW s \in Session, Boot(s) \/ HostOrphaned(s) \/ HostDies(s) PROVE TypeOK'
  <2>1. PICK p \in {"waiting", "ending", "ended"} : host' = [host EXCEPT ![s].at = p]
    BY <1>2 DEF Boot, HostOrphaned, HostDies
  <2>2. UNCHANGED <<mcp, call, pointer, admission, report, journal, settled, accepted, launches>>
    BY <1>2 DEF Boot, HostOrphaned, HostDies
  <2> QED BY <2>1, <2>2
<1>3. ASSUME NEW s \in Session, HostServes(s) PROVE TypeOK'
  BY <1>3 DEF HostServes
<1>6. ASSUME NEW s \in Session, HostGivesUp(s) PROVE TypeOK'
  BY <1>6 DEF HostGivesUp
<1>4. ASSUME NEW s \in Session, HostEnds(s) PROVE TypeOK'
  BY <1>4 DEF HostEnds
<1>5. ASSUME NEW s \in Session, HostJournals(s) \/ Settle(s) PROVE TypeOK'
  BY <1>5 DEF HostJournals, Settle
<1> QED BY <1>1, <1>2, <1>3, <1>4, <1>5, <1>6 DEF HostActions

LEMMA CallTypes ==
  ASSUME IInv, [Next]_vars
  PROVE  TypeOK' \/ HostActions
<1> USE RequestAssumption, BoundAssumption DEF Session, Idle, Goto, Return
<1>t. TypeOK
  BY DEF IInv
<1>1. CASE StartFirst \/ StartNew
  <2>1. PICK s \in Session : call' = [at |-> "launch", for |-> NoRequest, new |-> s]
    BY <1>1 DEF StartFirst, StartNew, Launch, Unused
  <2>2. mcp' \in [up : BOOLEAN, id : 1..MaxMcp, session : Session \cup {0}]
    BY <1>1, <1>t DEF StartFirst, StartNew, TypeOK
  <2>3. UNCHANGED <<pointer, admission, host, report, journal, settled, accepted, launches>>
    BY <1>1 DEF StartFirst, StartNew
  <2> QED BY <1>t, <2>1, <2>2, <2>3 DEF TypeOK
<1>2. CASE StartAttaches
  BY <1>2, <1>t DEF TypeOK, StartAttaches, Attached
<1>3. ASSUME NEW r \in Request, Admit(r) PROVE TypeOK'
  BY <1>3, <1>t DEF TypeOK, Admit, Unused, AdmissionPhase
<1>4. ASSUME NEW r \in Request, Retry(r) PROVE TypeOK'
  BY <1>4, <1>t DEF TypeOK, Retry
<1>5. CASE LaunchUnknown \/ Reattach \/ PublishAgain
  <2>1. CASE LaunchUnknown
    BY <1>t, <2>1 DEF TypeOK, LaunchUnknown
  <2>2. CASE Reattach
    BY <1>t, <2>2 DEF TypeOK, Reattach
  <2>3. CASE PublishAgain
    <3>1. call.new \in Session \cup {0}
      BY <1>t DEF TypeOK
    <3>2. call' = [call EXCEPT !.at = "attach"] /\ pointer' = call.new
          /\ UNCHANGED <<mcp, admission, host, report, journal, settled, accepted, launches>>
      BY <2>3 DEF PublishAgain
    <3> QED BY <1>t, <3>1, <3>2 DEF TypeOK
  <2> QED BY <1>5, <2>1, <2>2, <2>3
<1>6. CASE BeginLaunch \/ AttachHost \/ SettleAdmission \/ Created
  <2>1. \/ admission' = admission
        \/ \E p \in AdmissionPhase : Record(p) /\ call.for \in Request
    BY <1>6, <1>t DEF TypeOK, IInv, CallInv, BeginLaunch, AttachHost, SettleAdmission, Created,
      At,
       AdmissionPhase
  <2>2. admission' \in [Request -> [phase : AdmissionPhase, source : Session \cup {0}, new : Session \cup {0}]]
    BY <1>t, <2>1, RecordFrame DEF TypeOK
  <2>3. call' \in [at : {"idle", "admitted", "launch", "created", "publish", "attach", "settle"},
                   for : Request \cup {NoRequest}, new : Session \cup {0}]
    <3>1. call' = Idle \/ \E p \in {"launch", "settle", "publish"} : call' = [call EXCEPT !.at = p]
      BY <1>6 DEF BeginLaunch, AttachHost, SettleAdmission, Created
    <3>2. ASSUME NEW p \in {"launch", "settle", "publish"}
          PROVE  [call EXCEPT !.at = p]
                   \in [at : {"idle", "admitted", "launch", "created", "publish", "attach", "settle"},
                       for : Request \cup {NoRequest}, new : Session \cup {0}]
      BY <1>t DEF TypeOK
    <3>3. Idle \in [at : {"idle", "admitted", "launch", "created", "publish", "attach", "settle"},
                    for : Request \cup {NoRequest}, new : Session \cup {0}]
      OBVIOUS
    <3> HIDE DEF Idle
    <3> QED BY <3>1, <3>2, <3>3
  <2>4. mcp' \in [up : BOOLEAN, id : 1..MaxMcp, session : Session \cup {0}]
    BY <1>6, <1>t DEF TypeOK, BeginLaunch, AttachHost, SettleAdmission, Created
  <2>5. UNCHANGED <<pointer, host, report, journal, settled, accepted, launches>>
    BY <1>6 DEF BeginLaunch, AttachHost, SettleAdmission, Created
  <2> QED BY <1>t, <2>2, <2>3, <2>4, <2>5 DEF TypeOK
<1>7. CASE Spawn
  <2>1. call.new \in Session /\ mcp.id \in 0..MaxMcp
    BY <1>7, <1>t DEF Spawn, At, IInv, CallInv, Launching, TypeOK
  <2>2. host' \in [Session -> [at : {"none", "ended"} \cup Alive, parent : 0..MaxMcp]]
    BY <1>7, <1>t, <2>1 DEF Spawn, TypeOK, Alive, Serving
  <2>3. launches' \in [Request -> Nat]
    BY <1>7, <1>t DEF Spawn, TypeOK
  <2>4. /\ call' \in [at : {"idle", "admitted", "launch", "created", "publish", "attach", "settle"},
                      for : Request \cup {NoRequest}, new : Session \cup {0}]
        /\ mcp' \in [up : BOOLEAN, id : 1..MaxMcp, session : Session \cup {0}]
    BY <1>7, <1>t DEF Spawn, TypeOK
  <2>5. UNCHANGED <<pointer, admission, report, journal, settled, accepted>>
    BY <1>7 DEF Spawn
  <2> QED BY <1>t, <2>2, <2>3, <2>4, <2>5 DEF TypeOK
<1>8. CASE Publish
  <2>1. call' \in [at : {"idle", "admitted", "launch", "created", "publish", "attach", "settle"},
                   for : Request \cup {NoRequest}, new : Session \cup {0}]
    BY <1>8, <1>t DEF Publish, TypeOK
  <2> QED BY <1>8, <1>t, <2>1 DEF Publish, TypeOK
<1>9. CASE CallRaises \/ Die
  <2>1. /\ call' = Idle
        /\ UNCHANGED <<pointer, admission, host, report, journal, settled, accepted, launches>>
    BY <1>9 DEF CallRaises, Die
  <2>2. mcp' \in [up : BOOLEAN, id : 1..MaxMcp, session : Session \cup {0}]
    BY <1>9, <1>t DEF TypeOK, CallRaises, Die
  <2> QED BY <1>t, <2>1, <2>2 DEF TypeOK
<1>10. CASE Connect
  BY <1>10, <1>t DEF TypeOK, Connect
<1>11. CASE Submit
  BY <1>11, <1>t DEF TypeOK, Submit
<1>12. CASE UNCHANGED vars
  BY <1>12, <1>t DEF TypeOK, vars
<1> QED
  BY <1>1, <1>2, <1>3, <1>4, <1>5, <1>6, <1>7, <1>8, <1>9, <1>10, <1>11, <1>12, NextCases
  DEF HostActions

\* Every step of a call, a host or the world keeps the invariant.
LEMMA InvStep == ASSUME IInv, [Next]_vars PROVE IInv'
<1>1. TypeOK'
  BY CallTypes, HostTypes DEF IInv
<1>2. CASE HostActions
  BY <1>1, <1>2, HostFrames, HostKeeps
<1>3. CASE UNCHANGED vars
  <2>1. /\ UNCHANGED <<mcp, call, pointer, admission, host, report, journal, settled, accepted, launches>>
    BY <1>3 DEF vars
  <2>2. mcp'.id >= mcp.id
    BY <2>1, BoundAssumption DEF IInv, TypeOK
  <2>3. AdmissionInv' /\ HostInv' /\ PointerInv' /\ NoCommandBeforeReady'
    BY <1>1, <2>1, <2>2, DiskFrame
  <2>4. CallInv' /\ AttachedInv' /\ ArmedInv'
    BY <2>1 DEF IInv, CallInv, Launching, Up, Mine, OthersReady, Living, Taken, AttachedInv,
      Held, Made,
       Own, Unfinished, ArmedInv, Armed
  <2> QED BY <1>1, <2>3, <2>4 DEF IInv
<1> QED
  BY <1>1, <1>2, <1>3, NextCases, StartKeeps, QuietCallKeeps, AdmitKeeps, BeginLaunchKeeps,
     PublishAgainKeeps, SpawnKeeps, CreatedKeeps, PublishKeeps, AttachHostKeeps,
     SettleAdmissionKeeps, SubmitKeeps
  DEF HostActions

\* The records on disk, the hosts and what the process in charge knows agree in
\* every reachable state, whoever died between which of the writes.
THEOREM InductiveInvariant == Spec => []IInv
<1>1. Init => IInv
  BY InvInit
<1>2. IInv /\ [Next]_vars => IInv'
  BY InvStep
<1> QED BY <1>1, <1>2, PTL DEF Spec

\* A set whose members are all the same has one member at most.
LEMMA AtMostOne ==
  ASSUME NEW S, \A x, y \in S : x = y
  PROVE  Cardinality(S) <= 1
<1>1. CASE S = {}
  BY <1>1, FS_EmptySet
<1>2. ASSUME NEW x \in S PROVE Cardinality(S) <= 1
  <2>1. S = {x}
    BY <1>2
  <2> QED BY <2>1, FS_Singleton
<1> QED BY <1>1, <1>2

\* One host for one epoch: a recovery request launches once, one host of a
\* process serves, one recovery is unfinished and the pointer names recorded
\* hosts only (start_recovered_epoch, SessionEpochAdmission, _launch_session).
THEOREM OneHostPerEpochHolds == Spec => []OneHostPerEpoch
<1>1. IInv => OneHostPerEpoch
  <2> SUFFICES ASSUME IInv PROVE OneHostPerEpoch
    OBVIOUS
  <2>1. OneLaunchPerRequest
    BY DEF IInv, AdmissionInv, OneLaunchPerRequest
  <2>2. OneHostServes
    <3> DEFINE S == {s \in Session : host[s].at = "ready" /\ mcp.up /\ mcp.id = host[s].parent}
    <3>1. \A x, y \in S : x = y
      BY DEF IInv, ArmedInv, Own, Armed, Up
    <3> HIDE DEF S
    <3>2. Cardinality(S) <= 1
      BY <3>1, AtMostOne
    <3> QED BY <3>2 DEF S, OneHostServes
  <2>3. OneUnfinished
    <3> DEFINE S == {r \in Request : admission[r].phase \notin {"none", "ready"}}
    <3>1. \A x, y \in S : x = y
      BY DEF IInv, AdmissionInv, Unfinished
    <3> HIDE DEF S
    <3>2. Cardinality(S) <= 1
      BY <3>1, AtMostOne
    <3> QED BY <3>2 DEF S, OneUnfinished
  <2> QED BY <2>1, <2>2, <2>3 DEF IInv, PointerInv, OneHostPerEpoch
<1> QED BY <1>1, InductiveInvariant, PTL

LEMMA OnlySpawnStarts ==
  ASSUME IInv, [Next]_vars, NEW s \in Session, host[s].at = "none", host'[s].at = "starting"
  PROVE  Spawn
<1>1. ASSUME UNCHANGED host PROVE FALSE
  BY <1>1
<1>2. ~HostActions
  BY HostFrames DEF HostFrame, Up
<1> QED
  BY <1>1, <1>2, NextCases
  DEF HostActions, vars, StartFirst, StartAttaches, StartNew, Admit, Retry, LaunchUnknown,
    BeginLaunch,
      PublishAgain, Reattach, AttachHost, SettleAdmission, Created, Publish, CallRaises, Submit, Die, Connect

\* A session is replaced only when its host is gone and proved settled at the
\* moment the new one is made, and its successor takes commands only when its
\* admission is ready (_proved, before_publish, assert_epoch_admitted).
THEOREM SuccessionHolds == Spec => SuccessionIsProved
<1>1. IInv => NoCommandBeforeReady
  BY DEF IInv
<1>2. IInv /\ [Next]_vars
        => [\A s \in Session : (host[s].at = "none" /\ host'[s].at = "starting" /\ call.for # NoRequest)
              => pointer = Mine.source /\ ~Living(Mine.source) /\ Mine.source \in settled]_vars
  <2> SUFFICES ASSUME IInv, [Next]_vars, NEW s \in Session,
                      host[s].at = "none", host'[s].at = "starting", call.for # NoRequest
               PROVE  pointer = Mine.source /\ ~Living(Mine.source) /\ Mine.source \in settled
    OBVIOUS
  <2>1. call.at = "launch" /\ call.for \in Request
    BY OnlySpawnStarts DEF Spawn, At, IInv, TypeOK
  <2> QED BY <2>1 DEF IInv, CallInv
<1> QED BY <1>1, <1>2, InductiveInvariant, PTL DEF Spec, SuccessionIsProved, ReplacesOnlySettled
=============================================================================
