------------------------ MODULE ModelResidenceProofs ------------------------
(***************************************************************************)
(* Proofs about ModelResidence, for any configurations and ports and any   *)
(* number of services, servers of others and faults.                       *)
(*                                                                         *)
(* The argument: a service the coordinator no longer holds is closed       *)
(* (HeldInv), and a service is closed only once every process that is in   *)
(* its Job or in a list has ended and the Job is given back (ProcInv).     *)
(* Ending the Job and listing it are two steps: what a listing missed is a *)
(* server that no list names (ListInv), and once terminated it is all that *)
(* can be left; of a service that became ready not even that, because the  *)
(* journal named its processes before (JournalInv).  Two services that are *)
(* held have different ports (HeldInv), so no port is shared.              *)
(* The journal vouches for no more than what is so (JournalInv), whichever *)
(* step a crash falls on.  And an instance that has left its port never    *)
(* listens on it again (Past), so no answer of another is taken for its    *)
(* own (RequestInv).                                                       *)
(***************************************************************************)
EXTENDS ModelResidence, TLAPS

\* Where the coordinator stands with the service in hand, and in a close.
LaunchPC == {"policy", "intent", "spawn", "assign", "record", "resume", "launched"}
PreparePC == LaunchPC \cup {"probe", "scope", "ready", "confirm"}
AbortPC == {"abort", "undo"}
RequestPC == {"step", "send", "asking"}
HandPC == PreparePC \cup AbortPC \cup RequestPC \cup {"reuse", "failed"}
ClosePC == {"close", "scan", "list", "kill", "observe", "handle", "finish"}

\* The coordinator's position, as service i sees it.
At(i) ==
  IF co.pc = "crashed" THEN "crashed"
  ELSE IF (co.pc \in HandPC /\ co.current = i) \/ (co.pc \in ClosePC /\ closing.of = i) THEN co.pc
  ELSE "away"

\* The services the coordinator still answers for.
Held(i) == i \in co.residents \/ i = co.current

\* Every process that runs, or that a list names, has ended.
Ended(i) ==
  \A p \in Proc :
    \/ proc[i][p] \in {"none", "gone"}
    \/ p = "launcher" /\ proc[i][p] = "dropped"
    \/ /\ p = "server" /\ proc[i][p] = "dying"
       /\ p \notin svc[i].members /\ p \notin journal[i].members

Whole(i) ==
  /\ svc[i].owned = "owned" /\ svc[i].prepared /\ svc[i].scope
  /\ ~svc[i].pending /\ ~svc[i].closed

\* What the coordinator holds, and what it was closing.
CoInv ==
  /\ co.current \in Live \cup {0} /\ co.residents \subseteq Live /\ co.current \notin co.residents
  /\ co.pc \in HandPC => co.current # 0
  /\ co.pc \in {"idle", "draining", "down"} => co.current = 0
  /\ co.pc \in ClosePC =>
       \/ closing.why \in {"prepare", "release", "stop"} /\ closing.of = co.current /\ closing.of # 0
       \/ /\ closing.why \in {"residents", "off", "drain"} /\ closing.of \in co.residents
          /\ co.current = 0 /\ co.cleanup
  /\ co.pc = "draining" => closing.why \in {"stop", "residents", "off", "drain"}
  /\ co.residents # {} => co.keep
  /\ \A i \in co.residents : ~svc[i].closed /\ (~co.cleanup => Whole(i))

\* Who is not held is closed; who is held has its port to itself.
HeldInv ==
  /\ \A i \in Live : svc[i].config \in Config /\ (~Held(i) => svc[i].closed)
  /\ \A i, j \in Live : Held(i) /\ Held(j) /\ i # j => PortOfService(i) # PortOfService(j)
  /\ \A i \in Service \ Live :
       /\ svc[i] = NewService /\ journal[i] = NewRecord
       /\ proc[i] = [p \in Proc |-> "none"]
       /\ req[i] = [at |-> "none", by |-> NoInstance, last |-> NoInstance]

\* The processes: who has no Job has none left, and what was terminated is
\* remembered until it is gone, unless it was never in a list.
ProcInv(i) ==
  /\ ~svc[i].scope => Ended(i)
  /\ svc[i].owned # "owned" => ~svc[i].scope /\ \A p \in Proc : proc[i][p] = "none"
  /\ \A p \in Proc : proc[i][p] = "dying" =>
       \/ At(i) = "crashed" \/ p \in svc[i].members
       \/ At(i) \in {"observe", "undo"} /\ p \in closing.seen
       \/ p = "server" /\ p \notin journal[i].members
  /\ \A p \in Proc : proc[i][p] = "out" =>
       p = "launcher" /\ At(i) \in {"assign", "crashed"} /\ journal[i].phase = "launch_starting"
  /\ At(i) = "crashed" => InJob(i) = {}
  /\ At(i) \in {"handle", "finish"} => Ended(i)
  /\ At(i) \in {"scan", "list", "kill", "observe", "handle", "finish"} => ~svc[i].handle
  /\ At(i) = "finish" => ~svc[i].scope

\* The lists: no list names a process that was not started, and a process in
\* the Job that a listing missed is a server that no list names.
ListInv(i) ==
  /\ proc[i]["server"] # "dropped"
  /\ \A p \in Proc : proc[i][p] = "none" =>
       /\ p \notin svc[i].members /\ p \notin journal[i].members
       /\ At(i) \in {"abort", "undo", "kill", "observe"} => p \notin closing.seen
  /\ At(i) \in {"abort", "kill"} =>
       \A p \in Proc : proc[i][p] \in InJobState /\ p \notin closing.seen =>
         p = "server" /\ p \notin svc[i].members /\ p \notin journal[i].members

\* The journal says no more than what is so.
JournalInv(i) ==
  /\ journal[i].pending = svc[i].pending
  /\ journal[i].owned # "none" => journal[i].owned = svc[i].owned
  /\ journal[i].phase \in {"scope_acquired", "launch_starting", "launch_registered"} =>
       journal[i].owned = "owned"
  /\ svc[i].prepared <=> LastPhase(i) = "ready"
  /\ svc[i].prepared => journal[i].owned = svc[i].owned /\ svc[i].instance # NoInstance
  /\ svc[i].prepared => \A p \in Proc : proc[i][p] \notin {"none", "gone"} =>
       proc[i][p] # "dropped" /\ p \in journal[i].members

\* The instance a service found on its port is its own server or a stranger's.
InstanceInv(i) ==
  \/ svc[i].instance = NoInstance
  \/ /\ svc[i].owned = "owned" /\ svc[i].instance = <<"own", i>>
     /\ proc[i]["server"] \in {"serving", "dying", "gone"}
  \/ /\ svc[i].owned = "external"
     /\ \E n \in 0 .. ext[PortOfService(i)].n : svc[i].instance = <<"ext", n>>

\* That instance can never listen again.
Past(i) ==
  \/ svc[i].instance[1] = "own" /\ proc[i]["server"] \in {"dying", "gone"}
  \/ svc[i].instance[1] = "ext" /\ svc[i].instance[2] < ext[PortOfService(i)].n

RequestInv(i) ==
  /\ ~svc[i].prepared => ~svc[i].pending
       /\ req[i] = [at |-> "none", by |-> NoInstance, last |-> NoInstance]
  /\ svc[i].owned = "external" /\ ~svc[i].pending => req[i].at \notin {"sent", "computing"}
  /\ req[i].by \in {NoInstance, svc[i].instance} \/ Past(i)
  /\ req[i].last \in {NoInstance, svc[i].instance}

\* How far the preparation of the service in hand has come.
StageInv(i) ==
  /\ At(i) \in {"probe", "scope"} => svc[i].owned = "none"
  /\ At(i) \in LaunchPC => svc[i].owned = "owned" /\ svc[i].scope
  /\ At(i) \in {"ready", "confirm"} =>
       svc[i].owned # "none" /\ (svc[i].owned = "owned" => svc[i].scope)
  /\ At(i) \in PreparePC =>
       ~svc[i].prepared /\ \A p \in Proc : proc[i][p] \notin {"dying", "dropped"}
  /\ At(i) \in {"record", "resume"} => proc[i]["launcher"] # "none"
  /\ At(i) \in AbortPC => ~svc[i].prepared /\ svc[i].owned = "owned" /\ svc[i].scope
  /\ At(i) \in {"spawn", "assign"} => journal[i].phase = "launch_starting"
  /\ At(i) = "confirm" => svc[i].instance # NoInstance
  /\ At(i) \in RequestPC => svc[i].prepared
  /\ At(i) \in {"scan", "list", "kill", "observe", "handle"} => svc[i].scope
  /\ At(i) \in {"send", "asking"} => svc[i].pending
  /\ svc[i].closed => At(i) \in ClosePC \cup {"away", "failed", "crashed"}
  /\ svc[i].closed => ~svc[i].scope /\ ~svc[i].handle /\ ~svc[i].pending

ServiceInv(i) ==
  /\ ProcInv(i) /\ ListInv(i) /\ JournalInv(i)
  /\ InstanceInv(i) /\ RequestInv(i) /\ StageInv(i)

IInv == TypeOK /\ CoInv /\ HeldInv /\ \A i \in Live : ServiceInv(i)

-----------------------------------------------------------------------------
\* The records of TypeOK.
SvcSet ==
  [config : Config \cup {NoConfig}, owned : {"none", "owned", "external"},
   scope : BOOLEAN, handle : BOOLEAN, prepared : BOOLEAN, closed : BOOLEAN,
   instance : Instance, pending : BOOLEAN, members : SUBSET Proc, verified : BOOLEAN]

RecordSet ==
  [phase : Phase, from : Phase, owned : {"none", "owned", "external"}, pending : BOOLEAN,
   members : SUBSET Proc]

ReqSet ==
  [at : {"none", "sent", "computing", "answered", "ended"}, by : Instance, last : Instance]

CoPC ==
  {"idle", "probe", "scope", "policy", "intent", "spawn", "assign", "record",
   "resume", "launched", "abort", "undo", "ready", "confirm", "reuse", "step", "send",
   "asking", "failed", "close", "scan", "list", "kill", "observe", "handle", "finish",
   "draining", "down", "crashed"}

CoSet ==
  [pc : CoPC, current : 0..MaxService, keep : BOOLEAN, release : BOOLEAN, reuseFailed : BOOLEAN,
   cancelled : BOOLEAN, residents : SUBSET Service, cleanup : BOOLEAN]

Why == {"none", "prepare", "release", "stop", "residents", "off", "drain"}

ClosingSet == [of : 0..MaxService, why : Why, seen : SUBSET Proc]

Types ==
  /\ made \in 0..MaxService
  /\ svc \in [Service -> SvcSet]
  /\ journal \in [Service -> RecordSet]
  /\ proc \in [Service -> [Proc -> ProcState]]
  /\ pidFile \in [Service -> Instance \cup {Launcher}]
  /\ req \in [Service -> ReqSet]
  /\ ext \in [Port -> [n : 0..MaxExternal, up : BOOLEAN]]
  /\ co \in CoSet
  /\ closing \in ClosingSet
  /\ fault \in 0..MaxFault

LEMMA TypesAre == TypeOK <=> Types
  BY DEF TypeOK, Types, SvcSet, RecordSet, ReqSet, CoPC, CoSet, Why, ClosingSet

\* Numbers of services.
LEMMA Numbers ==
  ASSUME TypeOK
  PROVE  /\ made \in Nat /\ MaxService \in Nat /\ Live \subseteq Service
         /\ Live \subseteq 0..MaxService /\ 0 \notin Service /\ Service \subseteq Nat
         /\ Service \subseteq 0..MaxService
  BY ResidenceAssumption DEF TypeOK, Live, Service

\* A live service has a port.
LEMMA HasPort == ASSUME IInv, NEW i \in Live PROVE PortOfService(i) \in Port
  BY ResidenceAssumption DEF IInv, HeldInv, PortOfService

\* Positions of the thread of which one service has a view, and no other.
Mine(i) ==
  \/ co.pc \in HandPC /\ co.current = i
  \/ co.pc \in ClosePC /\ closing.of = i
  \/ co.pc \in {"idle", "draining", "down"}

LEMMA OthersAway == ASSUME NEW i, Mine(i), NEW j, j # i PROVE At(j) = "away"
  BY DEF Mine, At, HandPC, PreparePC, LaunchPC, AbortPC, RequestPC, ClosePC

LEMMA OwnPlace ==
  ASSUME NEW i, \/ co.pc \in HandPC /\ co.current = i
                \/ co.pc \in ClosePC /\ closing.of = i
  PROVE  At(i) = co.pc /\ Mine(i)
  BY DEF Mine, At, HandPC, PreparePC, LaunchPC, AbortPC, RequestPC, ClosePC

\* Nothing that concerns service j moves.
LEMMA OtherKeeps ==
  ASSUME NEW j, ServiceInv(j), svc'[j] = svc[j], journal'[j] = journal[j], proc'[j] = proc[j],
         req'[j] = req[j], ext' = ext, At(j)' = At(j),
         At(j) \in {"abort", "undo", "kill", "observe"} => closing'.seen = closing.seen
  PROVE  ServiceInv(j)'
  <1>1. ProcInv(j)'
    BY DEF ServiceInv, ProcInv, Ended, InJob
  <1>5. ListInv(j)'
    BY DEF ServiceInv, ListInv
  <1>2. JournalInv(j)'
    BY DEF ServiceInv, JournalInv, LastPhase
  <1>3. InstanceInv(j)' /\ RequestInv(j)'
    BY DEF ServiceInv, InstanceInv, RequestInv, Past, PortOfService
  <1>4. StageInv(j)'
    BY DEF ServiceInv, StageInv
  <1> QED
    BY <1>1, <1>2, <1>3, <1>4, <1>5 DEF ServiceInv

\* A step that is about service i alone.
LEMMA OwnStep ==
  ASSUME IInv, NEW i \in Live, Mine(i), Mine(i)', ServiceInv(i)', TypeOK', CoInv',
         made' = made, ext' = ext,
         \A j \in Service \ {i} : /\ svc'[j] = svc[j] /\ journal'[j] = journal[j]
                                  /\ proc'[j] = proc[j] /\ req'[j] = req[j],
         svc'[i].config = svc[i].config,
         \A j \in Live : Held(j)' => Held(j),
         \A j \in Live : Held(j) => Held(j)' \/ svc'[j].closed,
         svc[i].closed => svc'[i].closed
  PROVE  IInv'
  <1>1. Live \subseteq Service /\ Live' = Live
    BY Numbers DEF IInv, Live
  <1>2. ASSUME NEW j \in Live PROVE ServiceInv(j)'
    <2>1. CASE j = i
      BY <2>1
    <2>2. CASE j # i
      <3>1. At(j) = "away"
        BY <2>2, OthersAway
      <3>2. At(j)' = "away"
        BY <2>2 DEF Mine, At, HandPC, PreparePC, LaunchPC, AbortPC, RequestPC, ClosePC
      <3>3. /\ svc'[j] = svc[j] /\ journal'[j] = journal[j] /\ proc'[j] = proc[j]
            /\ req'[j] = req[j] /\ ServiceInv(j)
        BY <1>1, <2>2 DEF IInv
      <3> QED
        BY <3>1, <3>2, <3>3, OtherKeeps
    <2> QED
      BY <2>1, <2>2
  <1>3. \A j \in Live : svc'[j].config = svc[j].config /\ (svc[j].closed => svc'[j].closed)
    BY <1>1
  <1>4. HeldInv'
    <2>1. \A j \in Live : svc'[j].config \in Config /\ (~Held(j)' => svc'[j].closed)
      BY <1>3 DEF IInv, HeldInv
    <2>2. \A j, k \in Live : Held(j)' /\ Held(k)' /\ j # k => PortOfService(j)' # PortOfService(k)'
      BY <1>3 DEF IInv, HeldInv, PortOfService
    <2>3. \A j \in Service \ Live :
            /\ svc'[j] = NewService /\ journal'[j] = NewRecord
            /\ proc'[j] = [p \in Proc |-> "none"]
            /\ req'[j] = [at |-> "none", by |-> NoInstance, last |-> NoInstance]
      BY DEF IInv, HeldInv
    <2> QED
      BY <1>1, <2>1, <2>2, <2>3 DEF HeldInv
  <1> QED
    BY <1>1, <1>2, <1>4 DEF IInv

\* The service in hand, prepared or used, perhaps on its way to be closed.
LEMMA HandStep ==
  ASSUME IInv, NEW i \in Live, co.pc \in HandPC, co.current = i,
         co'.current = i, co'.residents = co.residents, co'.keep = co.keep,
         co'.cleanup = co.cleanup,
         \/ co'.pc \in HandPC
         \/ /\ co'.pc \in ClosePC /\ closing'.of = i
            /\ closing'.why \in {"prepare", "release", "stop"},
         TypeOK', ServiceInv(i)', made' = made, ext' = ext,
         \A j \in Service \ {i} : /\ svc'[j] = svc[j] /\ journal'[j] = journal[j]
                                  /\ proc'[j] = proc[j] /\ req'[j] = req[j],
         svc'[i].config = svc[i].config,
         svc[i].closed => svc'[i].closed
  PROVE  IInv'
  <1>1. i # 0 /\ Live \subseteq Service /\ Live' = Live /\ co.residents \subseteq Live
        /\ i \notin co.residents
    BY Numbers DEF IInv, CoInv, Live
  <1>2. Mine(i) /\ Mine(i)'
    BY DEF Mine
  <1>3. CoInv'
    <2>1. /\ co'.current \in Live' \cup {0} /\ co'.residents \subseteq Live'
          /\ co'.current \notin co'.residents /\ (co'.residents # {} => co'.keep)
      BY <1>1 DEF IInv, CoInv
    <2>2. co'.pc \notin {"idle", "draining", "down"} /\ (co'.pc \in HandPC => co'.current # 0)
      BY <1>1 DEF HandPC, ClosePC, PreparePC, LaunchPC, AbortPC, RequestPC
    <2>3. co'.pc \in ClosePC => closing'.why \in {"prepare", "release", "stop"}
                                 /\ closing'.of = co'.current /\ closing'.of # 0
      BY <1>1 DEF HandPC, ClosePC, PreparePC, LaunchPC, AbortPC, RequestPC
    <2>4. \A j \in co'.residents : svc'[j] = svc[j]
      BY <1>1
    <2>5. \A j \in co'.residents : ~svc'[j].closed /\ (~co'.cleanup => Whole(j)')
      BY <2>4 DEF IInv, CoInv, Whole
    <2> QED
      BY <2>1, <2>2, <2>3, <2>5 DEF CoInv
  <1>4. \A j \in Live : Held(j)' <=> Held(j)
    BY DEF Held
  <1> QED
    BY <1>1, <1>2, <1>3, <1>4, OwnStep

\* The service in a close, which goes on, or fails and is kept.
LEMMA CloseStep ==
  ASSUME IInv, NEW i \in Live, co.pc \in ClosePC, closing.of = i,
         co'.current = co.current, co'.residents = co.residents, co'.keep = co.keep,
         co'.cleanup = co.cleanup,
         \/ co'.pc \in ClosePC /\ closing'.of = i /\ closing'.why = closing.why
         \/ co'.pc = "failed" /\ co.current = i
         \/ co'.pc = "idle" /\ co.current # i,
         TypeOK', ServiceInv(i)', made' = made, ext' = ext,
         \A j \in Service \ {i} : /\ svc'[j] = svc[j] /\ journal'[j] = journal[j]
                                  /\ proc'[j] = proc[j] /\ req'[j] = req[j],
         svc'[i].config = svc[i].config,
         svc'[i].closed = svc[i].closed
  PROVE  IInv'
  <1>1. i # 0 /\ Live \subseteq Service /\ Live' = Live /\ co.residents \subseteq Live
    BY Numbers DEF IInv, CoInv, Live
  <1>2. Mine(i) /\ Mine(i)'
    BY DEF Mine, HandPC
  <1>3. \/ closing.why \in {"prepare", "release", "stop"} /\ closing.of = co.current
        \/ /\ closing.why \in {"residents", "off", "drain"} /\ closing.of \in co.residents
           /\ co.current = 0 /\ co.cleanup
    BY DEF IInv, CoInv
  <1>4. CoInv'
    <2>1. /\ co'.current \in Live' \cup {0} /\ co'.residents \subseteq Live'
          /\ co'.current \notin co'.residents /\ (co'.residents # {} => co'.keep)
      BY <1>1 DEF IInv, CoInv
    <2>2. /\ co'.pc \in HandPC => co'.current # 0
          /\ co'.pc \in {"idle", "draining", "down"} => co'.current = 0
          /\ co'.pc # "draining"
      BY <1>1, <1>3 DEF HandPC, ClosePC, PreparePC, LaunchPC, AbortPC, RequestPC
    <2>3. co'.pc \in ClosePC =>
            \/ closing'.why \in {"prepare", "release", "stop"} /\ closing'.of = co'.current
               /\ closing'.of # 0
            \/ /\ closing'.why \in {"residents", "off", "drain"} /\ closing'.of \in co'.residents
               /\ co'.current = 0 /\ co'.cleanup
      BY <1>1, <1>3 DEF ClosePC
    <2>4. \A j \in co'.residents : ~svc'[j].closed
      BY <1>1 DEF IInv, CoInv
    <2>5. \A j \in co'.residents : ~co'.cleanup => Whole(j)'
      <3> SUFFICES ASSUME NEW j \in co.residents, ~co.cleanup PROVE Whole(j)'
        OBVIOUS
      <3>1. j # i
        BY <1>3 DEF IInv, CoInv
      <3>2. svc'[j] = svc[j]
        BY <1>1, <3>1
      <3> QED
        BY <3>2 DEF IInv, CoInv, Whole
    <2> QED
      BY <2>1, <2>2, <2>3, <2>4, <2>5 DEF CoInv
  <1>5. \A j \in Live : Held(j)' <=> Held(j)
    BY DEF Held
  <1> QED
    BY <1>1, <1>2, <1>4, <1>5, OwnStep

-----------------------------------------------------------------------------
(* The parts of a service that a step leaves alone.                         *)

LEMMA PlaceNext ==
  ASSUME NEW i, \/ co'.pc \in HandPC /\ co'.current = i
                \/ co'.pc \in ClosePC /\ closing'.of = i
  PROVE  At(i)' = co'.pc
  BY DEF At, HandPC, PreparePC, LaunchPC, AbortPC, RequestPC, ClosePC

LEMMA ProcStays ==
  ASSUME NEW i, ProcInv(i), At(i) \notin {"assign", "observe", "undo", "crashed"},
         At(i)' # "crashed", At(i)' \in {"handle", "finish"} => Ended(i),
         At(i)' \in {"scan", "list", "kill", "observe", "handle", "finish"} => ~svc'[i].handle,
         At(i)' = "finish" => ~svc'[i].scope,
         proc'[i] = proc[i], svc'[i].scope = svc[i].scope, svc'[i].owned = svc[i].owned,
         svc'[i].members = svc[i].members, journal'[i].members = journal[i].members
  PROVE  ProcInv(i)'
  BY DEF ProcInv, Ended, InJob

\* More of them are named, while there is a Job.
LEMMA ProcNamed ==
  ASSUME NEW i, ProcInv(i), At(i) \notin {"assign", "crashed"}, svc[i].scope,
         At(i)' \notin {"crashed", "handle", "finish"},
         At(i)' \in {"scan", "list", "kill", "observe"} => ~svc'[i].handle,
         proc'[i] = proc[i], svc'[i].scope = svc[i].scope, svc'[i].owned = svc[i].owned,
         svc[i].members \subseteq svc'[i].members,
         At(i) \in {"observe", "undo"} =>
           \A p \in Proc : proc[i][p] = "dying" /\ p \in closing.seen => p \in svc'[i].members,
         \A p \in Proc : p \in journal'[i].members => p \in journal[i].members \/ p \in svc'[i].members
  PROVE  ProcInv(i)'
  <1>1. /\ svc'[i].scope /\ svc'[i].owned = "owned"
        /\ \A p \in Proc : proc'[i][p] = "out" => FALSE
    BY DEF ProcInv
  <1>2. ASSUME NEW p \in Proc, proc'[i][p] = "dying"
        PROVE  p \in svc'[i].members \/ (p = "server" /\ p \notin journal'[i].members)
    BY <1>2 DEF ProcInv
  <1> QED
    BY <1>1, <1>2 DEF ProcInv

LEMMA ListStays ==
  ASSUME NEW i, ListInv(i), proc'[i] = proc[i], At(i)' \notin {"abort", "undo", "kill", "observe"},
         svc'[i].members = svc[i].members, journal'[i].members = journal[i].members
  PROVE  ListInv(i)'
  BY DEF ListInv

\* A list that is made of what exists.
LEMMA ListNamed ==
  ASSUME NEW i, ListInv(i), proc'[i] = proc[i], At(i)' \notin {"abort", "undo", "kill", "observe"},
         \A p \in Proc : proc[i][p] = "none" => p \notin svc'[i].members,
         \A p \in Proc : p \in journal'[i].members => p \in journal[i].members \/ p \in svc'[i].members
  PROVE  ListInv(i)'
  BY DEF ListInv

LEMMA JournalStays ==
  ASSUME NEW i, JournalInv(i), proc'[i] = proc[i],
         journal'[i].phase = journal[i].phase, journal'[i].from = journal[i].from,
         journal'[i].owned = journal[i].owned, journal'[i].pending = journal[i].pending,
         journal[i].members \subseteq journal'[i].members,
         svc'[i].pending = svc[i].pending, svc'[i].owned = svc[i].owned,
         svc'[i].prepared = svc[i].prepared, svc'[i].instance = svc[i].instance
  PROVE  JournalInv(i)'
  BY DEF JournalInv, LastPhase

LEMMA InstanceStays ==
  ASSUME NEW i, InstanceInv(i), proc'[i]["server"] = proc[i]["server"], ext' = ext,
         svc'[i].config = svc[i].config, svc'[i].owned = svc[i].owned,
         svc'[i].instance = svc[i].instance
  PROVE  InstanceInv(i)'
  BY DEF InstanceInv, PortOfService

LEMMA RequestStays ==
  ASSUME NEW i, RequestInv(i), proc'[i]["server"] = proc[i]["server"], ext' = ext, req'[i] = req[i],
         svc'[i].config = svc[i].config, svc'[i].owned = svc[i].owned,
         svc'[i].instance = svc[i].instance, svc'[i].prepared = svc[i].prepared,
         svc'[i].pending = svc[i].pending
  PROVE  RequestInv(i)'
  BY DEF RequestInv, Past, PortOfService

\* A step of the thread that moves nothing of the service but its place.
LEMMA PlaceMoves ==
  ASSUME NEW i, ServiceInv(i), svc'[i] = svc[i], journal'[i] = journal[i], proc'[i] = proc[i],
         req'[i] = req[i], ext' = ext, StageInv(i)',
         At(i) \notin {"assign", "observe", "undo", "crashed"},
         At(i)' \notin {"abort", "undo", "kill", "observe"},
         At(i)' # "crashed", At(i)' \in {"handle", "finish"} => Ended(i),
         At(i)' \in {"scan", "list", "handle", "finish"} => ~svc[i].handle,
         At(i)' = "finish" => ~svc[i].scope
  PROVE  ServiceInv(i)'
  BY ProcStays, ListStays, JournalStays, InstanceStays, RequestStays DEF ServiceInv

LEMMA GotoCo ==
  ASSUME TypeOK, NEW pc \in CoPC, Goto(pc)
  PROVE  /\ co' \in CoSet /\ co'.pc = pc /\ co'.current = co.current /\ co'.residents = co.residents
         /\ co'.keep = co.keep /\ co'.cleanup = co.cleanup
  BY DEF TypeOK, CoSet, CoPC, Goto

LEMMA StartCloseCo ==
  ASSUME TypeOK, NEW i \in Live, NEW why \in Why, StartClose(i, why)
  PROVE  /\ co' \in CoSet /\ co'.pc = "close" /\ co'.current = co.current
         /\ co'.residents = co.residents /\ co'.keep = co.keep
         /\ co'.cleanup = (co.cleanup \/ why \in {"residents", "off", "drain"})
         /\ closing' \in ClosingSet /\ closing'.of = i /\ closing'.why = why
  <1>1. co \in CoSet
    BY DEF TypeOK, CoSet, CoPC
  <1>2. co' = [co EXCEPT !.pc = "close", !.release = @ \/ why \in {"release", "stop"},
                         !.cleanup = @ \/ why \in {"residents", "off", "drain"}]
    BY DEF StartClose
  <1>3. /\ co'.pc = "close" /\ co'.current = co.current /\ co'.residents = co.residents
        /\ co'.keep = co.keep /\ co'.cleanup = (co.cleanup \/ why \in {"residents", "off", "drain"})
        /\ co' \in CoSet
    BY <1>1, <1>2 DEF CoSet, CoPC
  <1>4. closing' = [of |-> i, why |-> why, seen |-> {}]
    BY DEF StartClose
  <1>5. closing' \in ClosingSet /\ closing'.of = i /\ closing'.why = why
    BY <1>4, Numbers DEF ClosingSet
  <1> QED
    BY <1>3, <1>5

LEMMA Wrote ==
  ASSUME TypeOK, NEW i \in Service, NEW r \in RecordSet, Write(i, r)
  PROVE  /\ journal' \in [Service -> RecordSet] /\ journal'[i] = r
         /\ \A j \in Service \ {i} : journal'[j] = journal[j]
  BY DEF TypeOK, RecordSet, Write

LEMMA TypesNext == Types' => TypeOK'
  BY DEF TypeOK, Types, SvcSet, RecordSet, ReqSet, CoPC, CoSet, Why, ClosingSet

LEMMA FaultNext == ASSUME TypeOK, Works \/ Fault PROVE fault' \in 0..MaxFault
  <1>1. fault \in 0..MaxFault /\ MaxFault \in Nat
    BY ResidenceAssumption DEF TypeOK
  <1> QED
    BY <1>1 DEF Works, Fault

\* An error inside prepare, with nothing of the service's own moved by it.
LEMMA PrepareFailsKeeps ==
  ASSUME IInv, NEW i \in Live, co.pc \in PreparePC \ {"assign"}, co.current = i, PrepareFails,
         fault' \in 0..MaxFault, UNCHANGED <<svc, made, journal, proc, pidFile, req, ext>>
  PROVE  IInv'
  <1>1. /\ TypeOK /\ Types /\ ServiceInv(i) /\ co.pc \in HandPC
    BY TypesAre DEF IInv, HandPC
  <1>2. /\ co' \in CoSet /\ co'.pc = "close" /\ co'.current = i
        /\ co'.residents = co.residents /\ co'.keep = co.keep
        /\ co'.cleanup = co.cleanup /\ closing' \in ClosingSet /\ closing'.of = i
        /\ closing'.why = "prepare"
    <2>1. co.cleanup \in BOOLEAN
      BY <1>1 DEF Types, CoSet
    <2> QED
      BY <1>1, <2>1, StartCloseCo DEF PrepareFails, Why
  <1>3. TypeOK'
    <2>1. Types'
      BY <1>1, <1>2 DEF Types
    <2> QED
      BY <2>1, TypesNext
  <1>4. At(i) = co.pc /\ At(i)' = "close"
    BY <1>1, <1>2, OwnPlace, PlaceNext DEF ClosePC
  <1>5. StageInv(i)'
    BY <1>1, <1>4 DEF ServiceInv, StageInv, PreparePC, LaunchPC, AbortPC, RequestPC, ClosePC
  <1>6. ServiceInv(i)'
    BY <1>1, <1>4, <1>5, PlaceMoves DEF PreparePC, LaunchPC
  <1> QED
    BY <1>1, <1>2, <1>3, <1>6, HandStep DEF ClosePC

\* What is known of the service in hand.
LEMMA InHand ==
  ASSUME IInv, NEW i \in Live, co.pc \in HandPC, co.current = i
  PROVE  /\ TypeOK /\ Types /\ ServiceInv(i) /\ At(i) = co.pc /\ i \in Service /\ Held(i)
         /\ svc[i] \in SvcSet /\ journal[i] \in RecordSet /\ proc[i] \in [Proc -> ProcState]
         /\ req[i] \in ReqSet /\ PortOfService(i) \in Port
  <1>1. TypeOK /\ Types /\ ServiceInv(i) /\ i \in Service
    BY TypesAre, Numbers DEF IInv
  <1>2. At(i) = co.pc /\ Held(i) /\ PortOfService(i) \in Port
    BY OwnPlace, HasPort DEF Held
  <1> QED
    BY <1>1, <1>2 DEF Types

-----------------------------------------------------------------------------
(* The preparation.                                                         *)

\* The thread goes on to pc with what it has done to the service in hand.
LEMMA HandGoes ==
  ASSUME IInv, NEW i \in Live, co.pc \in HandPC, co.current = i, NEW pc \in HandPC, Goto(pc),
         UNCHANGED <<made, ext>>, closing' \in ClosingSet,
         pidFile' \in [Service -> Instance \cup {Launcher}],
         svc' \in [Service -> SvcSet], journal' \in [Service -> RecordSet],
         proc' \in [Service -> [Proc -> ProcState]], req' \in [Service -> ReqSet],
         fault' \in 0..MaxFault,
         \A j \in Service \ {i} : /\ svc'[j] = svc[j] /\ journal'[j] = journal[j]
                                  /\ proc'[j] = proc[j] /\ req'[j] = req[j],
         svc'[i].config = svc[i].config, svc'[i].closed = svc[i].closed,
         At(i)' = pc => ServiceInv(i)'
  PROVE  IInv'
  <1>1. TypeOK /\ Types
    BY TypesAre DEF IInv
  <1>2. /\ co' \in CoSet /\ co'.pc = pc /\ co'.current = i /\ co'.residents = co.residents
        /\ co'.keep = co.keep /\ co'.cleanup = co.cleanup
    BY <1>1, GotoCo DEF HandPC, PreparePC, LaunchPC, AbortPC, RequestPC, CoPC
  <1>3. Types'
    BY <1>1, <1>2 DEF Types
  <1>4. At(i)' = pc
    BY <1>2, PlaceNext
  <1> QED
    BY <1>2, <1>3, <1>4, TypesNext, HandStep

LEMMA AdoptKeeps == ASSUME IInv, NEW i \in Live, Adopt(i) PROVE IInv'
  <1>1. /\ co.pc = "probe" /\ co.current = i /\ Goto("ready") /\ svc' = [svc EXCEPT ![i].owned = "external"]
        /\ UNCHANGED <<made, journal, proc, pidFile, req, ext, closing, fault>>
    BY DEF Adopt
  <1>2. co.pc \in HandPC /\ "ready" \in HandPC
    BY <1>1 DEF HandPC, PreparePC
  <1>3. /\ TypeOK /\ Types /\ ServiceInv(i) /\ At(i) = "probe" /\ i \in Service
        /\ svc[i] \in SvcSet
    BY <1>1, <1>2, InHand
  <1>4. /\ svc' \in [Service -> SvcSet] /\ \A j \in Service \ {i} : svc'[j] = svc[j]
        /\ svc'[i].owned = "external" /\ svc'[i].config = svc[i].config
        /\ svc'[i].scope = svc[i].scope /\ svc'[i].handle = svc[i].handle
        /\ svc'[i].prepared = svc[i].prepared /\ svc'[i].closed = svc[i].closed
        /\ svc'[i].instance = svc[i].instance /\ svc'[i].pending = svc[i].pending
        /\ svc'[i].members = svc[i].members
    BY <1>1, <1>3 DEF Types, SvcSet
  <1>5. /\ svc[i].owned = "none" /\ ~svc[i].prepared /\ ~svc[i].scope /\ ~svc[i].closed
        /\ \A p \in Proc : proc[i][p] = "none"
        /\ svc[i].instance = NoInstance /\ journal[i].owned = "none"
        /\ LastPhase(i) # "ready"
    BY <1>3 DEF ServiceInv, StageInv, ProcInv, InstanceInv, JournalInv, PreparePC, ClosePC
  <1>6. ASSUME At(i)' = "ready" PROVE ServiceInv(i)'
    <2>1. ProcInv(i)'
      BY <1>1, <1>4, <1>5, <1>6 DEF ProcInv, Ended, InJob, InJobState
    <2>6. ListInv(i)'
      BY <1>1, <1>3, <1>4, <1>6, ListStays DEF ServiceInv
    <2>2. JournalInv(i)'
      BY <1>1, <1>3, <1>4, <1>5 DEF ServiceInv, JournalInv, LastPhase
    <2>3. InstanceInv(i)'
      BY <1>4, <1>5 DEF InstanceInv
    <2>4. RequestInv(i)'
      BY <1>1, <1>3, <1>4, <1>5 DEF ServiceInv, RequestInv
    <2>5. StageInv(i)'
      BY <1>1, <1>4, <1>5, <1>6 DEF StageInv, PreparePC, LaunchPC, AbortPC, RequestPC, ClosePC
    <2> QED
      BY <2>1, <2>2, <2>3, <2>4, <2>5, <2>6 DEF ServiceInv
  <1>7. fault' \in 0..MaxFault
    BY <1>1, <1>3 DEF Types
  <1> QED
    BY <1>1, <1>2, <1>3, <1>4, <1>6, <1>7, HandGoes DEF Types

\* The three intentions that are written before their step.
LEMMA IntendKeeps ==
  ASSUME IInv, NEW i \in Live, IntendScope(i) \/ RecordJob(i) \/ IntendLaunch(i)
  PROVE  IInv'
  <1>1. PICK pc \in {"probe", "policy", "intent"}, from \in Phase, to \in Phase,
             next \in {"scope", "intent", "spawn"} :
          /\ Intend(i, pc, from, to, next)
          /\ \/ pc = "probe" /\ from = "registered" /\ to = "scope_starting" /\ next = "scope"
             \/ pc = "policy" /\ from = "scope_starting" /\ to = "scope_acquired" /\ next = "intent"
             \/ pc = "intent" /\ from = "scope_acquired" /\ to = "launch_starting" /\ next = "spawn"
    BY DEF IntendScope, RecordJob, IntendLaunch, IntentPhase, Phase
  <1>2. /\ co.pc = pc /\ co.current = i /\ co.pc \in HandPC /\ co.pc \in PreparePC \ {"assign"}
        /\ UNCHANGED <<svc, made, proc, pidFile, req, ext>> /\ next \in HandPC
    BY <1>1 DEF Intend, HandPC, PreparePC, LaunchPC
  <1>3. /\ TypeOK /\ Types /\ ServiceInv(i) /\ At(i) = pc /\ i \in Service
        /\ svc[i] \in SvcSet /\ journal[i] \in RecordSet
    BY <1>2, InHand
  <1>4. CASE Fault /\ PrepareFails /\ UNCHANGED journal
    BY <1>2, <1>3, <1>4, FaultNext, PrepareFailsKeeps
  <1>5. CASE ~(Fault /\ PrepareFails /\ UNCHANGED journal)
    <2> DEFINE r == [journal[i] EXCEPT !.phase = to,
                       !.owned = IF from = "scope_starting" THEN "owned" ELSE @]
    <2>1. Works /\ journal[i].phase = from /\ Write(i, r) /\ Goto(next) /\ UNCHANGED closing
      BY <1>1, <1>5 DEF Intend
    <2>2. /\ r \in RecordSet /\ r.phase = to /\ r.from = journal[i].from
          /\ r.owned = (IF from = "scope_starting" THEN "owned" ELSE journal[i].owned)
          /\ r.pending = journal[i].pending /\ r.members = journal[i].members
      BY <1>3 DEF RecordSet
    <2> HIDE DEF r
    <2>3. /\ journal' \in [Service -> RecordSet] /\ journal'[i] = r
          /\ \A j \in Service \ {i} : journal'[j] = journal[j]
      BY <1>3, <2>1, <2>2, Wrote
    <2>4. ~svc[i].prepared /\ ~svc[i].closed /\ (pc = "probe" => svc[i].owned = "none")
          /\ (pc # "probe" => svc[i].owned = "owned" /\ svc[i].scope)
          /\ \A p \in Proc : proc[i][p] \notin {"dying", "dropped"}
      BY <1>1, <1>3 DEF ServiceInv, StageInv, PreparePC, LaunchPC, ClosePC
    <2>5. ASSUME At(i)' = next PROVE ServiceInv(i)'
      <3>1. ProcInv(i)'
        BY <1>1, <1>2, <1>3, <2>2, <2>3, <2>5, ProcStays DEF ServiceInv
      <3>5. ListInv(i)'
        BY <1>1, <1>2, <1>3, <2>2, <2>3, <2>5, ListStays DEF ServiceInv
      <3>2. JournalInv(i)'
        <4>1. JournalInv(i)
          BY <1>3 DEF ServiceInv
        <4>2. LastPhase(i)' # "ready"
          BY <1>1, <2>2, <2>3 DEF LastPhase
        <4>3. journal[i].owned # "none" => journal[i].owned = svc[i].owned
          BY <4>1 DEF JournalInv
        <4>4. journal'[i].owned # "none" => journal'[i].owned = svc[i].owned
          BY <1>1, <2>2, <2>3, <2>4, <4>3
        <4>5. journal'[i].phase \in {"scope_acquired", "launch_starting", "launch_registered"} =>
                journal'[i].owned = "owned"
          BY <1>1, <2>1, <2>2, <2>3, <4>1 DEF JournalInv
        <4>6. journal'[i].pending = svc[i].pending
          BY <2>2, <2>3, <4>1 DEF JournalInv
        <4> QED
          BY <1>2, <2>4, <4>2, <4>4, <4>5, <4>6 DEF JournalInv
      <3>3. InstanceInv(i)' /\ RequestInv(i)'
        BY <1>2, <1>3, InstanceStays, RequestStays DEF ServiceInv
      <3>4. StageInv(i)'
        BY <1>1, <1>2, <2>2, <2>3, <2>4, <2>5
           DEF StageInv, PreparePC, LaunchPC, AbortPC, RequestPC, ClosePC
      <3> QED
        BY <3>1, <3>2, <3>3, <3>4, <3>5 DEF ServiceInv
    <2>6. fault' \in 0..MaxFault
      BY <1>3, <2>1, FaultNext
    <2> QED
      BY <1>2, <1>3, <2>1, <2>3, <2>5, <2>6, HandGoes DEF Types
  <1> QED
    BY <1>4, <1>5

\* An error inside prepare that has left its mark on the service.
LEMMA PrepareFailsWith ==
  ASSUME IInv, NEW i \in Live, co.pc \in PreparePC \cup AbortPC, co.current = i,
         PrepareFails, UNCHANGED <<made, ext>>, pidFile' \in [Service -> Instance \cup {Launcher}],
         svc' \in [Service -> SvcSet], journal' \in [Service -> RecordSet],
         proc' \in [Service -> [Proc -> ProcState]], req' \in [Service -> ReqSet],
         fault' \in 0..MaxFault,
         \A j \in Service \ {i} : /\ svc'[j] = svc[j] /\ journal'[j] = journal[j]
                                  /\ proc'[j] = proc[j] /\ req'[j] = req[j],
         svc'[i].config = svc[i].config, svc'[i].closed = svc[i].closed,
         At(i)' = "close" => ServiceInv(i)'
  PROVE  IInv'
  <1>1. TypeOK /\ Types /\ co.pc \in HandPC
    BY TypesAre DEF IInv, HandPC
  <1>2. /\ co' \in CoSet /\ co'.pc = "close" /\ co'.current = i
        /\ co'.residents = co.residents /\ co'.keep = co.keep
        /\ co'.cleanup = co.cleanup /\ closing' \in ClosingSet /\ closing'.of = i
        /\ closing'.why = "prepare"
    <2>1. co.cleanup \in BOOLEAN
      BY <1>1 DEF Types, CoSet
    <2> QED
      BY <1>1, <2>1, StartCloseCo DEF PrepareFails, Why
  <1>3. Types'
    BY <1>1, <1>2 DEF Types
  <1>4. At(i)' = "close"
    BY <1>2, PlaceNext DEF ClosePC
  <1> QED
    BY <1>1, <1>2, <1>3, <1>4, TypesNext, HandStep DEF ClosePC

LEMMA CreateJobKeeps == ASSUME IInv, NEW i \in Live, CreateJob(i) PROVE IInv'
  <1>1. /\ co.pc = "scope" /\ co.current = i /\ co.pc \in HandPC /\ co.pc \in PreparePC
        /\ UNCHANGED <<made, journal, proc, pidFile, req, ext>> /\ "policy" \in HandPC
    BY DEF CreateJob, HandPC, PreparePC, LaunchPC
  <1>2. /\ TypeOK /\ Types /\ ServiceInv(i) /\ At(i) = "scope" /\ i \in Service
        /\ svc[i] \in SvcSet
    BY <1>1, InHand
  <1>3. /\ svc[i].owned = "none" /\ ~svc[i].prepared /\ ~svc[i].scope /\ ~svc[i].closed
        /\ \A p \in Proc : proc[i][p] = "none"
        /\ svc[i].instance = NoInstance /\ journal[i].owned = "none"
        /\ LastPhase(i) # "ready"
    BY <1>2 DEF ServiceInv, StageInv, ProcInv, InstanceInv, JournalInv, PreparePC, ClosePC
  <1>4. CASE /\ Works /\ svc' = [svc EXCEPT ![i].scope = TRUE, ![i].owned = "owned"]
             /\ Goto("policy") /\ UNCHANGED closing
    <2>1. /\ svc' \in [Service -> SvcSet] /\ \A j \in Service \ {i} : svc'[j] = svc[j]
          /\ svc'[i].owned = "owned" /\ svc'[i].config = svc[i].config
          /\ svc'[i].scope /\ svc'[i].handle = svc[i].handle
          /\ svc'[i].prepared = svc[i].prepared /\ svc'[i].closed = svc[i].closed
          /\ svc'[i].instance = svc[i].instance /\ svc'[i].pending = svc[i].pending
          /\ svc'[i].members = svc[i].members
      BY <1>2, <1>4 DEF Types, SvcSet
    <2>2. ASSUME At(i)' = "policy" PROVE ServiceInv(i)'
      <3>1. ProcInv(i)'
        BY <1>1, <1>3, <2>1, <2>2 DEF ProcInv, Ended, InJob, InJobState
      <3>6. ListInv(i)'
        BY <1>1, <1>2, <2>1, <2>2, ListStays DEF ServiceInv
      <3>2. JournalInv(i)'
        BY <1>1, <1>2, <1>3, <2>1 DEF ServiceInv, JournalInv, LastPhase
      <3>3. InstanceInv(i)'
        BY <1>3, <2>1 DEF InstanceInv
      <3>4. RequestInv(i)'
        BY <1>1, <1>2, <1>3, <2>1 DEF ServiceInv, RequestInv
      <3>5. StageInv(i)'
        BY <1>1, <1>3, <2>1, <2>2 DEF StageInv, PreparePC, LaunchPC, AbortPC, RequestPC, ClosePC
      <3> QED
        BY <3>1, <3>2, <3>3, <3>4, <3>5, <3>6 DEF ServiceInv
    <2>3. fault' \in 0..MaxFault
      BY <1>2, <1>4, FaultNext
    <2> QED
      BY <1>1, <1>2, <1>4, <2>1, <2>2, <2>3, HandGoes DEF Types
  <1>5. CASE /\ Fault /\ \E stuck \in BOOLEAN : svc' = [svc EXCEPT ![i].handle = stuck]
             /\ PrepareFails
    <2>0. PICK stuck \in BOOLEAN : svc' = [svc EXCEPT ![i].handle = stuck]
      BY <1>5
    <2>1. /\ svc' \in [Service -> SvcSet] /\ \A j \in Service \ {i} : svc'[j] = svc[j]
          /\ svc'[i].owned = svc[i].owned /\ svc'[i].config = svc[i].config
          /\ svc'[i].scope = svc[i].scope
          /\ svc'[i].prepared = svc[i].prepared /\ svc'[i].closed = svc[i].closed
          /\ svc'[i].instance = svc[i].instance /\ svc'[i].pending = svc[i].pending
          /\ svc'[i].members = svc[i].members
      BY <1>2, <2>0 DEF Types, SvcSet
    <2>2. ASSUME At(i)' = "close" PROVE ServiceInv(i)'
      <3>1. ProcInv(i)'
        BY <1>1, <1>2, <2>1, <2>2, ProcStays DEF ServiceInv
      <3>6. ListInv(i)'
        BY <1>1, <1>2, <2>1, <2>2, ListStays DEF ServiceInv
      <3>2. JournalInv(i)'
        BY <1>1, <1>2, <2>1, JournalStays DEF ServiceInv
      <3>3. InstanceInv(i)' /\ RequestInv(i)'
        BY <1>1, <1>2, <2>1, InstanceStays, RequestStays DEF ServiceInv
      <3>4. StageInv(i)'
        BY <1>1, <1>3, <2>1, <2>2 DEF StageInv, PreparePC, LaunchPC, AbortPC, RequestPC, ClosePC
      <3> QED
        BY <3>1, <3>2, <3>3, <3>4, <3>6 DEF ServiceInv
    <2>3. fault' \in 0..MaxFault
      BY <1>2, <1>5, FaultNext
    <2> QED
      BY <1>1, <1>2, <1>5, <2>1, <2>2, <2>3, PrepareFailsWith DEF Types
  <1> QED
    BY <1>4, <1>5 DEF CreateJob

\* What is known of a launch that has its Job.
LEMMA InLaunch ==
  ASSUME IInv, NEW i \in Live, co.pc \in LaunchPC, co.current = i
  PROVE  /\ svc[i].owned = "owned" /\ svc[i].scope /\ ~svc[i].prepared /\ ~svc[i].closed
         /\ ~svc[i].pending
         /\ LastPhase(i) # "ready" /\ journal[i].phase # "ready"
         /\ \A p \in Proc : proc[i][p] \notin {"dying", "dropped"}
         /\ req[i] = [at |-> "none", by |-> NoInstance, last |-> NoInstance]
  <1>1. co.pc \in HandPC /\ co.pc \in PreparePC
    BY DEF HandPC, PreparePC
  <1>2. ServiceInv(i) /\ At(i) = co.pc
    BY <1>1, InHand
  <1>3. svc[i].owned = "owned" /\ svc[i].scope /\ ~svc[i].prepared /\ ~svc[i].closed
        /\ \A p \in Proc : proc[i][p] \notin {"dying", "dropped"}
    BY <1>1, <1>2 DEF ServiceInv, StageInv, LaunchPC, ClosePC
  <1>4. LastPhase(i) # "ready" /\ journal[i].phase # "ready"
    BY <1>2, <1>3 DEF ServiceInv, JournalInv, LastPhase
  <1> QED
    BY <1>2, <1>3, <1>4 DEF ServiceInv, RequestInv

\* A step of the launch that moves nothing but the launcher.
LEMMA LauncherMoves ==
  ASSUME IInv, NEW i \in Live, co.pc \in LaunchPC, co.current = i, NEW state \in ProcState,
         state \notin {"none", "dying"}, state = "dropped" => At(i)' = "close",
         state = "out" <=> At(i)' = "assign",
         At(i)' = "assign" => journal[i].phase = "launch_starting",
         proc' = [proc EXCEPT ![i]["launcher"] = state],
         At(i)' \in (LaunchPC \ {"spawn"}) \cup {"ready", "close"},
         UNCHANGED <<svc, journal, req, ext>>
  PROVE  /\ ServiceInv(i)' /\ proc' \in [Service -> [Proc -> ProcState]]
         /\ \A j \in Service \ {i} : proc'[j] = proc[j]
  <1>1. co.pc \in HandPC
    BY DEF HandPC, PreparePC
  <1>2. /\ TypeOK /\ Types /\ ServiceInv(i) /\ At(i) = co.pc /\ i \in Service
        /\ proc[i] \in [Proc -> ProcState]
    BY <1>1, InHand
  <1>3. /\ proc' \in [Service -> [Proc -> ProcState]] /\ proc'[i]["launcher"] = state
        /\ proc'[i]["server"] = proc[i]["server"] /\ \A j \in Service \ {i} : proc'[j] = proc[j]
    <2>1. proc \in [Service -> [Proc -> ProcState]]
      BY <1>2 DEF Types
    <2>2. proc' = [proc EXCEPT ![i] = [proc[i] EXCEPT !["launcher"] = state]]
      OBVIOUS
    <2>3. [proc[i] EXCEPT !["launcher"] = state] \in [Proc -> ProcState]
      BY <1>2
    <2>4. proc'[i] = [proc[i] EXCEPT !["launcher"] = state]
      BY <1>2, <2>1, <2>2
    <2>5. proc'[i]["launcher"] = state /\ proc'[i]["server"] = proc[i]["server"]
      BY <1>2, <2>4 DEF Proc
    <2> QED
      BY <1>2, <2>1, <2>2, <2>3, <2>5
  <1>4. /\ svc[i].owned = "owned" /\ svc[i].scope /\ ~svc[i].prepared /\ ~svc[i].closed
        /\ \A p \in Proc : proc[i][p] \notin {"dying", "dropped"}
    BY InLaunch
  <1>5. ProcInv(i)'
    <2>1. proc'[i]["server"] \notin {"dying", "out"}
      BY <1>2, <1>3, <1>4 DEF ServiceInv, ProcInv, Proc
    <2>2. At(i)' \notin {"crashed", "scan", "list", "kill", "observe", "handle", "finish"}
      BY DEF LaunchPC
    <2>3. \A p \in Proc : proc'[i][p] # "dying"
      BY <1>3, <2>1 DEF Proc
    <2>4. \A p \in Proc : proc'[i][p] = "out" =>
            p = "launcher" /\ At(i)' = "assign" /\ journal'[i].phase = "launch_starting"
      BY <1>3, <2>1 DEF Proc
    <2> QED
      BY <1>4, <2>2, <2>3, <2>4 DEF ProcInv
  <1>6. JournalInv(i)'
    BY <1>2, <1>4 DEF ServiceInv, JournalInv, LastPhase
  <1>7. InstanceInv(i)' /\ RequestInv(i)'
    BY <1>2, <1>3, InstanceStays, RequestStays DEF ServiceInv
  <1>8. StageInv(i)'
    <2>1. \A p \in Proc : proc'[i][p] # "dying" /\ (At(i)' # "close" => proc'[i][p] # "dropped")
      BY <1>3, <1>5, <1>4 DEF Proc
    <2>2. proc'[i]["launcher"] # "none"
      BY <1>3
    <2> QED
      BY <1>4, <2>1, <2>2 DEF StageInv, PreparePC, LaunchPC, AbortPC, RequestPC, ClosePC
  <1>9. ListInv(i)'
    <2>1. At(i)' \notin {"abort", "undo", "kill", "observe"}
      BY DEF LaunchPC
    <2>2. \A p \in Proc : proc'[i][p] = "none" => proc[i][p] = "none"
      BY <1>3 DEF Proc
    <2> QED
      BY <1>2, <1>3, <2>1, <2>2 DEF ServiceInv, ListInv
  <1> QED
    BY <1>3, <1>5, <1>6, <1>7, <1>8, <1>9 DEF ServiceInv

LEMMA CreateSuspendedKeeps == ASSUME IInv, NEW i \in Live, CreateSuspended(i) PROVE IInv'
  <1>1. /\ co.pc = "spawn" /\ co.current = i /\ co.pc \in HandPC /\ co.pc \in LaunchPC
        /\ Goto("assign") /\ proc' = [proc EXCEPT ![i]["launcher"] = "out"]
        /\ UNCHANGED <<svc, made, journal, pidFile, req, ext, closing, fault>>
        /\ "assign" \in HandPC
    BY DEF CreateSuspended, HandPC, PreparePC, LaunchPC
  <1>2. TypeOK /\ Types /\ ServiceInv(i) /\ At(i) = "spawn"
    BY <1>1, InHand
  <1>3. co'.pc = "assign" /\ co'.current = i
    BY <1>1, <1>2, GotoCo DEF CoPC
  <1>4. At(i)' = "assign"
    BY <1>1, <1>3, PlaceNext
  <1>5. journal[i].phase = "launch_starting"
    BY <1>2 DEF ServiceInv, StageInv
  <1>6. /\ ServiceInv(i)' /\ proc' \in [Service -> [Proc -> ProcState]]
        /\ \A j \in Service \ {i} : proc'[j] = proc[j]
    <2>1. "out" \in ProcState
      BY DEF ProcState, AliveState
    <2>2. At(i)' \in (LaunchPC \ {"spawn"}) \cup {"ready", "close"}
      BY <1>4 DEF LaunchPC
    <2>3. proc' = [proc EXCEPT ![i]["launcher"] = "out"]
      BY <1>1
    <2> QED
      BY <1>1, <1>4, <1>5, <2>1, <2>2, <2>3, LauncherMoves
  <1> QED
    BY <1>1, <1>2, <1>6, HandGoes DEF Types

LEMMA AssignKeeps == ASSUME IInv, NEW i \in Live, Assign(i) PROVE IInv'
  <1>1. /\ co.pc = "assign" /\ co.current = i /\ co.pc \in HandPC /\ co.pc \in LaunchPC
        /\ co.pc \in PreparePC
        /\ UNCHANGED <<svc, made, journal, pidFile, req, ext>> /\ "record" \in HandPC
    BY DEF Assign, HandPC, PreparePC, LaunchPC
  <1>2. TypeOK /\ Types /\ ServiceInv(i) /\ At(i) = "assign" /\ i \in Service
    BY <1>1, InHand
  <1>3. fault' \in 0..MaxFault
    BY <1>2, FaultNext DEF Assign
  <1>4. CASE Works /\ proc' = [proc EXCEPT ![i]["launcher"] = "held"] /\ Goto("record")
             /\ UNCHANGED closing
    <2>1. co'.pc = "record" /\ co'.current = i
      BY <1>1, <1>2, <1>4, GotoCo DEF CoPC
    <2>2. At(i)' = "record"
      BY <1>1, <2>1, PlaceNext
    <2>3. /\ ServiceInv(i)' /\ proc' \in [Service -> [Proc -> ProcState]]
          /\ \A j \in Service \ {i} : proc'[j] = proc[j]
      <3>1. "held" \in ProcState
        BY DEF ProcState, AliveState, InJobState
      <3>2. proc' = [proc EXCEPT ![i]["launcher"] = "held"]
        BY <1>4
      <3>3. At(i)' \in (LaunchPC \ {"spawn"}) \cup {"ready", "close"} /\ At(i)' # "assign"
        BY <2>2 DEF LaunchPC
      <3> QED
        BY <1>1, <3>1, <3>2, <3>3, LauncherMoves
    <2> QED
      BY <1>1, <1>2, <1>3, <1>4, <2>3, HandGoes DEF Types
  <1>5. CASE Fault /\ proc' = [proc EXCEPT ![i]["launcher"] = "dropped"] /\ PrepareFails
    <2>1. co'.pc = "close" /\ closing'.of = i
      BY <1>1, <1>2, <1>5, StartCloseCo DEF PrepareFails, Why
    <2>2. At(i)' = "close"
      BY <2>1, PlaceNext DEF ClosePC
    <2>3. /\ ServiceInv(i)' /\ proc' \in [Service -> [Proc -> ProcState]]
          /\ \A j \in Service \ {i} : proc'[j] = proc[j]
      <3>1. "dropped" \in ProcState
        BY DEF ProcState
      <3>2. proc' = [proc EXCEPT ![i]["launcher"] = "dropped"]
        BY <1>5
      <3>3. At(i)' \in (LaunchPC \ {"spawn"}) \cup {"ready", "close"} /\ At(i)' # "assign"
        BY <2>2
      <3> QED
        BY <1>1, <2>2, <3>1, <3>2, <3>3, LauncherMoves
    <2> QED
      BY <1>1, <1>2, <1>3, <1>5, <2>3, PrepareFailsWith DEF Types
  <1> QED
    BY <1>4, <1>5 DEF Assign

LEMMA RecordAndResumeKeeps == ASSUME IInv, NEW i \in Live, RecordAndResume(i) PROVE IInv'
  <1>1. /\ co.pc = "record" /\ co.current = i /\ co.pc \in HandPC /\ co.pc \in LaunchPC
        /\ co.pc \in PreparePC
        /\ UNCHANGED <<svc, made, pidFile, req, ext>> /\ "resume" \in HandPC
    BY DEF RecordAndResume, HandPC, PreparePC, LaunchPC
  <1>2. /\ TypeOK /\ Types /\ ServiceInv(i) /\ At(i) = "record" /\ i \in Service
        /\ journal[i] \in RecordSet
    BY <1>1, InHand
  <1>3. fault' \in 0..MaxFault
    BY <1>2, FaultNext DEF RecordAndResume
  <1>4. CASE /\ Fault /\ proc' = [proc EXCEPT ![i]["launcher"] = "dropped"] /\ PrepareFails
             /\ UNCHANGED journal
    <2>1. co'.pc = "close" /\ closing'.of = i
      BY <1>1, <1>2, <1>4, StartCloseCo DEF PrepareFails, Why
    <2>2. At(i)' = "close"
      BY <2>1, PlaceNext DEF ClosePC
    <2>3. /\ ServiceInv(i)' /\ proc' \in [Service -> [Proc -> ProcState]]
          /\ \A j \in Service \ {i} : proc'[j] = proc[j]
      <3>1. "dropped" \in ProcState
        BY DEF ProcState
      <3>2. proc' = [proc EXCEPT ![i]["launcher"] = "dropped"]
        BY <1>4
      <3>3. At(i)' \in (LaunchPC \ {"spawn"}) \cup {"ready", "close"} /\ At(i)' # "assign"
        BY <2>2
      <3> QED
        BY <1>1, <1>4, <2>2, <3>1, <3>2, <3>3, LauncherMoves
    <2> QED
      BY <1>1, <1>2, <1>3, <1>4, <2>3, PrepareFailsWith DEF Types
  <1>5. CASE /\ Works /\ journal[i].phase = "launch_starting"
             /\ Write(i, [journal[i] EXCEPT !.phase = "launch_registered", !.members = {"launcher"}])
             /\ Goto("resume") /\ UNCHANGED <<proc, closing>>
    <2> DEFINE r == [journal[i] EXCEPT !.phase = "launch_registered", !.members = {"launcher"}]
    <2>1. /\ r \in RecordSet /\ r.phase = "launch_registered" /\ r.from = journal[i].from
          /\ r.owned = journal[i].owned /\ r.pending = journal[i].pending
          /\ r.members = {"launcher"}
      BY <1>2 DEF RecordSet, Phase, Proc
    <2>2. Write(i, r)
      BY <1>5
    <2> HIDE DEF r
    <2>3. /\ journal' \in [Service -> RecordSet] /\ journal'[i] = r
          /\ \A j \in Service \ {i} : journal'[j] = journal[j]
      BY <1>2, <2>1, <2>2, Wrote
    <2>4. /\ svc[i].owned = "owned" /\ svc[i].scope /\ ~svc[i].prepared /\ ~svc[i].closed
          /\ \A p \in Proc : proc[i][p] \notin {"dying", "dropped"}
          /\ proc[i]["launcher"] # "none"
      BY <1>1, <1>2, InLaunch DEF ServiceInv, StageInv
    <2>5. ASSUME At(i)' = "resume" PROVE ServiceInv(i)'
      <3>1. ProcInv(i)'
        BY <1>1, <1>2, <1>5, <2>4, <2>5 DEF ServiceInv, ProcInv
      <3>5. ListInv(i)'
        BY <1>1, <1>2, <1>5, <2>1, <2>3, <2>4, <2>5 DEF ServiceInv, ListInv
      <3>2. JournalInv(i)'
        <4>1. JournalInv(i) /\ LastPhase(i)' # "ready"
          BY <1>2, <2>1, <2>3 DEF ServiceInv, LastPhase
        <4> QED
          BY <1>1, <1>5, <2>1, <2>3, <2>4, <4>1 DEF JournalInv
      <3>3. InstanceInv(i)' /\ RequestInv(i)'
        BY <1>1, <1>2, <1>5, InstanceStays, RequestStays DEF ServiceInv
      <3>4. StageInv(i)'
        BY <1>1, <1>5, <2>4, <2>5 DEF StageInv, PreparePC, LaunchPC, AbortPC, RequestPC, ClosePC
      <3> QED
        BY <3>1, <3>2, <3>3, <3>4, <3>5 DEF ServiceInv
    <2> QED
      BY <1>1, <1>2, <1>3, <1>5, <2>3, <2>5, HandGoes DEF Types
  <1> QED
    BY <1>4, <1>5 DEF RecordAndResume

LEMMA ResumeKeeps == ASSUME IInv, NEW i \in Live, Resume(i) PROVE IInv'
  <1>1. /\ co.pc = "resume" /\ co.current = i /\ co.pc \in HandPC /\ co.pc \in LaunchPC
        /\ co.pc \in PreparePC /\ "launched" \in HandPC
        /\ UNCHANGED <<svc, made, journal, pidFile, req, ext>>
    BY DEF Resume, HandPC, PreparePC, LaunchPC
  <1>2. /\ TypeOK /\ Types /\ ServiceInv(i) /\ At(i) = "resume" /\ i \in Service
        /\ proc[i] \in [Proc -> ProcState]
    BY <1>1, InHand
  <1>3. fault' \in 0..MaxFault
    BY <1>2, FaultNext DEF Resume
  <1>4. PICK new \in {"job", "dropped"} :
          /\ proc' = [proc EXCEPT ![i]["launcher"] = IF @ = "held" THEN new ELSE @]
          /\ \/ new = "job" /\ Goto("launched") /\ UNCHANGED closing
             \/ new = "dropped" /\ PrepareFails
    BY DEF Resume
  <1> DEFINE state == IF proc[i]["launcher"] = "held" THEN new ELSE proc[i]["launcher"]
  <1>5. proc' = [proc EXCEPT ![i]["launcher"] = state]
    <2>1. proc \in [Service -> [Proc -> ProcState]] /\ "launcher" \in Proc
      BY <1>2 DEF Types, Proc
    <2> QED
      BY <1>4, <2>1
  <1>6. /\ state \in ProcState /\ state \notin {"none", "dying", "out"}
        /\ (state = "dropped" => new = "dropped")
    <2>1. "launcher" \in Proc /\ "job" \in ProcState /\ "dropped" \in ProcState
      BY DEF Proc, ProcState, AliveState, InJobState
    <2>2. proc[i]["launcher"] \notin {"dying", "dropped"}
      BY <1>1, <2>1, InLaunch
    <2>3. proc[i]["launcher"] # "out"
      BY <1>2, <2>1 DEF ServiceInv, ProcInv
    <2>4. proc[i]["launcher"] # "none"
      BY <1>2 DEF ServiceInv, StageInv
    <2> QED
      BY <1>2, <2>1, <2>2, <2>3, <2>4
  <1> HIDE DEF state
  <1>7. CASE new = "job" /\ Goto("launched") /\ UNCHANGED closing
    <2>1. co'.pc = "launched" /\ co'.current = i
      BY <1>1, <1>2, <1>7, GotoCo DEF CoPC
    <2>2. At(i)' = "launched"
      BY <1>1, <2>1, PlaceNext
    <2>3. /\ ServiceInv(i)' /\ proc' \in [Service -> [Proc -> ProcState]]
          /\ \A j \in Service \ {i} : proc'[j] = proc[j]
      BY <1>1, <1>5, <1>6, <1>7, <2>2, LauncherMoves DEF LaunchPC
    <2> QED
      BY <1>1, <1>2, <1>3, <1>7, <2>3, HandGoes DEF Types
  <1>8. CASE new = "dropped" /\ PrepareFails
    <2>1. co'.pc = "close" /\ closing'.of = i
      BY <1>1, <1>2, <1>8, StartCloseCo DEF PrepareFails, Why
    <2>2. At(i)' = "close"
      BY <2>1, PlaceNext DEF ClosePC
    <2>3. /\ ServiceInv(i)' /\ proc' \in [Service -> [Proc -> ProcState]]
          /\ \A j \in Service \ {i} : proc'[j] = proc[j]
      BY <1>1, <1>5, <1>6, <2>2, LauncherMoves DEF LaunchPC
    <2> QED
      BY <1>1, <1>2, <1>3, <1>8, <2>3, PrepareFailsWith DEF Types
  <1> QED
    BY <1>4, <1>7, <1>8

\* Whoever has a process is answered for.
LEMMA RunningIsHeld ==
  ASSUME IInv, NEW j \in Live, ~Ended(j)
  PROVE  Held(j)
  BY DEF IInv, HeldInv, ServiceInv, StageInv, ProcInv

\* Who listens on the port of a service that is answered for: its own server,
\* or a stranger's.
LEMMA ListenerOf ==
  ASSUME IInv, NEW i \in Live, Held(i), Listener(PortOfService(i)) # NoInstance
  PROVE  \/ Listener(PortOfService(i)) = <<"own", i>> /\ proc[i]["server"] = "serving"
         \/ Listener(PortOfService(i)) = <<"ext", ext[PortOfService(i)].n>>
  <1> DEFINE P == PortOfService(i)
  <1>1. CASE Serving(P) # {}
    <2> DEFINE j == CHOOSE k \in Serving(P) : TRUE
    <2>1. j \in Serving(P) /\ Listener(P) = <<"own", j>>
      BY <1>1 DEF Listener
    <2> HIDE DEF j
    <2>2. j \in Live /\ PortOfService(j) = P /\ proc[j]["server"] = "serving"
      BY <2>1 DEF Serving
    <2>3. Held(j)
      BY <2>2, RunningIsHeld DEF Ended, Proc
    <2>4. j = i
      BY <2>2, <2>3 DEF IInv, HeldInv
    <2> QED
      BY <2>1, <2>2, <2>4
  <1>2. CASE Serving(P) = {}
    BY <1>2 DEF Listener
  <1> QED
    BY <1>1, <1>2

\* An instance that is past does not listen.
LEMMA PastIsPast ==
  ASSUME IInv, NEW i \in Live, Held(i), Past(i), svc[i].instance # NoInstance
  PROVE  Listener(PortOfService(i)) # svc[i].instance
  <1>1. TypeOK /\ PortOfService(i) \in Port /\ InstanceInv(i) /\ i \in Service
    BY HasPort, Numbers DEF IInv, ServiceInv
  <1>2. SUFFICES ASSUME Listener(PortOfService(i)) = svc[i].instance PROVE FALSE
    OBVIOUS
  <1>3. CASE Listener(PortOfService(i)) = <<"own", i>> /\ proc[i]["server"] = "serving"
    BY <1>2, <1>3 DEF Past
  <1>4. CASE Listener(PortOfService(i)) = <<"ext", ext[PortOfService(i)].n>>
    <2>1. ext[PortOfService(i)].n \in Nat
      BY <1>1, ResidenceAssumption DEF TypeOK
    <2>2. svc[i].instance[1] = "ext" /\ svc[i].instance[2] = ext[PortOfService(i)].n
      BY <1>2, <1>4
    <2> QED
      BY <2>1, <2>2 DEF Past
  <1> QED
    BY <1>2, <1>3, <1>4, ListenerOf

\* Instances that exist.
LEMMA InstanceTypes ==
  ASSUME IInv, NEW i \in Live, Held(i)
  PROVE  Listener(PortOfService(i)) \in Instance
  <1>1. TypeOK /\ PortOfService(i) \in Port
    BY HasPort DEF IInv
  <1>2. /\ made \in 0..MaxService /\ MaxService \in Nat /\ MaxExternal \in Nat
        /\ ext[PortOfService(i)].n \in 0..MaxExternal /\ i \in 1..made
    BY <1>1, ResidenceAssumption DEF TypeOK, Live
  <1>3. /\ i \in 0..MaxService + MaxExternal /\ 0 \in 0..MaxService + MaxExternal
        /\ ext[PortOfService(i)].n \in 0..MaxService + MaxExternal
    BY <1>2
  <1>4. NoInstance \in Instance /\ <<"own", i>> \in Instance
        /\ <<"ext", ext[PortOfService(i)].n>> \in Instance
    BY <1>3 DEF Instance, NoInstance
  <1> QED
    BY <1>4, ListenerOf

\* Whose process id a PID file may get.
LEMMA ReportedIs ==
  ASSUME IInv, NEW i \in Live, Held(i)
  PROVE  Reported(i) \subseteq Instance \cup {Launcher} /\ NoInstance \in Instance
  <1>1. NoInstance \in Instance
    BY ResidenceAssumption DEF NoInstance, Instance
  <1> QED
    BY <1>1, InstanceTypes DEF Reported

LEMMA WritePidKeeps == ASSUME IInv, NEW i \in Live, WritePid(i) PROVE IInv'
  <1>1. /\ co.pc = "launched" /\ co.current = i /\ co.pc \in HandPC /\ co.pc \in LaunchPC
        /\ Goto("ready")
        /\ UNCHANGED <<svc, made, journal, proc, req, ext, closing, fault>> /\ "ready" \in HandPC
    BY DEF WritePid, HandPC, PreparePC, LaunchPC
  <1>2. TypeOK /\ Types /\ ServiceInv(i) /\ At(i) = "launched" /\ Held(i)
    BY <1>1, InHand
  <1>3. /\ svc[i].owned = "owned" /\ svc[i].scope /\ ~svc[i].prepared /\ ~svc[i].closed
        /\ \A p \in Proc : proc[i][p] \notin {"dying", "dropped"}
    BY <1>1, InLaunch
  <1>4. ASSUME At(i)' = "ready" PROVE ServiceInv(i)'
    <2>1. StageInv(i)'
      BY <1>1, <1>3, <1>4 DEF StageInv, PreparePC, LaunchPC, AbortPC, RequestPC, ClosePC
    <2> QED
      BY <1>1, <1>2, <1>4, <2>1, PlaceMoves
  <1>5. pidFile' \in [Service -> Instance \cup {Launcher}]
    <2>1. PICK whose \in Reported(i) : pidFile' = [pidFile EXCEPT ![i] = whose]
      BY DEF WritePid
    <2> QED
      BY <1>2, <2>1, ReportedIs DEF Types
  <1> QED
    BY <1>1, <1>2, <1>4, <1>5, HandGoes DEF Types

\* What the end of a Job leaves.
LEMMA TerminatedIs ==
  ASSUME TypeOK, NEW i \in Service
  PROVE  /\ Terminated(i) \in [Service -> [Proc -> ProcState]]
         /\ \A j \in Service \ {i} : Terminated(i)[j] = proc[j]
         /\ \A p \in Proc : Terminated(i)[i][p] =
              (IF proc[i][p] \in InJobState THEN "dying" ELSE proc[i][p])
  <1>1. proc \in [Service -> [Proc -> ProcState]] /\ proc[i] \in [Proc -> ProcState]
    BY DEF TypeOK
  <1> DEFINE f == [p \in Proc |-> IF proc[i][p] \in InJobState THEN "dying" ELSE proc[i][p]]
  <1>2. f \in [Proc -> ProcState]
    BY <1>1 DEF ProcState
  <1>3. Terminated(i) = [proc EXCEPT ![i] = f]
    BY <1>1 DEF Terminated
  <1>4. \A p \in Proc : f[p] = IF proc[i][p] \in InJobState THEN "dying" ELSE proc[i][p]
    OBVIOUS
  <1> HIDE DEF f
  <1>5. /\ Terminated(i) \in [Service -> [Proc -> ProcState]]
        /\ \A j \in Service \ {i} : Terminated(i)[j] = proc[j]
        /\ Terminated(i)[i] = f
    BY <1>1, <1>2, <1>3
  <1> QED
    BY <1>4, <1>5

LEMMA LookAtListenerKeeps == ASSUME IInv, NEW i \in Live, LookAtListener(i) PROVE IInv'
  <1> DEFINE L == Listener(PortOfService(i))
  <1>1. /\ co.pc = "ready" /\ co.current = i /\ co.pc \in HandPC /\ Goto("confirm")
        /\ MayBe(i, L) /\ svc' = [svc EXCEPT ![i].instance = L]
        /\ UNCHANGED <<made, journal, proc, pidFile, req, ext, closing, fault>>
        /\ "confirm" \in HandPC
    BY DEF LookAtListener, HandPC, PreparePC
  <1>2. /\ TypeOK /\ Types /\ ServiceInv(i) /\ At(i) = "ready" /\ i \in Service /\ Held(i)
        /\ svc[i] \in SvcSet /\ PortOfService(i) \in Port
    BY <1>1, InHand
  <1>3. L \in Instance
    BY <1>2, InstanceTypes
  <1>4. /\ L # NoInstance /\ (svc[i].scope => L = <<"own", i>>)
        /\ \/ L = <<"own", i>> /\ proc[i]["server"] = "serving"
           \/ L = <<"ext", ext[PortOfService(i)].n>>
    BY <1>1, <1>2, ListenerOf DEF MayBe
  <1> HIDE DEF L
  <1>5. /\ svc' \in [Service -> SvcSet] /\ \A j \in Service \ {i} : svc'[j] = svc[j]
        /\ svc'[i].owned = svc[i].owned /\ svc'[i].config = svc[i].config
        /\ svc'[i].scope = svc[i].scope /\ svc'[i].handle = svc[i].handle
        /\ svc'[i].prepared = svc[i].prepared /\ svc'[i].closed = svc[i].closed
        /\ svc'[i].instance = L /\ svc'[i].pending = svc[i].pending
        /\ svc'[i].members = svc[i].members
    BY <1>1, <1>2, <1>3 DEF Types, SvcSet
  <1>6. /\ svc[i].owned # "none" /\ (svc[i].owned = "owned" => svc[i].scope)
        /\ ~svc[i].prepared /\ ~svc[i].closed
        /\ \A p \in Proc : proc[i][p] \notin {"dying", "dropped"}
    BY <1>2 DEF ServiceInv, StageInv, PreparePC, ClosePC
  <1>7. ASSUME At(i)' = "confirm" PROVE ServiceInv(i)'
    <2>1. ProcInv(i)'
      BY <1>1, <1>2, <1>5, <1>7, ProcStays DEF ServiceInv
    <2>6. ListInv(i)'
      BY <1>1, <1>2, <1>5, <1>7, ListStays DEF ServiceInv
    <2>2. JournalInv(i)'
      BY <1>1, <1>2, <1>5, <1>6 DEF ServiceInv, JournalInv, LastPhase
    <2>3. InstanceInv(i)'
      <3>1. CASE svc[i].owned = "owned"
        BY <1>1, <1>4, <1>5, <1>6, <3>1 DEF InstanceInv
      <3>2. CASE svc[i].owned = "external"
        <4>1. proc[i]["server"] = "none"
          BY <1>2, <3>2 DEF ServiceInv, ProcInv, Proc
        <4>2. L = <<"ext", ext[PortOfService(i)].n>>
          BY <1>4, <4>1
        <4>3. ext[PortOfService(i)].n \in 0..ext[PortOfService(i)].n
          BY <1>2, ResidenceAssumption DEF Types
        <4>4. PortOfService(i)' = PortOfService(i)
          BY <1>5 DEF PortOfService
        <4> QED
          BY <1>1, <1>5, <3>2, <4>2, <4>3, <4>4 DEF InstanceInv
      <3> QED
        BY <1>2, <1>6, <3>1, <3>2 DEF SvcSet
    <2>4. RequestInv(i)'
      BY <1>1, <1>2, <1>5, <1>6 DEF ServiceInv, RequestInv
    <2>5. StageInv(i)'
      BY <1>1, <1>4, <1>5, <1>6, <1>7 DEF StageInv, PreparePC, LaunchPC, AbortPC, RequestPC,
        ClosePC
    <2> QED
      BY <2>1, <2>2, <2>3, <2>4, <2>5, <2>6 DEF ServiceInv
  <1> QED
    BY <1>1, <1>2, <1>5, <1>7, HandGoes DEF Types

\* The record of a service that is ready.
LEMMA ReadyRecordIs ==
  ASSUME TypeOK, NEW i \in Service
  PROVE  /\ ReadyRecord(i) \in RecordSet /\ ReadyRecord(i).phase = "ready"
         /\ ReadyRecord(i).owned = svc[i].owned /\ ReadyRecord(i).pending = journal[i].pending
         /\ ReadyRecord(i).members = journal[i].members \cup InJob(i)
  <1>1. journal[i] \in RecordSet /\ svc[i].owned \in {"none", "owned", "external"}
    BY DEF TypeOK, RecordSet
  <1>2. InJob(i) \subseteq Proc
    BY DEF InJob
  <1> QED
    BY <1>1, <1>2 DEF ReadyRecord, RecordSet, Phase

LEMMA ConfirmKeeps == ASSUME IInv, NEW i \in Live, Confirm(i) PROVE IInv'
  <1>1. /\ co.pc = "confirm" /\ co.current = i /\ co.pc \in HandPC /\ Goto("step")
        /\ svc' = [svc EXCEPT ![i].prepared = TRUE] /\ Write(i, ReadyRecord(i)) /\ Works
        /\ UNCHANGED <<made, proc, pidFile, req, ext, closing>>
        /\ "step" \in HandPC
    BY DEF Confirm, HandPC, PreparePC, RequestPC
  <1>2. /\ TypeOK /\ Types /\ ServiceInv(i) /\ At(i) = "confirm" /\ i \in Service
        /\ svc[i] \in SvcSet /\ proc[i] \in [Proc -> ProcState]
    BY <1>1, InHand
  <1>3. /\ journal' \in [Service -> RecordSet] /\ \A j \in Service \ {i} : journal'[j] = journal[j]
        /\ journal'[i].phase = "ready" /\ journal'[i].owned = svc[i].owned
        /\ journal'[i].pending = journal[i].pending
        /\ journal'[i].members = journal[i].members \cup InJob(i)
    BY <1>1, <1>2, ReadyRecordIs, Wrote
  <1>4. /\ svc' \in [Service -> SvcSet] /\ \A j \in Service \ {i} : svc'[j] = svc[j]
        /\ svc'[i].owned = svc[i].owned /\ svc'[i].config = svc[i].config
        /\ svc'[i].scope = svc[i].scope /\ svc'[i].handle = svc[i].handle
        /\ svc'[i].prepared /\ svc'[i].closed = svc[i].closed
        /\ svc'[i].instance = svc[i].instance /\ svc'[i].pending = svc[i].pending
        /\ svc'[i].members = svc[i].members
    BY <1>1, <1>2 DEF Types, SvcSet
  <1>5. /\ svc[i].owned # "none" /\ svc[i].instance # NoInstance
        /\ ~svc[i].prepared /\ ~svc[i].closed
        /\ \A p \in Proc : proc[i][p] \notin {"dying", "dropped", "out"}
    BY <1>2 DEF ServiceInv, StageInv, PreparePC, ClosePC, ProcInv
  <1>6. ASSUME At(i)' = "step" PROVE ServiceInv(i)'
    <2>0. \A p \in InJob(i) : proc[i][p] \notin {"none", "dying"}
      BY DEF InJob, InJobState
    <2>1. ProcInv(i)'
      BY <1>1, <1>2, <1>4, <1>5, <1>6 DEF ServiceInv, ProcInv, Ended
    <2>6. ListInv(i)'
      <3>1. \A p \in Proc : proc'[i][p] = "none" => p \notin svc'[i].members /\ p \notin journal'[i].members
        BY <1>1, <1>2, <1>3, <1>4, <2>0 DEF ServiceInv, ListInv
      <3>2. proc'[i]["server"] # "dropped"
        BY <1>1, <1>2 DEF ServiceInv, ListInv
      <3> QED
        BY <1>6, <3>1, <3>2 DEF ListInv
    <2>2. JournalInv(i)'
      <3>1. \A p \in Proc : proc'[i][p] \notin {"none", "gone"} =>
              proc'[i][p] # "dropped" /\ p \in journal'[i].members
        BY <1>1, <1>2, <1>3, <1>5 DEF InJob, ProcState, AliveState
      <3>2. LastPhase(i)' = "ready"
        BY <1>3 DEF LastPhase
      <3> QED
        BY <1>2, <1>3, <1>4, <1>5, <3>1, <3>2 DEF ServiceInv, JournalInv
    <2>3. InstanceInv(i)'
      BY <1>1, <1>2, <1>4, InstanceStays DEF ServiceInv
    <2>4. RequestInv(i)'
      <3>1. req[i] = [at |-> "none", by |-> NoInstance, last |-> NoInstance]
        BY <1>2, <1>5 DEF ServiceInv, RequestInv
      <3>2. req'[i].at = "none" /\ req'[i].by = NoInstance /\ req'[i].last = NoInstance
        BY <1>1, <3>1
      <3> QED
        BY <1>4, <3>2 DEF RequestInv
    <2>5. StageInv(i)'
      BY <1>1, <1>4, <1>5, <1>6 DEF StageInv, PreparePC, LaunchPC, AbortPC, RequestPC, ClosePC
    <2> QED
      BY <2>1, <2>2, <2>3, <2>4, <2>5, <2>6 DEF ServiceInv
  <1>7. fault' \in 0..MaxFault
    BY <1>1, <1>2, FaultNext
  <1>8. /\ proc' \in [Service -> [Proc -> ProcState]] /\ req' \in [Service -> ReqSet]
        /\ closing' \in ClosingSet
        /\ pidFile' \in [Service -> Instance \cup {Launcher}]
        /\ \A j \in Service \ {i} : /\ svc'[j] = svc[j] /\ journal'[j] = journal[j]
                                 /\ proc'[j] = proc[j] /\ req'[j] = req[j]
    BY <1>1, <1>2, <1>3, <1>4 DEF Types
  <1>9. /\ co.pc \in HandPC /\ co.current = i /\ "step" \in HandPC /\ Goto("step")
        /\ UNCHANGED <<made, ext, closing>>
    BY <1>1
  <1> QED
    BY <1>3, <1>4, <1>6, <1>7, <1>8, <1>9, HandGoes

LEMMA PrepareStopsKeeps == ASSUME IInv, NEW i \in Live, PrepareStops(i) PROVE IInv'
  <1>1. /\ co.pc \in {"probe", "spawn", "ready", "confirm"} /\ (Works \/ Fault) /\ co.current = i
        /\ PrepareFails /\ UNCHANGED <<svc, made, journal, proc, pidFile, req, ext>>
    BY DEF PrepareStops
  <1>2. co.pc \in PreparePC \ {"assign"} /\ TypeOK
    BY <1>1 DEF PreparePC, LaunchPC, IInv
  <1> QED
    BY <1>1, <1>2, FaultNext, PrepareFailsKeeps

LEMMA ReuseKeeps == ASSUME IInv, NEW i \in Live, Reuse(i) PROVE IInv'
  <1>1. /\ co.pc = "reuse" /\ co.current = i /\ co.pc \in HandPC /\ "step" \in HandPC
        /\ "failed" \in HandPC
        /\ UNCHANGED <<svc, made, proc, pidFile, req, ext, closing>>
    BY DEF Reuse, HandPC, RequestPC
  <1>2. /\ TypeOK /\ Types /\ ServiceInv(i) /\ At(i) = "reuse" /\ i \in Service
        /\ svc[i] \in SvcSet /\ proc[i] \in [Proc -> ProcState]
    BY <1>1, InHand
  <1>3. fault' \in 0..MaxFault
    BY <1>2, FaultNext DEF Reuse
  <1>4. CASE ReuseReady(i) /\ Works /\ Write(i, ReadyRecord(i)) /\ Goto("step")
    <2>1. /\ journal' \in [Service -> RecordSet] /\ \A j \in Service \ {i} : journal'[j] = journal[j]
          /\ journal'[i].phase = "ready" /\ journal'[i].owned = svc[i].owned
          /\ journal'[i].pending = journal[i].pending
          /\ journal'[i].members = journal[i].members \cup InJob(i)
      BY <1>2, <1>4, ReadyRecordIs, Wrote
    <2>2. svc[i].prepared /\ ~svc[i].closed
      BY <1>4 DEF ReuseReady
    <2>3. ASSUME At(i)' = "step" PROVE ServiceInv(i)'
      <3>0. \A p \in InJob(i) : proc[i][p] \notin {"none", "dying"}
        BY DEF InJob, InJobState
      <3>1. ProcInv(i)'
        <4>1. Ended(i) => Ended(i)'
          BY <1>1, <2>1, <3>0 DEF Ended
        <4>2. \A p \in Proc : proc[i][p] = "dying" => p \notin InJob(i)
          BY <3>0
        <4> QED
          BY <1>1, <1>2, <2>1, <2>3, <4>1, <4>2 DEF ServiceInv, ProcInv
      <3>5. ListInv(i)'
        <4>1. \A p \in Proc : proc'[i][p] = "none" => p \notin svc'[i].members /\ p \notin journal'[i].members
          BY <1>1, <1>2, <2>1, <3>0 DEF ServiceInv, ListInv
        <4>2. proc'[i]["server"] # "dropped"
          BY <1>1, <1>2 DEF ServiceInv, ListInv
        <4> QED
          BY <2>3, <4>1, <4>2 DEF ListInv
      <3>2. JournalInv(i)'
        BY <1>1, <1>2, <2>1, <2>2 DEF ServiceInv, JournalInv, LastPhase
      <3>3. InstanceInv(i)' /\ RequestInv(i)'
        BY <1>1, <1>2, InstanceStays, RequestStays DEF ServiceInv
      <3>4. StageInv(i)'
        BY <1>1, <2>2, <2>3 DEF StageInv, PreparePC, LaunchPC, AbortPC, RequestPC, ClosePC
      <3> QED
        BY <3>1, <3>2, <3>3, <3>4, <3>5 DEF ServiceInv
    <2> QED
      BY <1>1, <1>2, <1>3, <1>4, <2>1, <2>3, HandGoes DEF Types
  <1>5. CASE co' = [co EXCEPT !.pc = "failed", !.reuseFailed = TRUE] /\ UNCHANGED journal
    <2>1. /\ co' \in CoSet /\ co'.pc = "failed" /\ co'.current = i /\ co'.residents = co.residents
          /\ co'.keep = co.keep /\ co'.cleanup = co.cleanup
      BY <1>1, <1>2, <1>5 DEF Types, CoSet, CoPC
    <2>2. Types'
      BY <1>1, <1>2, <1>3, <1>5, <2>1 DEF Types
    <2>3. At(i)' = "failed"
      BY <1>1, <2>1, PlaceNext
    <2>4. StageInv(i)'
      BY <1>1, <1>2, <1>5, <2>3 DEF ServiceInv, StageInv, PreparePC, LaunchPC, AbortPC,
        RequestPC, ClosePC
    <2>5. ServiceInv(i)'
      BY <1>1, <1>2, <1>5, <2>3, <2>4, PlaceMoves
    <2> QED
      BY <1>1, <1>5, <2>1, <2>2, <2>5, TypesNext, HandStep
  <1> QED
    BY <1>4, <1>5 DEF Reuse

-----------------------------------------------------------------------------
(* The requests.                                                            *)

\* Another instance listens: the one that was prepared is past.
LEMMA SeenPast ==
  ASSUME IInv, NEW i \in Live, Held(i), svc[i].instance # NoInstance,
         Listener(PortOfService(i)) # NoInstance, Listener(PortOfService(i)) # svc[i].instance
  PROVE  Past(i)
  <1> DEFINE P == PortOfService(i)
  <1>1. /\ TypeOK /\ InstanceInv(i) /\ ProcInv(i) /\ P \in Port
    BY HasPort DEF IInv, ServiceInv
  <1>2. CASE svc[i].owned = "owned"
    <2>1. svc[i].instance = <<"own", i>> /\ proc[i]["server"] \in {"serving", "dying", "gone"}
      BY <1>1, <1>2 DEF InstanceInv
    <2>2. ASSUME proc[i]["server"] = "serving" PROVE FALSE
      <3>1. i \in Serving(P)
        BY <2>2 DEF Serving
      <3>2. \A j \in Serving(P) : j = i
        <4> SUFFICES ASSUME NEW j \in Serving(P) PROVE j = i
          OBVIOUS
        <4>1. j \in Live /\ PortOfService(j) = P /\ proc[j]["server"] = "serving"
          BY DEF Serving
        <4>2. Held(j)
          BY <4>1, RunningIsHeld DEF Ended, Proc
        <4> QED
          BY <4>1, <4>2 DEF IInv, HeldInv
      <3>3. Listener(P) = <<"own", i>>
        BY <3>1, <3>2 DEF Listener
      <3> QED
        BY <2>1, <3>3
    <2> QED
      BY <2>1, <2>2 DEF Past
  <1>3. CASE svc[i].owned # "owned"
    <2>1. PICK n \in 0 .. ext[P].n : svc[i].instance = <<"ext", n>>
      BY <1>1, <1>3 DEF InstanceInv
    <2>2. proc[i]["server"] = "none"
      BY <1>1, <1>3 DEF ProcInv, Proc
    <2>3. Listener(P) = <<"ext", ext[P].n>>
      BY <2>2, ListenerOf
    <2>4. n # ext[P].n
      BY <2>1, <2>3
    <2>5. ext[P].n \in Nat
      BY <1>1, ResidenceAssumption DEF TypeOK
    <2>6. n < ext[P].n
      BY <2>4, <2>5
    <2> QED
      BY <2>1, <2>6 DEF Past
  <1> QED
    BY <1>2, <1>3

\* A request is opened or settled in memory and in the journal.
Pends(i, value) ==
  /\ Write(i, [journal[i] EXCEPT !.pending = value])
  /\ svc' = [svc EXCEPT ![i].pending = value]

LEMMA PendsIs ==
  ASSUME TypeOK, NEW i \in Service, NEW value \in BOOLEAN, Pends(i, value)
  PROVE  /\ svc' \in [Service -> SvcSet] /\ journal' \in [Service -> RecordSet]
         /\ \A j \in Service \ {i} : svc'[j] = svc[j] /\ journal'[j] = journal[j]
         /\ svc'[i].pending = value /\ journal'[i].pending = value
         /\ svc'[i].owned = svc[i].owned /\ svc'[i].config = svc[i].config
         /\ svc'[i].scope = svc[i].scope /\ svc'[i].handle = svc[i].handle
         /\ svc'[i].prepared = svc[i].prepared /\ svc'[i].closed = svc[i].closed
         /\ svc'[i].instance = svc[i].instance /\ svc'[i].members = svc[i].members
         /\ journal'[i].phase = journal[i].phase /\ journal'[i].from = journal[i].from
         /\ journal'[i].owned = journal[i].owned /\ journal'[i].members = journal[i].members
  <1>1. /\ svc \in [Service -> SvcSet] /\ svc[i] \in SvcSet /\ journal[i] \in RecordSet
    BY TypesAre DEF Types
  <1>2. /\ svc' \in [Service -> SvcSet] /\ \A j \in Service \ {i} : svc'[j] = svc[j]
        /\ svc'[i].pending = value
        /\ svc'[i].owned = svc[i].owned /\ svc'[i].config = svc[i].config
        /\ svc'[i].scope = svc[i].scope /\ svc'[i].handle = svc[i].handle
        /\ svc'[i].prepared = svc[i].prepared /\ svc'[i].closed = svc[i].closed
        /\ svc'[i].instance = svc[i].instance /\ svc'[i].members = svc[i].members
    BY <1>1 DEF Pends, SvcSet
  <1> DEFINE r == [journal[i] EXCEPT !.pending = value]
  <1>3. /\ r \in RecordSet /\ r.phase = journal[i].phase /\ r.from = journal[i].from
        /\ r.owned = journal[i].owned /\ r.pending = value /\ r.members = journal[i].members
    BY <1>1 DEF RecordSet
  <1>4. Write(i, r)
    BY DEF Pends
  <1> HIDE DEF r
  <1>5. /\ journal' \in [Service -> RecordSet] /\ journal'[i] = r
        /\ \A j \in Service \ {i} : journal'[j] = journal[j]
    BY <1>3, <1>4, Wrote
  <1> QED
    BY <1>2, <1>3, <1>5

LEMMA SettledPends == ASSUME NEW i, Settled(i) PROVE Pends(i, FALSE)
  BY DEF Settled, Pends

LEMMA PendsKeeps ==
  ASSUME TypeOK, NEW i \in Service, ServiceInv(i), NEW value \in BOOLEAN, Pends(i, value),
         proc' = proc, ext' = ext,
         At(i) \notin {"assign", "observe", "undo", "crashed"},
         At(i)' \notin {"abort", "undo", "kill", "observe", "crashed"},
         At(i)' \in {"scan", "list", "handle", "finish"} => At(i)' = At(i),
         RequestInv(i)', StageInv(i)'
  PROVE  ServiceInv(i)'
  <1>1. /\ svc'[i].pending = value /\ journal'[i].pending = value
        /\ svc'[i].owned = svc[i].owned /\ svc'[i].config = svc[i].config
        /\ svc'[i].scope = svc[i].scope /\ svc'[i].handle = svc[i].handle
        /\ svc'[i].prepared = svc[i].prepared /\ svc'[i].instance = svc[i].instance
        /\ svc'[i].members = svc[i].members
        /\ journal'[i].phase = journal[i].phase /\ journal'[i].from = journal[i].from
        /\ journal'[i].owned = journal[i].owned /\ journal'[i].members = journal[i].members
    BY PendsIs
  <1>2. ProcInv(i)'
    <2>1. /\ At(i)' \in {"handle", "finish"} => Ended(i)
          /\ At(i)' \in {"scan", "list", "handle", "finish"} => ~svc'[i].handle
          /\ At(i)' = "finish" => ~svc'[i].scope
      BY <1>1 DEF ServiceInv, ProcInv
    <2> QED
      BY <1>1, <2>1, ProcStays DEF ServiceInv
  <1>5. ListInv(i)'
    BY <1>1, ListStays DEF ServiceInv
  <1>3. JournalInv(i)'
    BY <1>1 DEF ServiceInv, JournalInv, LastPhase
  <1>4. InstanceInv(i)'
    BY <1>1, InstanceStays DEF ServiceInv
  <1> QED
    BY <1>2, <1>3, <1>4, <1>5 DEF ServiceInv

LEMMA BeginKeeps == ASSUME IInv, NEW i \in Live, Begin(i) PROVE IInv'
  <1>1. /\ co.pc = "step" /\ co.current = i /\ co.pc \in HandPC /\ Goto("send") /\ "send" \in HandPC
        /\ svc[i].prepared /\ ~svc[i].closed /\ Pends(i, TRUE) /\ Works
        /\ req' = [req EXCEPT ![i].at = "none", ![i].by = NoInstance]
        /\ UNCHANGED <<made, proc, pidFile, ext, closing>>
    BY DEF Begin, HandPC, RequestPC, Pends
  <1>2. /\ TypeOK /\ Types /\ ServiceInv(i) /\ At(i) = "step" /\ i \in Service /\ Held(i)
        /\ req[i] \in ReqSet
    BY <1>1, InHand
  <1>3. /\ req' \in [Service -> ReqSet] /\ \A j \in Service \ {i} : req'[j] = req[j]
        /\ req'[i].at = "none" /\ req'[i].by = NoInstance /\ req'[i].last = req[i].last
    <2>1. NoInstance \in Instance
      BY ResidenceAssumption DEF NoInstance, Instance
    <2> QED
      BY <1>1, <1>2, <2>1 DEF Types, ReqSet
  <1>4. /\ svc' \in [Service -> SvcSet] /\ journal' \in [Service -> RecordSet]
        /\ \A j \in Service \ {i} : svc'[j] = svc[j] /\ journal'[j] = journal[j]
        /\ svc'[i].pending /\ svc'[i].owned = svc[i].owned /\ svc'[i].config = svc[i].config
        /\ svc'[i].prepared = svc[i].prepared /\ svc'[i].closed = svc[i].closed
        /\ svc'[i].instance = svc[i].instance
    BY <1>1, <1>2, PendsIs
  <1>5. ASSUME At(i)' = "send" PROVE ServiceInv(i)'
    <2>1. RequestInv(i)'
      BY <1>1, <1>2, <1>3, <1>4 DEF ServiceInv, RequestInv
    <2>2. StageInv(i)'
      BY <1>1, <1>4, <1>5 DEF StageInv, PreparePC, LaunchPC, AbortPC, RequestPC, ClosePC
    <2> QED
      BY <1>1, <1>2, <1>5, <2>1, <2>2, PendsKeeps
  <1>6. fault' \in 0..MaxFault
    BY <1>1, <1>2, FaultNext
  <1>7. /\ co.pc \in HandPC /\ co.current = i /\ Goto("send") /\ "send" \in HandPC
        /\ UNCHANGED <<made, proc, pidFile, ext, closing>>
    BY <1>1
  <1>8. /\ pidFile' \in [Service -> Instance \cup {Launcher}] /\ closing' \in ClosingSet
        /\ proc' \in [Service -> [Proc -> ProcState]]
        /\ \A j \in Service \ {i} : /\ svc'[j] = svc[j] /\ journal'[j] = journal[j]
                                   /\ proc'[j] = proc[j] /\ req'[j] = req[j]
    BY <1>2, <1>3, <1>4, <1>7 DEF Types
  <1> QED
    BY <1>3, <1>4, <1>5, <1>6, <1>7, <1>8, HandGoes

LEMMA SendKeeps == ASSUME IInv, NEW i \in Live, Send(i) PROVE IInv'
  <1>1. /\ co.pc = "send" /\ co.current = i /\ co.pc \in HandPC /\ Goto("asking")
        /\ "asking" \in HandPC
        /\ UNCHANGED <<svc, made, journal, proc, pidFile, ext, closing, fault>>
    BY DEF Send, HandPC, RequestPC
  <1>2. /\ TypeOK /\ Types /\ ServiceInv(i) /\ At(i) = "send" /\ i \in Service /\ Held(i)
        /\ req[i] \in ReqSet
    BY <1>1, InHand
  <1>3. /\ svc[i].prepared /\ svc[i].pending /\ svc[i].instance # NoInstance /\ ~svc[i].closed
    BY <1>2 DEF ServiceInv, StageInv, JournalInv, RequestPC, ClosePC
  <1>4. /\ req' \in [Service -> ReqSet] /\ \A j \in Service \ {i} : req'[j] = req[j]
        /\ req'[i].last = req[i].last
        /\ \/ req'[i].by = req[i].by
           \/ /\ req'[i].by = Listener(PortOfService(i))
              /\ Listener(PortOfService(i)) # NoInstance
    <2>1. CASE /\ Listener(PortOfService(i)) # NoInstance
               /\ req' = [req EXCEPT ![i].at = "sent", ![i].by = Listener(PortOfService(i))]
      <3>1. Listener(PortOfService(i)) \in Instance
        BY <1>2, InstanceTypes
      <3> QED
        BY <1>2, <2>1, <3>1 DEF Types, ReqSet
    <2>2. CASE req' = [req EXCEPT ![i].at = "ended"]
      BY <1>2, <2>2 DEF Types, ReqSet
    <2> QED
      BY <2>1, <2>2 DEF Send
  <1>5. req'[i].by \in {NoInstance, svc[i].instance} \/ Past(i)
    BY <1>2, <1>3, <1>4, SeenPast DEF ServiceInv, RequestInv
  <1>6. ASSUME At(i)' = "asking" PROVE ServiceInv(i)'
    <2>1. RequestInv(i)'
      <3>1. Past(i) => Past(i)'
        BY <1>1 DEF Past, PortOfService
      <3> QED
        BY <1>1, <1>2, <1>3, <1>4, <1>5, <3>1 DEF ServiceInv, RequestInv
    <2>2. StageInv(i)'
      BY <1>1, <1>3, <1>6 DEF StageInv, PreparePC, LaunchPC, AbortPC, RequestPC, ClosePC
    <2>3. ProcInv(i)'
      BY <1>1, <1>2, <1>6, ProcStays DEF ServiceInv
    <2>5. ListInv(i)'
      BY <1>1, <1>2, <1>6, ListStays DEF ServiceInv
    <2>4. JournalInv(i)' /\ InstanceInv(i)'
      BY <1>1, <1>2, JournalStays, InstanceStays DEF ServiceInv
    <2> QED
      BY <2>1, <2>2, <2>3, <2>4, <2>5 DEF ServiceInv
  <1> QED
    BY <1>1, <1>2, <1>4, <1>6, HandGoes DEF Types

LEMMA AnsweredKeeps == ASSUME IInv, NEW i \in Live, Answered(i) PROVE IInv'
  <1>1. /\ co.pc = "asking" /\ co.current = i /\ co.pc \in HandPC /\ Goto("step") /\ "step" \in HandPC
        /\ req[i].at = "answered" /\ Same(i) /\ Pends(i, FALSE) /\ Works
        /\ req' = [req EXCEPT ![i].last = req[i].by]
        /\ UNCHANGED <<made, proc, pidFile, ext, closing>>
    BY SettledPends DEF Answered, SameAfter, HandPC, RequestPC
  <1>2. /\ TypeOK /\ Types /\ ServiceInv(i) /\ At(i) = "asking" /\ i \in Service /\ Held(i)
        /\ req[i] \in ReqSet
    BY <1>1, InHand
  <1>3. /\ req' \in [Service -> ReqSet] /\ \A j \in Service \ {i} : req'[j] = req[j]
        /\ req'[i].at = "answered" /\ req'[i].by = req[i].by /\ req'[i].last = req[i].by
    BY <1>1, <1>2 DEF Types, ReqSet
  <1>4. /\ svc' \in [Service -> SvcSet] /\ journal' \in [Service -> RecordSet]
        /\ \A j \in Service \ {i} : svc'[j] = svc[j] /\ journal'[j] = journal[j]
        /\ svc'[i].owned = svc[i].owned /\ svc'[i].config = svc[i].config
        /\ svc'[i].prepared = svc[i].prepared /\ svc'[i].closed = svc[i].closed
        /\ svc'[i].instance = svc[i].instance
    BY <1>1, <1>2, PendsIs
  <1>5. svc[i].prepared /\ ~svc[i].closed
    BY <1>2 DEF ServiceInv, StageInv, RequestPC, ClosePC
  <1>6. req[i].by \in {NoInstance, svc[i].instance}
    BY <1>1, <1>2, PastIsPast DEF ServiceInv, RequestInv, Same
  <1>7. ASSUME At(i)' = "step" PROVE ServiceInv(i)'
    <2>1. RequestInv(i)'
      BY <1>3, <1>4, <1>5, <1>6 DEF RequestInv
    <2>2. StageInv(i)'
      BY <1>4, <1>5, <1>7 DEF StageInv, PreparePC, LaunchPC, AbortPC, RequestPC, ClosePC
    <2> QED
      BY <1>1, <1>2, <1>7, <2>1, <2>2, PendsKeeps
  <1>8. fault' \in 0..MaxFault
    BY <1>1, <1>2, FaultNext
  <1>9. /\ co.pc \in HandPC /\ co.current = i /\ Goto("step") /\ "step" \in HandPC
        /\ UNCHANGED <<made, proc, pidFile, ext, closing>>
    BY <1>1
  <1> QED
    BY <1>2, <1>3, <1>4, <1>7, <1>8, <1>9, HandGoes DEF Types

\* A proved cancellation ends the request.
LEMMA CancelProvedIs ==
  ASSUME TypeOK, NEW i \in Service, CancelProved(i)
  PROVE  /\ req' \in [Service -> ReqSet] /\ \A j \in Service \ {i} : req'[j] = req[j]
         /\ req'[i].at \notin {"sent", "computing"} /\ req'[i].by = req[i].by
         /\ req'[i].last = req[i].last /\ (req[i].at = "none" => req'[i].at = "none")
  <1>1. req \in [Service -> ReqSet] /\ req[i] \in ReqSet
    BY TypesAre DEF Types
  <1>2. req' = [req EXCEPT ![i].at = IF @ \in {"sent", "computing"} THEN "ended" ELSE @]
    BY DEF CancelProved, UnfencedCounts
  <1> DEFINE at == IF req[i].at \in {"sent", "computing"} THEN "ended" ELSE req[i].at
  <1>3. req' = [req EXCEPT ![i].at = at]
    BY <1>1, <1>2
  <1>4. /\ at \in {"none", "sent", "computing", "answered", "ended"} /\ at \notin {"sent", "computing"}
        /\ (req[i].at = "none" => at = "none")
    BY <1>1 DEF ReqSet
  <1> HIDE DEF at
  <1> QED
    BY <1>1, <1>3, <1>4 DEF ReqSet

LEMMA GivesUpKeeps == ASSUME IInv, NEW i \in Live, GivesUp(i) PROVE IInv'
  <1>1. /\ co.pc = "asking" /\ co.current = i /\ co.pc \in HandPC /\ Goto("step") /\ "step" \in HandPC
        /\ (Works \/ Fault)
        /\ UNCHANGED <<made, proc, pidFile, ext, closing>>
    BY DEF GivesUp, HandPC, RequestPC
  <1>2. /\ TypeOK /\ Types /\ ServiceInv(i) /\ At(i) = "asking" /\ i \in Service /\ Held(i)
        /\ req[i] \in ReqSet
    BY <1>1, InHand
  <1>3. svc[i].prepared /\ ~svc[i].closed
    BY <1>2 DEF ServiceInv, StageInv, RequestPC, ClosePC
  <1>4. fault' \in 0..MaxFault
    BY <1>1, <1>2, FaultNext
  <1>5. CASE UNCHANGED <<svc, journal, req>>
    <2>1. ASSUME At(i)' = "step" PROVE ServiceInv(i)'
      <3>1. StageInv(i)'
        BY <1>3, <1>5, <2>1 DEF StageInv, PreparePC, LaunchPC, AbortPC, RequestPC, ClosePC
      <3> QED
        BY <1>1, <1>2, <1>5, <2>1, <3>1, PlaceMoves
    <2> QED
      BY <1>1, <1>2, <1>4, <1>5, <2>1, HandGoes DEF Types
  <1>6. CASE CancelProved(i) /\ Settled(i)
    <2>1. /\ req' \in [Service -> ReqSet] /\ \A j \in Service \ {i} : req'[j] = req[j]
          /\ req'[i].at \notin {"sent", "computing"} /\ req'[i].by = req[i].by
          /\ req'[i].last = req[i].last
      BY <1>2, <1>6, CancelProvedIs
    <2>2. Pends(i, FALSE)
      BY <1>6, SettledPends
    <2>3. /\ svc' \in [Service -> SvcSet] /\ journal' \in [Service -> RecordSet]
          /\ \A j \in Service \ {i} : svc'[j] = svc[j] /\ journal'[j] = journal[j]
          /\ svc'[i].owned = svc[i].owned /\ svc'[i].config = svc[i].config
          /\ svc'[i].prepared = svc[i].prepared /\ svc'[i].closed = svc[i].closed
          /\ svc'[i].instance = svc[i].instance
      BY <1>2, <2>2, PendsIs
    <2>4. ASSUME At(i)' = "step" PROVE ServiceInv(i)'
      <3>1. RequestInv(i)'
        <4>1. Past(i) => Past(i)'
          BY <1>1, <2>3 DEF Past, PortOfService
        <4> QED
          BY <1>2, <1>3, <2>1, <2>3, <4>1 DEF ServiceInv, RequestInv
      <3>2. StageInv(i)'
        BY <1>3, <2>3, <2>4 DEF StageInv, PreparePC, LaunchPC, AbortPC, RequestPC, ClosePC
      <3> QED
        BY <1>1, <1>2, <2>2, <2>4, <3>1, <3>2, PendsKeeps
    <2> QED
      BY <1>1, <1>2, <1>4, <2>1, <2>3, <2>4, HandGoes DEF Types
  <1> QED
    BY <1>5, <1>6 DEF GivesUp

-----------------------------------------------------------------------------
(* The close.                                                               *)

LEMMA InClose ==
  ASSUME IInv, NEW i \in Live, co.pc \in ClosePC, closing.of = i
  PROVE  /\ TypeOK /\ Types /\ ServiceInv(i) /\ At(i) = co.pc /\ i \in Service /\ Held(i)
         /\ svc[i] \in SvcSet /\ journal[i] \in RecordSet /\ proc[i] \in [Proc -> ProcState]
         /\ req[i] \in ReqSet /\ PortOfService(i) \in Port
         /\ (co.current = i \/ (co.current = 0 /\ i \in co.residents))
  <1>1. TypeOK /\ Types /\ ServiceInv(i) /\ i \in Service
    BY TypesAre, Numbers DEF IInv
  <1>2. At(i) = co.pc /\ PortOfService(i) \in Port
    BY OwnPlace, HasPort
  <1>3. co.current = i \/ (co.current = 0 /\ i \in co.residents)
    BY DEF IInv, CoInv
  <1> QED
    BY <1>1, <1>2, <1>3 DEF Types, Held

\* Where a close leaves the thread when it fails, or goes on to pc.
CloseGoes(i, pc) ==
  \/ pc \in ClosePC /\ Goto(pc) /\ closing'.of = i /\ closing'.why = closing.why
     /\ closing' \in ClosingSet
  \/ CloseFails

\* The close of service i goes on to pc, or fails.
LEMMA CloseGoesKeeps ==
  ASSUME IInv, NEW i \in Live, co.pc \in ClosePC, closing.of = i, NEW pc, CloseGoes(i, pc),
         UNCHANGED <<made, ext>>, pidFile' \in [Service -> Instance \cup {Launcher}],
         svc' \in [Service -> SvcSet], journal' \in [Service -> RecordSet],
         proc' \in [Service -> [Proc -> ProcState]], req' \in [Service -> ReqSet],
         fault' \in 0..MaxFault,
         \A j \in Service \ {i} : /\ svc'[j] = svc[j] /\ journal'[j] = journal[j]
                                  /\ proc'[j] = proc[j] /\ req'[j] = req[j],
         svc'[i].config = svc[i].config, svc'[i].closed = svc[i].closed,
         At(i)' \in {pc, "failed", "away"} => ServiceInv(i)'
  PROVE  IInv'
  <1>1. /\ TypeOK /\ Types /\ i \in Service
        /\ (co.current = i \/ (co.current = 0 /\ i \in co.residents))
    BY InClose
  <1>2. i # 0
    BY <1>1, Numbers
  <1>3. CASE CloseFails
    <2> DEFINE q == IF closing.of = co.current THEN "failed" ELSE "idle"
    <2>1. Goto(q) /\ q \in CoPC
      BY <1>3 DEF CloseFails, CoPC
    <2>6. closing' \in ClosingSet
      <3>1. 0 \in 0..MaxService
        BY ResidenceAssumption
      <3> QED
        BY <1>3, <3>1 DEF CloseFails, NoClose, ClosingSet, Why
    <2>2. (q = "failed" /\ co.current = i) \/ (q = "idle" /\ co.current # i)
      <3>1. CASE co.current = i
        BY <3>1
      <3>2. CASE co.current # i
        BY <3>2
      <3> QED
        BY <3>1, <3>2
    <2> HIDE DEF q
    <2>3. /\ co' \in CoSet /\ co'.pc = q /\ co'.current = co.current
          /\ co'.residents = co.residents /\ co'.keep = co.keep /\ co'.cleanup = co.cleanup
      BY <1>1, <2>1, GotoCo
    <2>4. At(i)' \in {"failed", "away"}
      BY <2>2, <2>3 DEF At, HandPC, ClosePC, PreparePC, LaunchPC, AbortPC, RequestPC
    <2>5. Types'
      BY <1>1, <2>3, <2>6 DEF Types
    <2> QED
      BY <2>1, <2>2, <2>3, <2>4, <2>5, TypesNext, CloseStep
  <1>4. CASE ~CloseFails
    <2>1. pc \in ClosePC /\ Goto(pc) /\ closing'.of = i /\ closing'.why = closing.why
          /\ closing' \in ClosingSet
      BY <1>4 DEF CloseGoes
    <2>2. /\ co' \in CoSet /\ co'.pc = pc /\ co'.current = co.current
          /\ co'.residents = co.residents /\ co'.keep = co.keep /\ co'.cleanup = co.cleanup
      BY <1>1, <2>1, GotoCo DEF ClosePC, CoPC
    <2>3. At(i)' = pc
      BY <2>1, <2>2, PlaceNext
    <2>4. Types'
      BY <1>1, <2>1, <2>2 DEF Types
    <2> QED
      BY <2>1, <2>2, <2>3, <2>4, TypesNext, CloseStep
  <1> QED
    BY <1>3, <1>4

\* The place of a service in a close, or after one that failed.
LEMMA StageInClose ==
  ASSUME NEW i, At(i)' \in ClosePC \cup {"failed", "away"},
         svc'[i].closed => ~svc'[i].scope /\ ~svc'[i].handle /\ ~svc'[i].pending,
         At(i)' \in {"scan", "list", "kill", "observe", "handle"} => svc'[i].scope
  PROVE  StageInv(i)'
  BY DEF StageInv, PreparePC, LaunchPC, AbortPC, RequestPC, ClosePC

LEMMA CloseRequestKeeps == ASSUME IInv, NEW i \in Live, CloseRequest(i) PROVE IInv'
  <1>1. /\ co.pc = "close" /\ closing.of = i /\ svc[i].pending /\ co.pc \in ClosePC
        /\ (Works \/ Fault)
        /\ UNCHANGED <<made, proc, pidFile, ext>>
    BY DEF CloseRequest, ClosePC
  <1>2. /\ TypeOK /\ Types /\ ServiceInv(i) /\ At(i) = "close" /\ i \in Service
    BY <1>1, InClose
  <1>3. svc[i].prepared /\ ~svc[i].closed
    BY <1>1, <1>2 DEF ServiceInv, StageInv, RequestInv
  <1>4. fault' \in 0..MaxFault
    BY <1>1, <1>2, FaultNext
  <1>5. CASE CancelProved(i) /\ Settled(i) /\ UNCHANGED <<co, closing>>
    <2>1. /\ req' \in [Service -> ReqSet] /\ \A j \in Service \ {i} : req'[j] = req[j]
          /\ req'[i].at \notin {"sent", "computing"} /\ req'[i].by = req[i].by
          /\ req'[i].last = req[i].last
      BY <1>2, <1>5, CancelProvedIs
    <2>2. Pends(i, FALSE)
      BY <1>5, SettledPends
    <2>3. /\ svc' \in [Service -> SvcSet] /\ journal' \in [Service -> RecordSet]
          /\ \A j \in Service \ {i} : svc'[j] = svc[j] /\ journal'[j] = journal[j]
          /\ svc'[i].owned = svc[i].owned /\ svc'[i].config = svc[i].config
          /\ svc'[i].prepared = svc[i].prepared /\ svc'[i].closed = svc[i].closed
          /\ svc'[i].instance = svc[i].instance
      BY <1>2, <2>2, PendsIs
    <2>4. ASSUME At(i)' \in {"close", "failed", "away"} PROVE ServiceInv(i)'
      <3>1. RequestInv(i)'
        <4>1. Past(i) => Past(i)'
          BY <1>1, <2>3 DEF Past, PortOfService
        <4> QED
          BY <1>2, <1>3, <2>1, <2>3, <4>1 DEF ServiceInv, RequestInv
      <3>2. StageInv(i)'
        BY <1>3, <2>3, <2>4, StageInClose DEF ClosePC
      <3> QED
        BY <1>1, <1>2, <2>2, <2>4, <3>1, <3>2, PendsKeeps
    <2>5. CloseGoes(i, "close")
      <3>1. co' = [co EXCEPT !.pc = "close"]
        BY <1>1, <1>2, <1>5 DEF Types, CoSet
      <3> QED
        BY <1>1, <1>2, <1>5, <3>1 DEF CloseGoes, Goto, Types
    <2> QED
      BY <1>1, <1>2, <1>4, <2>1, <2>3, <2>4, <2>5, CloseGoesKeeps DEF Types
  <1>6. CASE CloseFails /\ UNCHANGED <<svc, journal, req>>
    <2>1. ASSUME At(i)' \in {"close", "failed", "away"} PROVE ServiceInv(i)'
      <3>1. StageInv(i)'
        BY <1>3, <1>6, <2>1, StageInClose DEF ClosePC
      <3> QED
        BY <1>1, <1>2, <1>6, <2>1, <3>1, PlaceMoves
    <2> QED
      BY <1>1, <1>2, <1>4, <1>6, <2>1, CloseGoesKeeps DEF Types, CloseGoes
  <1> QED
    BY <1>5, <1>6 DEF CloseRequest

LEMMA CloseBeginsKeeps == ASSUME IInv, NEW i \in Live, CloseBegins(i) PROVE IInv'
  <1> DEFINE next == IF svc[i].scope THEN "scan" ELSE "finish"
  <1>1. /\ co.pc = "close" /\ closing.of = i /\ co.pc \in ClosePC /\ (Works \/ Fault)
        /\ UNCHANGED <<made, journal, proc, pidFile, req, ext>>
    BY DEF CloseBegins, ClosePC
  <1>2. /\ TypeOK /\ Types /\ ServiceInv(i) /\ At(i) = "close" /\ i \in Service
        /\ svc[i] \in SvcSet
    BY <1>1, InClose
  <1>3. fault' \in 0..MaxFault
    BY <1>1, <1>2, FaultNext
  <1>4. svc[i].closed => ~svc[i].scope /\ ~svc[i].handle /\ ~svc[i].pending
    BY <1>2 DEF ServiceInv, StageInv
  <1>5. CASE svc' = [svc EXCEPT ![i].handle = FALSE] /\ Goto(next) /\ UNCHANGED closing
    <2>1. /\ svc' \in [Service -> SvcSet] /\ \A j \in Service \ {i} : svc'[j] = svc[j]
          /\ svc'[i].owned = svc[i].owned /\ svc'[i].config = svc[i].config
          /\ svc'[i].scope = svc[i].scope /\ ~svc'[i].handle
          /\ svc'[i].prepared = svc[i].prepared /\ svc'[i].closed = svc[i].closed
          /\ svc'[i].instance = svc[i].instance /\ svc'[i].pending = svc[i].pending
          /\ svc'[i].members = svc[i].members
      BY <1>2, <1>5 DEF Types, SvcSet
    <2>2. next \in {"scan", "finish"} /\ (next = "finish" <=> ~svc[i].scope)
      OBVIOUS
    <2>3. Goto(next) /\ closing' = closing
      BY <1>5
    <2> HIDE DEF next
    <2>4. ASSUME At(i)' \in {next, "failed", "away"} PROVE ServiceInv(i)'
      <3>1. StageInv(i)'
        BY <1>4, <2>1, <2>2, <2>4, StageInClose DEF ClosePC
      <3>2. ProcInv(i)'
        <4>1. At(i)' \in {"handle", "finish"} => Ended(i)
          BY <1>2, <2>2, <2>4 DEF ServiceInv, ProcInv
        <4>2. At(i)' # "crashed" /\ (At(i)' = "finish" => ~svc'[i].scope)
          BY <2>1, <2>2, <2>4
        <4> QED
          BY <1>1, <1>2, <2>1, <4>1, <4>2, ProcStays DEF ServiceInv
      <3>4. ListInv(i)'
        BY <1>1, <1>2, <2>1, <2>2, <2>4, ListStays DEF ServiceInv
      <3>3. JournalInv(i)' /\ InstanceInv(i)' /\ RequestInv(i)'
        BY <1>1, <1>2, <2>1, JournalStays, InstanceStays, RequestStays DEF ServiceInv
      <3> QED
        BY <3>1, <3>2, <3>3, <3>4 DEF ServiceInv
    <2>5. CloseGoes(i, next)
      BY <1>1, <1>2, <2>2, <2>3 DEF CloseGoes, ClosePC, Types
    <2> QED
      BY <1>1, <1>2, <1>3, <2>1, <2>4, <2>5, CloseGoesKeeps DEF Types
  <1>6. CASE CloseFails /\ UNCHANGED svc
    <2>1. ASSUME At(i)' \in {"close", "failed", "away"} PROVE ServiceInv(i)'
      <3>1. StageInv(i)'
        BY <1>4, <1>6, <2>1, StageInClose DEF ClosePC
      <3> QED
        BY <1>1, <1>2, <1>6, <2>1, <3>1, PlaceMoves
    <2> QED
      BY <1>1, <1>2, <1>3, <1>6, <2>1, CloseGoesKeeps DEF Types, CloseGoes
  <1> QED
    BY <1>5, <1>6 DEF CloseBegins

\* Members that are added to a service, and to its record.
LEMMA MembersAdded ==
  ASSUME TypeOK, NEW i \in Service, NEW M \in SUBSET Proc,
         svc' = [svc EXCEPT ![i].members = svc[i].members \cup M]
  PROVE  /\ svc' \in [Service -> SvcSet] /\ \A j \in Service \ {i} : svc'[j] = svc[j]
         /\ svc'[i].owned = svc[i].owned /\ svc'[i].config = svc[i].config
         /\ svc'[i].scope = svc[i].scope /\ svc'[i].handle = svc[i].handle
         /\ svc'[i].prepared = svc[i].prepared /\ svc'[i].closed = svc[i].closed
         /\ svc'[i].instance = svc[i].instance /\ svc'[i].pending = svc[i].pending
         /\ svc'[i].members = svc[i].members \cup M
  <1>1. svc \in [Service -> SvcSet] /\ svc[i] \in SvcSet
    BY TypesAre DEF Types
  <1> QED
    BY <1>1 DEF SvcSet

LEMMA MembersRecorded ==
  ASSUME TypeOK, NEW i \in Service, NEW M \in SUBSET Proc,
         Write(i, [journal[i] EXCEPT !.members = journal[i].members \cup M]) \/ journal' = journal
  PROVE  /\ journal' \in [Service -> RecordSet]
         /\ \A j \in Service \ {i} : journal'[j] = journal[j]
         /\ journal'[i].phase = journal[i].phase /\ journal'[i].from = journal[i].from
         /\ journal'[i].owned = journal[i].owned /\ journal'[i].pending = journal[i].pending
         /\ journal[i].members \subseteq journal'[i].members
         /\ journal'[i].members \subseteq journal[i].members \cup M
  <1>1. journal \in [Service -> RecordSet] /\ journal[i] \in RecordSet
    BY TypesAre DEF Types
  <1>2. CASE Write(i, [journal[i] EXCEPT !.members = journal[i].members \cup M])
    <2> DEFINE r == [journal[i] EXCEPT !.members = journal[i].members \cup M]
    <2>1. /\ r \in RecordSet /\ r.phase = journal[i].phase /\ r.from = journal[i].from
          /\ r.owned = journal[i].owned /\ r.pending = journal[i].pending
          /\ r.members = journal[i].members \cup M
      BY <1>1 DEF RecordSet
    <2>2. Write(i, r)
      BY <1>2
    <2> HIDE DEF r
    <2>3. /\ journal' \in [Service -> RecordSet] /\ journal'[i] = r
          /\ \A j \in Service \ {i} : journal'[j] = journal[j]
      BY <2>1, <2>2, Wrote
    <2> QED
      BY <2>1, <2>3
  <1>3. CASE journal' = journal
    BY <1>1, <1>3
  <1> QED
    BY <1>2, <1>3

-----------------------------------------------------------------------------
(* The end of a Job, in a close and after a launch that failed.             *)

LEMMA ListedKeeps ==
  ASSUME NEW i, ServiceInv(i), UNCHANGED <<svc, journal, proc, req, ext>>,
         closing'.seen = InJob(i),
         \/ At(i) = "launched" /\ At(i)' = "abort"
         \/ At(i) = "list" /\ At(i)' = "kill"
  PROVE  ServiceInv(i)'
  <1>1. StageInv(i)'
    BY DEF ServiceInv, StageInv, PreparePC, LaunchPC, AbortPC, RequestPC, ClosePC
  <1>2. ProcInv(i)'
    <2>1. At(i)' = "kill" => ~svc'[i].handle
      BY DEF ServiceInv, ProcInv
    <2> QED
      BY <2>1, ProcStays DEF ServiceInv
  <1>3. ListInv(i)'
    <2>1. \A p \in Proc : proc[i][p] = "none" => p \notin closing'.seen
      BY DEF InJob, InJobState
    <2>2. \A p \in Proc : proc[i][p] \in InJobState => p \in closing'.seen
      BY DEF InJob
    <2> QED
      BY <2>1, <2>2 DEF ServiceInv, ListInv
  <1>4. JournalInv(i)' /\ InstanceInv(i)' /\ RequestInv(i)'
    BY JournalStays, InstanceStays, RequestStays DEF ServiceInv
  <1> QED
    BY <1>1, <1>2, <1>3, <1>4 DEF ServiceInv

LEMMA KilledIs ==
  ASSUME TypeOK, NEW i \in Service
  PROVE  /\ Killed(i) \in [Service -> [Proc -> ProcState]]
         /\ \A j \in Service \ {i} : Killed(i)[j] = proc[j]
         /\ \A p \in Proc : \/ Killed(i)[i][p] = proc[i][p]
                            \/ proc[i][p] \in InJobState /\ Killed(i)[i][p] = "dying"
  <1>1. CASE closing.seen = {}
    BY <1>1 DEF Killed, TypeOK
  <1>2. CASE closing.seen # {}
    <2>1. Killed(i) = Terminated(i)
      BY <1>2 DEF Killed
    <2> QED
      BY <2>1, TerminatedIs
  <1> QED
    BY <1>1, <1>2

\* What the listing missed is a server that no list names.
LEMMA KilledKeeps ==
  ASSUME TypeOK, NEW i \in Service, ServiceInv(i), proc' = Killed(i),
         UNCHANGED <<svc, journal, req, ext>>, closing'.seen = closing.seen,
         \/ At(i) = "abort" /\ At(i)' = "undo"
         \/ At(i) = "kill" /\ At(i)' = "observe"
  PROVE  ServiceInv(i)'
  <1>1. \A p \in Proc : \/ proc'[i][p] = proc[i][p]
                        \/ proc[i][p] \in InJobState /\ proc'[i][p] = "dying"
    BY KilledIs
  <1>2. StageInv(i)'
    BY DEF ServiceInv, StageInv, PreparePC, LaunchPC, AbortPC, RequestPC, ClosePC
  <1>3. ProcInv(i)'
    <2>1. Ended(i) => Ended(i)'
      BY <1>1 DEF Ended, InJobState
    <2>2. (\A p \in Proc : proc[i][p] = "none") => \A p \in Proc : proc'[i][p] = "none"
      BY <1>1 DEF InJobState
    <2>3. \A p \in Proc : proc'[i][p] = "dying" =>
            \/ p \in svc[i].members \/ p \in closing.seen
            \/ p = "server" /\ p \notin journal[i].members
      BY <1>1 DEF ServiceInv, ProcInv, ListInv
    <2>4. \A p \in Proc : proc'[i][p] # "out"
      BY <1>1 DEF ServiceInv, ProcInv
    <2>5. At(i)' = "observe" => ~svc[i].handle
      BY DEF ServiceInv, ProcInv
    <2>6. svc[i].owned # "owned" => ~svc[i].scope /\ \A p \in Proc : proc'[i][p] = "none"
      BY <2>2 DEF ServiceInv, ProcInv
    <2>7. ~svc[i].scope => Ended(i)'
      BY <2>1 DEF ServiceInv, ProcInv
    <2> QED
      BY <2>3, <2>4, <2>5, <2>6, <2>7 DEF ProcInv
  <1>4. ListInv(i)'
    <2>1. proc'[i]["server"] # "dropped"
      BY <1>1 DEF ServiceInv, ListInv, Proc
    <2>2. \A p \in Proc : proc'[i][p] = "none" => proc[i][p] = "none"
      BY <1>1
    <2> QED
      BY <2>1, <2>2 DEF ServiceInv, ListInv
  <1>5. JournalInv(i)'
    <2>1. \A p \in Proc : proc'[i][p] \notin {"none", "gone"} =>
            proc[i][p] \notin {"none", "gone"} /\ (proc'[i][p] = "dropped" => proc[i][p] = "dropped")
      BY <1>1 DEF InJobState
    <2> QED
      BY <2>1 DEF ServiceInv, JournalInv, LastPhase
  <1>6. /\ proc[i]["server"] \in {"serving", "dying", "gone"} =>
             proc'[i]["server"] \in {"serving", "dying", "gone"}
        /\ proc[i]["server"] \in {"dying", "gone"} => proc'[i]["server"] \in {"dying", "gone"}
    BY <1>1 DEF Proc, InJobState
  <1>7. InstanceInv(i)'
    BY <1>6 DEF ServiceInv, InstanceInv, PortOfService
  <1>8. RequestInv(i)'
    <2>1. Past(i) => Past(i)'
      BY <1>6 DEF Past, PortOfService
    <2> QED
      BY <2>1 DEF ServiceInv, RequestInv
  <1> QED
    BY <1>2, <1>3, <1>4, <1>5, <1>7, <1>8 DEF ServiceInv

\* What is known of the processes goes to the service, and to the journal
\* unless that fails.
LEMMA NamedIs ==
  ASSUME TypeOK, NEW i \in Service, NEW M \in SUBSET Proc, Retain(i, M),
         JournalMembers(i) \/ UNCHANGED journal
  PROVE  /\ svc' \in [Service -> SvcSet] /\ \A j \in Service \ {i} : svc'[j] = svc[j]
         /\ svc'[i].owned = svc[i].owned /\ svc'[i].config = svc[i].config
         /\ svc'[i].scope = svc[i].scope /\ svc'[i].handle = svc[i].handle
         /\ svc'[i].prepared = svc[i].prepared /\ svc'[i].closed = svc[i].closed
         /\ svc'[i].instance = svc[i].instance /\ svc'[i].pending = svc[i].pending
         /\ svc'[i].members = svc[i].members \cup M
         /\ journal' \in [Service -> RecordSet]
         /\ \A j \in Service \ {i} : journal'[j] = journal[j]
         /\ journal'[i].phase = journal[i].phase /\ journal'[i].from = journal[i].from
         /\ journal'[i].owned = journal[i].owned /\ journal'[i].pending = journal[i].pending
         /\ journal[i].members \subseteq journal'[i].members
         /\ journal'[i].members \subseteq journal[i].members \cup svc'[i].members
  <1>1. /\ svc' \in [Service -> SvcSet] /\ \A j \in Service \ {i} : svc'[j] = svc[j]
        /\ svc'[i].owned = svc[i].owned /\ svc'[i].config = svc[i].config
        /\ svc'[i].scope = svc[i].scope /\ svc'[i].handle = svc[i].handle
        /\ svc'[i].prepared = svc[i].prepared /\ svc'[i].closed = svc[i].closed
        /\ svc'[i].instance = svc[i].instance /\ svc'[i].pending = svc[i].pending
        /\ svc'[i].members = svc[i].members \cup M
    <2>1. svc' = [svc EXCEPT ![i].members = svc[i].members \cup M]
      BY DEF Retain
    <2> QED
      BY <2>1, MembersAdded
  <1>2. svc'[i].members \in SUBSET Proc
    BY <1>1 DEF SvcSet
  <1>3. \/ Write(i, [journal[i] EXCEPT !.members = journal[i].members \cup svc'[i].members])
        \/ journal' = journal
    BY DEF JournalMembers
  <1> QED
    BY <1>1, <1>2, <1>3, MembersRecorded

LEMMA NamedKeeps ==
  ASSUME TypeOK, NEW i \in Service, ServiceInv(i), NEW M \in SUBSET Proc, Retain(i, M),
         JournalMembers(i) \/ UNCHANGED journal, UNCHANGED <<proc, req, ext>>,
         At(i) \in {"abort", "undo", "scan", "kill", "observe"},
         At(i)' \in {"close", "list", "failed", "away"}, At(i)' = "list" => At(i) = "scan",
         \A p \in M : proc[i][p] # "none",
         At(i) \in {"observe", "undo"} => closing.seen \subseteq M
  PROVE  ServiceInv(i)'
  <1>1. /\ svc'[i].owned = svc[i].owned /\ svc'[i].config = svc[i].config
        /\ svc'[i].scope = svc[i].scope /\ svc'[i].handle = svc[i].handle
        /\ svc'[i].prepared = svc[i].prepared /\ svc'[i].closed = svc[i].closed
        /\ svc'[i].instance = svc[i].instance /\ svc'[i].pending = svc[i].pending
        /\ svc'[i].members = svc[i].members \cup M
    BY NamedIs
  <1>2. /\ journal'[i].phase = journal[i].phase /\ journal'[i].from = journal[i].from
        /\ journal'[i].owned = journal[i].owned /\ journal'[i].pending = journal[i].pending
        /\ journal[i].members \subseteq journal'[i].members
        /\ journal'[i].members \subseteq journal[i].members \cup svc'[i].members
    BY NamedIs
  <1>3. svc[i].scope
    BY DEF ServiceInv, StageInv, AbortPC
  <1>4. StageInv(i)'
    <2>1. svc'[i].closed => ~svc'[i].scope /\ ~svc'[i].handle /\ ~svc'[i].pending
      BY <1>1 DEF ServiceInv, StageInv
    <2> QED
      BY <1>1, <1>3, <2>1, StageInClose DEF ClosePC
  <1>5. ProcInv(i)'
    <2>1. At(i)' = "list" => ~svc'[i].handle
      BY <1>1 DEF ServiceInv, ProcInv
    <2>2. \A p \in Proc : p \in journal'[i].members => p \in journal[i].members \/ p \in svc'[i].members
      BY <1>2
    <2>3. At(i) \in {"observe", "undo"} =>
            \A p \in Proc : proc[i][p] = "dying" /\ p \in closing.seen => p \in svc'[i].members
      BY <1>1
    <2>4. ProcInv(i)
      BY DEF ServiceInv
    <2> QED
      BY <1>1, <1>3, <2>1, <2>2, <2>3, <2>4, ProcNamed
  <1>6. ListInv(i)'
    <2>1. \A p \in Proc : proc[i][p] = "none" => p \notin svc'[i].members
      BY <1>1 DEF ServiceInv, ListInv
    <2>2. \A p \in Proc : p \in journal'[i].members => p \in journal[i].members \/ p \in svc'[i].members
      BY <1>2
    <2> QED
      BY <2>1, <2>2, ListNamed DEF ServiceInv
  <1>7. JournalInv(i)' /\ InstanceInv(i)' /\ RequestInv(i)'
    BY <1>1, <1>2, JournalStays, InstanceStays, RequestStays DEF ServiceInv
  <1> QED
    BY <1>1, <1>2, <1>4, <1>5, <1>6, <1>7 DEF ServiceInv

LEMMA LaunchFailsKeeps == ASSUME IInv, NEW i \in Live, LaunchFails(i) PROVE IInv'
  <1>1. /\ co.pc = "launched" /\ co.current = i /\ co.pc \in HandPC /\ co.pc \in LaunchPC
        /\ Goto("abort") /\ "abort" \in HandPC
        /\ closing' = [of |-> i, why |-> "prepare", seen |-> InJob(i)]
        /\ UNCHANGED <<svc, made, journal, proc, req, ext>> /\ (Works \/ Fault)
    BY DEF LaunchFails, HandPC, PreparePC, LaunchPC, AbortPC
  <1>2. /\ TypeOK /\ Types /\ ServiceInv(i) /\ At(i) = "launched" /\ i \in Service /\ Held(i)
        /\ i \in 0..MaxService
    BY <1>1, InHand, Numbers
  <1>3. fault' \in 0..MaxFault
    BY <1>1, <1>2, FaultNext
  <1>4. closing' \in ClosingSet /\ closing'.seen = InJob(i)
    <2>1. InJob(i) \in SUBSET Proc
      BY DEF InJob
    <2> QED
      BY <1>1, <1>2, <2>1 DEF ClosingSet, Why
  <1>5. pidFile' \in [Service -> Instance \cup {Launcher}]
    <2>1. PICK whose \in Reported(i) \cup {NoInstance} : pidFile' = [pidFile EXCEPT ![i] = whose]
      BY DEF LaunchFails
    <2> QED
      BY <1>2, <2>1, ReportedIs DEF Types
  <1>6. ASSUME At(i)' = "abort" PROVE ServiceInv(i)'
    BY <1>1, <1>2, <1>4, <1>6, ListedKeeps
  <1>7. /\ proc' \in [Service -> [Proc -> ProcState]] /\ req' \in [Service -> ReqSet]
        /\ svc' \in [Service -> SvcSet] /\ journal' \in [Service -> RecordSet]
        /\ \A j \in Service \ {i} : /\ svc'[j] = svc[j] /\ journal'[j] = journal[j]
                                    /\ proc'[j] = proc[j] /\ req'[j] = req[j]
    BY <1>1, <1>2 DEF Types
  <1> QED
    BY <1>1, <1>3, <1>4, <1>5, <1>6, <1>7, HandGoes

\* A failed launch whose Job may still run: the service closes, or keeps what
\* it has when the journal cannot be written.
LEMMA UnprovedKeeps ==
  ASSUME IInv, NEW i \in Live, co.pc \in AbortPC, co.current = i, NEW M \in SUBSET Proc,
         Retain(i, M), (JournalMembers(i) /\ PrepareFails) \/ PrepareLeaves,
         UNCHANGED <<made, proc, req, ext>>, pidFile' \in [Service -> Instance \cup {Launcher}],
         fault' \in 0..MaxFault,
         \A p \in M : proc[i][p] # "none", co.pc = "undo" => closing.seen \subseteq M
  PROVE  IInv'
  <1>1. co.pc \in HandPC /\ "failed" \in HandPC
    BY DEF HandPC
  <1>2. /\ TypeOK /\ Types /\ ServiceInv(i) /\ At(i) = co.pc /\ i \in Service
        /\ At(i) \in {"abort", "undo"}
    BY <1>1, InHand DEF AbortPC
  <1>3. JournalMembers(i) \/ UNCHANGED journal
    BY DEF PrepareLeaves
  <1>4. /\ svc' \in [Service -> SvcSet] /\ journal' \in [Service -> RecordSet]
        /\ \A j \in Service \ {i} : svc'[j] = svc[j] /\ journal'[j] = journal[j]
        /\ svc'[i].config = svc[i].config /\ svc'[i].closed = svc[i].closed
    BY <1>2, <1>3, NamedIs
  <1>8. ASSUME At(i)' \in {"close", "failed"} PROVE ServiceInv(i)'
    BY <1>2, <1>3, <1>8, NamedKeeps
  <1>5. /\ proc' \in [Service -> [Proc -> ProcState]] /\ req' \in [Service -> ReqSet]
        /\ proc' = proc /\ req' = req
    BY <1>2 DEF Types
  <1>6. CASE PrepareFails
    <2>1. co'.pc = "close" /\ closing'.of = i
      BY <1>2, <1>6, StartCloseCo DEF PrepareFails, Why
    <2>2. At(i)' = "close"
      BY <2>1, PlaceNext DEF ClosePC
    <2> QED
      BY <1>4, <1>5, <1>6, <1>8, <2>2, PrepareFailsWith
  <1>7. CASE PrepareLeaves
    <2>1. Goto("failed") /\ closing' = NoClose
      BY <1>7 DEF PrepareLeaves
    <2>2. co'.pc = "failed" /\ co'.current = i
      BY <1>2, <2>1, GotoCo DEF CoPC
    <2>3. At(i)' = "failed"
      BY <1>1, <2>2, PlaceNext
    <2>4. closing' \in ClosingSet
      <3>1. 0 \in 0..MaxService
        BY ResidenceAssumption
      <3> QED
        BY <2>1, <3>1 DEF NoClose, ClosingSet, Why
    <2> QED
      BY <1>1, <1>4, <1>5, <1>8, <2>1, <2>3, <2>4, HandGoes
  <1> QED
    BY <1>6, <1>7

LEMMA AbortJobKeeps == ASSUME IInv, NEW i \in Live, AbortJob(i) PROVE IInv'
  <1>1. /\ co.pc = "abort" /\ co.current = i /\ co.pc \in HandPC /\ co.pc \in AbortPC
        /\ "undo" \in HandPC /\ UNCHANGED <<made, pidFile, req, ext>> /\ (Works \/ Fault)
    BY DEF AbortJob, HandPC, AbortPC
  <1>2. /\ TypeOK /\ Types /\ ServiceInv(i) /\ At(i) = "abort" /\ i \in Service
        /\ closing \in ClosingSet
    BY <1>1, InHand DEF Types
  <1>3. fault' \in 0..MaxFault
    BY <1>1, <1>2, FaultNext
  <1>4. CASE Works /\ proc' = Killed(i) /\ Goto("undo") /\ UNCHANGED <<svc, journal, closing>>
    <2>1. /\ proc' \in [Service -> [Proc -> ProcState]]
          /\ \A j \in Service \ {i} : proc'[j] = proc[j]
      BY <1>2, <1>4, KilledIs
    <2>2. ASSUME At(i)' = "undo" PROVE ServiceInv(i)'
      BY <1>1, <1>2, <1>4, <2>2, KilledKeeps
    <2>3. /\ req' \in [Service -> ReqSet] /\ closing' \in ClosingSet
          /\ pidFile' \in [Service -> Instance \cup {Launcher}]
          /\ svc' \in [Service -> SvcSet] /\ journal' \in [Service -> RecordSet]
          /\ \A j \in Service \ {i} : /\ svc'[j] = svc[j] /\ journal'[j] = journal[j]
                                      /\ proc'[j] = proc[j] /\ req'[j] = req[j]
      BY <1>1, <1>2, <1>4, <2>1 DEF Types
    <2>4. svc' = svc /\ Goto("undo")
      BY <1>4
    <2> QED
      BY <1>1, <1>3, <2>1, <2>2, <2>3, <2>4, HandGoes
  <1>5. CASE /\ Fault /\ \E tracked \in {{}, closing.seen} : LaunchUnproved(i, tracked)
             /\ UNCHANGED proc
    <2>1. PICK M \in {{}, closing.seen} : LaunchUnproved(i, M)
      BY <1>5
    <2>2. M \in SUBSET Proc /\ \A p \in M : proc[i][p] # "none"
      BY <1>2 DEF ClosingSet, ServiceInv, ListInv
    <2>3. Retain(i, M) /\ ((JournalMembers(i) /\ PrepareFails) \/ PrepareLeaves)
      BY <2>1 DEF LaunchUnproved
    <2>4. pidFile' \in [Service -> Instance \cup {Launcher}]
      BY <1>1, <1>2 DEF Types
    <2> QED
      BY <1>1, <1>3, <1>5, <2>2, <2>3, <2>4, UnprovedKeeps
  <1> QED
    BY <1>4, <1>5 DEF AbortJob

\* A PID file that went, or stays.
LEMMA NoPidFileIs ==
  ASSUME TypeOK, NEW i \in Service, PidFileStays(i) \/ pidFile' = NoPidFile(i)
  PROVE  pidFile' \in [Service -> Instance \cup {Launcher}]
  <1>1. NoInstance \in Instance
    BY ResidenceAssumption DEF NoInstance, Instance
  <1>2. pidFile \in [Service -> Instance \cup {Launcher}]
    BY DEF TypeOK
  <1> QED
    BY <1>1, <1>2 DEF PidFileStays, NoPidFile

LEMMA AbortObservedKeeps == ASSUME IInv, NEW i \in Live, AbortObserved(i) PROVE IInv'
  <1>1. /\ co.pc = "undo" /\ co.current = i /\ co.pc \in HandPC /\ co.pc \in AbortPC
        /\ UNCHANGED <<made, proc, req, ext>> /\ (Works \/ Fault)
    BY DEF AbortObserved, HandPC, AbortPC
  <1>2. /\ TypeOK /\ Types /\ ServiceInv(i) /\ At(i) = "undo" /\ i \in Service
        /\ closing \in ClosingSet
    BY <1>1, InHand DEF Types
  <1>3. fault' \in 0..MaxFault
    BY <1>1, <1>2, FaultNext
  <1>4. pidFile' \in [Service -> Instance \cup {Launcher}]
    BY <1>2, NoPidFileIs DEF AbortObserved
  <1>5. CASE CleanupVerified(i, closing.seen) /\ PrepareFails /\ UNCHANGED <<svc, journal>>
    <2>1. co'.pc = "close" /\ closing'.of = i
      BY <1>1, <1>2, <1>5, StartCloseCo DEF PrepareFails, Why
    <2>2. At(i)' = "close"
      BY <2>1, PlaceNext DEF ClosePC
    <2>3. ServiceInv(i)'
      <3>1. StageInv(i)'
        BY <1>2, <1>5, <2>2, StageInClose DEF ClosePC, ServiceInv, StageInv
      <3>2. ProcInv(i)'
        <4>1. \A p \in Proc : proc[i][p] = "dying" => p \notin closing.seen
          BY <1>5 DEF CleanupVerified, Remain
        <4>2. svc[i].scope /\ svc[i].owned = "owned"
          BY <1>2 DEF ServiceInv, StageInv, AbortPC
        <4> QED
          BY <1>1, <1>2, <1>5, <2>2, <4>1, <4>2 DEF ServiceInv, ProcInv
      <3>3. ListInv(i)'
        BY <1>1, <1>2, <1>5, <2>2, ListStays DEF ServiceInv
      <3>4. JournalInv(i)' /\ InstanceInv(i)' /\ RequestInv(i)'
        BY <1>1, <1>2, <1>5, JournalStays, InstanceStays, RequestStays DEF ServiceInv
      <3> QED
        BY <3>1, <3>2, <3>3, <3>4 DEF ServiceInv
    <2>4. co.pc \in PreparePC \cup AbortPC
      BY <1>1
    <2>5. /\ proc' \in [Service -> [Proc -> ProcState]] /\ req' \in [Service -> ReqSet]
          /\ svc' \in [Service -> SvcSet] /\ journal' \in [Service -> RecordSet]
          /\ \A j \in Service \ {i} : /\ svc'[j] = svc[j] /\ journal'[j] = journal[j]
                                      /\ proc'[j] = proc[j] /\ req'[j] = req[j]
      BY <1>1, <1>2, <1>5 DEF Types
    <2> QED
      BY <1>1, <1>3, <1>4, <1>5, <2>3, <2>4, <2>5, PrepareFailsWith
  <1>6. CASE /\ Retain(i, closing.seen)
             /\ (JournalMembers(i) /\ PrepareFails) \/ PrepareLeaves
    <2>1. closing.seen \in SUBSET Proc /\ \A p \in closing.seen : proc[i][p] # "none"
      BY <1>2 DEF ClosingSet, ServiceInv, ListInv
    <2> QED
      BY <1>1, <1>3, <1>4, <1>6, <2>1, UnprovedKeeps
  <1> QED
    BY <1>5, <1>6 DEF AbortObserved

LEMMA ScanJobKeeps == ASSUME IInv, NEW i \in Live, ScanJob(i) PROVE IInv'
  <1>1. /\ co.pc = "scan" /\ closing.of = i /\ co.pc \in ClosePC /\ (Works \/ Fault)
        /\ UNCHANGED <<made, proc, pidFile, req, ext>> /\ Retain(i, InJob(i))
        /\ JournalMembers(i) \/ UNCHANGED journal
    BY DEF ScanJob, ClosePC
  <1>2. /\ TypeOK /\ Types /\ ServiceInv(i) /\ At(i) = "scan" /\ i \in Service
        /\ closing \in ClosingSet
    BY <1>1, InClose DEF Types
  <1>3. fault' \in 0..MaxFault
    BY <1>1, <1>2, FaultNext
  <1>4. CloseGoes(i, "list")
    BY <1>1, <1>2 DEF ScanJob, CloseGoes, ClosePC
  <1>5. InJob(i) \in SUBSET Proc /\ \A p \in InJob(i) : proc[i][p] # "none"
    BY DEF InJob, InJobState
  <1>6. /\ svc' \in [Service -> SvcSet] /\ journal' \in [Service -> RecordSet]
        /\ \A j \in Service \ {i} : svc'[j] = svc[j] /\ journal'[j] = journal[j]
        /\ svc'[i].config = svc[i].config /\ svc'[i].closed = svc[i].closed
    BY <1>1, <1>2, <1>5, NamedIs
  <1>7. ASSUME At(i)' \in {"list", "failed", "away"} PROVE ServiceInv(i)'
    BY <1>1, <1>2, <1>5, <1>7, NamedKeeps
  <1>8. /\ proc' \in [Service -> [Proc -> ProcState]] /\ req' \in [Service -> ReqSet]
        /\ pidFile' \in [Service -> Instance \cup {Launcher}] /\ proc' = proc /\ req' = req
    BY <1>1, <1>2 DEF Types
  <1> QED
    BY <1>1, <1>3, <1>4, <1>6, <1>7, <1>8, CloseGoesKeeps

LEMMA ListJobKeeps == ASSUME IInv, NEW i \in Live, ListJob(i) PROVE IInv'
  <1>1. /\ co.pc = "list" /\ closing.of = i /\ co.pc \in ClosePC /\ Goto("kill")
        /\ closing' = [closing EXCEPT !.seen = InJob(i)]
        /\ UNCHANGED <<svc, made, journal, proc, pidFile, req, ext, fault>>
    BY DEF ListJob, ClosePC
  <1>2. /\ TypeOK /\ Types /\ ServiceInv(i) /\ At(i) = "list" /\ i \in Service
        /\ closing \in ClosingSet /\ InJob(i) \in SUBSET Proc
    BY <1>1, InClose DEF Types, InJob
  <1>3. /\ closing' \in ClosingSet /\ closing'.of = i /\ closing'.why = closing.why
        /\ closing'.seen = InJob(i)
    BY <1>1, <1>2 DEF ClosingSet
  <1>4. CloseGoes(i, "kill")
    BY <1>1, <1>3 DEF CloseGoes, ClosePC
  <1>5. co'.pc = "kill"
    BY <1>1, <1>2, GotoCo DEF CoPC
  <1>6. At(i)' = "kill"
    BY <1>3, <1>5, PlaceNext DEF ClosePC
  <1>7. ServiceInv(i)'
    BY <1>1, <1>2, <1>3, <1>6, ListedKeeps
  <1>8. UNCHANGED <<svc, made, journal, proc, pidFile, req, ext, fault>>
    BY <1>1
  <1> QED
    BY <1>1, <1>2, <1>4, <1>7, <1>8, CloseGoesKeeps DEF Types

\* Evidence that proves nothing keeps the service, and what is known of it.
LEMMA PendingKeeps ==
  ASSUME IInv, NEW i \in Live, co.pc \in {"kill", "observe"}, closing.of = i,
         NEW M \in SUBSET Proc, CleanupPending(i, M), UNCHANGED <<made, proc, req, ext>>,
         pidFile' \in [Service -> Instance \cup {Launcher}], fault' \in 0..MaxFault,
         \A p \in M : proc[i][p] # "none", co.pc = "observe" => closing.seen \subseteq M
  PROVE  IInv'
  <1>1. co.pc \in ClosePC /\ Retain(i, M) /\ (JournalMembers(i) \/ UNCHANGED journal) /\ CloseFails
    BY DEF CleanupPending, ClosePC
  <1>2. TypeOK /\ Types /\ ServiceInv(i) /\ At(i) = co.pc /\ i \in Service
    BY <1>1, InClose
  <1>3. CloseGoes(i, "close")
    BY <1>1 DEF CloseGoes
  <1>4. /\ svc' \in [Service -> SvcSet] /\ journal' \in [Service -> RecordSet]
        /\ \A j \in Service \ {i} : svc'[j] = svc[j] /\ journal'[j] = journal[j]
        /\ svc'[i].config = svc[i].config /\ svc'[i].closed = svc[i].closed
    BY <1>1, <1>2, NamedIs
  <1>5. ASSUME At(i)' \in {"close", "failed", "away"} PROVE ServiceInv(i)'
    BY <1>1, <1>2, <1>5, NamedKeeps
  <1>6. /\ proc' \in [Service -> [Proc -> ProcState]] /\ req' \in [Service -> ReqSet]
        /\ proc' = proc /\ req' = req
    BY <1>2 DEF Types
  <1> QED
    BY <1>1, <1>3, <1>4, <1>5, <1>6, CloseGoesKeeps

LEMMA TerminateJobKeeps == ASSUME IInv, NEW i \in Live, TerminateJob(i) PROVE IInv'
  <1>1. /\ co.pc = "kill" /\ closing.of = i /\ co.pc \in ClosePC /\ (Works \/ Fault)
        /\ UNCHANGED <<made, pidFile, req, ext>>
    BY DEF TerminateJob, ClosePC
  <1>2. /\ TypeOK /\ Types /\ ServiceInv(i) /\ At(i) = "kill" /\ i \in Service
        /\ closing \in ClosingSet
    BY <1>1, InClose DEF Types
  <1>3. fault' \in 0..MaxFault /\ pidFile' \in [Service -> Instance \cup {Launcher}]
    BY <1>1, <1>2, FaultNext DEF Types
  <1>4. CASE Works /\ proc' = Killed(i) /\ Goto("observe") /\ UNCHANGED <<svc, journal, closing>>
    <2>1. /\ proc' \in [Service -> [Proc -> ProcState]]
          /\ \A j \in Service \ {i} : proc'[j] = proc[j]
      BY <1>2, <1>4, KilledIs
    <2>2. CloseGoes(i, "observe")
      BY <1>1, <1>2, <1>4 DEF CloseGoes, ClosePC
    <2>3. co'.pc = "observe" /\ closing'.of = i
      BY <1>1, <1>2, <1>4, GotoCo DEF CoPC
    <2>4. At(i)' = "observe"
      BY <2>3, PlaceNext DEF ClosePC
    <2>5. ServiceInv(i)'
      BY <1>1, <1>2, <1>4, <2>4, KilledKeeps
    <2>6. /\ req' \in [Service -> ReqSet] /\ svc' = svc
          /\ svc' \in [Service -> SvcSet] /\ journal' \in [Service -> RecordSet]
          /\ \A j \in Service \ {i} : /\ svc'[j] = svc[j] /\ journal'[j] = journal[j]
                                      /\ proc'[j] = proc[j] /\ req'[j] = req[j]
      BY <1>1, <1>2, <1>4, <2>1 DEF Types
    <2> QED
      BY <1>1, <1>3, <2>1, <2>2, <2>5, <2>6, CloseGoesKeeps
  <1>5. CASE /\ \E tracked \in {{}, closing.seen} : CleanupPending(i, tracked)
             /\ UNCHANGED proc
    <2>1. PICK M \in {{}, closing.seen} : CleanupPending(i, M)
      BY <1>5
    <2>2. M \in SUBSET Proc /\ \A p \in M : proc[i][p] # "none"
      BY <1>2 DEF ClosingSet, ServiceInv, ListInv
    <2> QED
      BY <1>1, <1>3, <1>5, <2>1, <2>2, PendingKeeps
  <1> QED
    BY <1>4, <1>5 DEF TerminateJob

LEMMA ObserveCleanupKeeps == ASSUME IInv, NEW i \in Live, ObserveCleanup(i) PROVE IInv'
  <1> DEFINE tracked == svc[i].members \cup closing.seen
  <1>1. /\ co.pc = "observe" /\ closing.of = i /\ co.pc \in ClosePC
        /\ UNCHANGED <<made, proc, req, ext>> /\ (Works \/ Fault)
    BY DEF ObserveCleanup, ClosePC
  <1>2. /\ TypeOK /\ Types /\ ServiceInv(i) /\ At(i) = "observe" /\ i \in Service
        /\ svc[i] \in SvcSet /\ proc[i] \in [Proc -> ProcState]
        /\ closing \in ClosingSet /\ closing.seen \in SUBSET Proc
    BY <1>1, InClose DEF Types, ClosingSet
  <1>3. fault' \in 0..MaxFault
    BY <1>1, <1>2, FaultNext
  <1>4. pidFile' \in [Service -> Instance \cup {Launcher}]
    BY <1>2, NoPidFileIs DEF ObserveCleanup
  <1>5. \A p \in closing.seen : proc[i][p] # "none"
    BY <1>2 DEF ServiceInv, ListInv
  <1>6. CASE /\ CleanupVerified(i, tracked) /\ Retain(i, closing.seen) /\ JournalMembers(i)
             /\ Goto("handle") /\ closing' = [closing EXCEPT !.seen = {}]
    <2>1. /\ svc' \in [Service -> SvcSet] /\ \A j \in Service \ {i} : svc'[j] = svc[j]
          /\ svc'[i].owned = svc[i].owned /\ svc'[i].config = svc[i].config
          /\ svc'[i].scope = svc[i].scope /\ svc'[i].handle = svc[i].handle
          /\ svc'[i].prepared = svc[i].prepared /\ svc'[i].closed = svc[i].closed
          /\ svc'[i].instance = svc[i].instance /\ svc'[i].pending = svc[i].pending
          /\ svc'[i].members = svc[i].members \cup closing.seen
      <3>1. svc' = [svc EXCEPT ![i].members = svc[i].members \cup closing.seen]
        BY <1>6 DEF Retain
      <3> QED
        BY <1>2, <3>1, MembersAdded
    <2>2. /\ journal' \in [Service -> RecordSet]
          /\ \A j \in Service \ {i} : journal'[j] = journal[j]
          /\ journal'[i].phase = journal[i].phase /\ journal'[i].from = journal[i].from
          /\ journal'[i].owned = journal[i].owned /\ journal'[i].pending = journal[i].pending
          /\ journal[i].members \subseteq journal'[i].members
          /\ journal'[i].members \subseteq journal[i].members \cup svc'[i].members
      <3>1. svc'[i].members \in SUBSET Proc
        BY <1>2, <2>1 DEF SvcSet
      <3>2. Write(i, [journal[i] EXCEPT !.members = journal[i].members \cup svc'[i].members])
        BY <1>6 DEF JournalMembers
      <3> QED
        BY <1>2, <3>1, <3>2, MembersRecorded
    <2>3. ASSUME NEW p \in Proc
          PROVE  \/ proc[i][p] \in {"none", "gone"}
                 \/ p = "launcher" /\ proc[i][p] = "dropped"
                 \/ /\ p = "server" /\ proc[i][p] = "dying"
                    /\ p \notin svc[i].members /\ p \notin closing.seen /\ p \notin journal[i].members
      <3>1. proc[i][p] \notin InJobState /\ proc[i][p] # "out"
        BY <1>2, <1>6 DEF CleanupVerified, InJob, ServiceInv, ProcInv
      <3>2. p \in tracked => proc[i][p] \in {"none", "gone"}
        BY <1>6, <2>3 DEF CleanupVerified, Remain
      <3>3. CASE proc[i][p] = "dying"
        BY <1>2, <3>2, <3>3 DEF ServiceInv, ProcInv
      <3>4. CASE proc[i][p] = "dropped"
        BY <1>2, <3>4 DEF ServiceInv, ListInv, Proc
      <3> QED
        BY <1>2, <3>1, <3>3, <3>4 DEF ProcState, AliveState
    <2>4. Ended(i)'
      BY <1>1, <2>1, <2>2, <2>3 DEF Ended
    <2>5. CloseGoes(i, "handle")
      BY <1>1, <1>2, <1>6 DEF CloseGoes, ClosePC, ClosingSet
    <2>6. co'.pc = "handle" /\ closing'.of = i
      BY <1>1, <1>2, <1>6, GotoCo DEF CoPC, ClosingSet
    <2>7. At(i)' = "handle"
      BY <2>6, PlaceNext DEF ClosePC
    <2>8. ServiceInv(i)'
      <3>1. StageInv(i)'
        BY <1>2, <2>1, <2>7, StageInClose DEF ClosePC, ServiceInv, StageInv
      <3>2. ProcInv(i)'
        <4>1. \A p \in Proc : proc'[i][p] = "dying" => p = "server" /\ p \notin journal'[i].members
          BY <2>4 DEF Ended
        <4>2. \A p \in Proc : proc'[i][p] # "out"
          BY <2>4 DEF Ended
        <4>3. ~svc'[i].handle
          BY <1>2, <2>1 DEF ServiceInv, ProcInv
        <4>4. svc'[i].owned # "owned" => ~svc'[i].scope /\ \A p \in Proc : proc'[i][p] = "none"
          BY <1>1, <1>2, <2>1 DEF ServiceInv, ProcInv
        <4> QED
          BY <2>4, <2>7, <4>1, <4>2, <4>3, <4>4 DEF ProcInv
      <3>3. ListInv(i)'
        <4>1. \A p \in Proc : proc[i][p] = "none" => p \notin svc'[i].members
          BY <1>2, <1>5, <2>1 DEF ServiceInv, ListInv
        <4>2. \A p \in Proc : p \in journal'[i].members => p \in journal[i].members \/ p \in svc'[i].members
          BY <2>2
        <4>3. ListInv(i) /\ proc' = proc
          BY <1>1, <1>2 DEF ServiceInv
        <4> QED
          BY <2>7, <4>1, <4>2, <4>3, ListNamed
      <3>4. JournalInv(i)' /\ InstanceInv(i)' /\ RequestInv(i)'
        BY <1>1, <1>2, <2>1, <2>2, JournalStays, InstanceStays, RequestStays DEF ServiceInv
      <3> QED
        BY <3>1, <3>2, <3>3, <3>4 DEF ServiceInv
    <2>9. /\ proc' \in [Service -> [Proc -> ProcState]] /\ req' \in [Service -> ReqSet]
          /\ proc' = proc /\ req' = req
      BY <1>1, <1>2 DEF Types
    <2> QED
      BY <1>1, <1>3, <1>4, <2>1, <2>2, <2>5, <2>8, <2>9, CloseGoesKeeps
  <1>7. CASE CleanupPending(i, closing.seen)
    BY <1>1, <1>2, <1>3, <1>4, <1>5, <1>7, PendingKeeps
  <1> QED
    BY <1>6, <1>7 DEF ObserveCleanup

LEMMA CloseHandleKeeps == ASSUME IInv, NEW i \in Live, CloseHandle(i) PROVE IInv'
  <1>1. /\ co.pc = "handle" /\ closing.of = i /\ co.pc \in ClosePC /\ (Works \/ Fault)
        /\ UNCHANGED <<made, journal, proc, pidFile, req, ext>>
    BY DEF CloseHandle, ClosePC
  <1>2. /\ TypeOK /\ Types /\ ServiceInv(i) /\ At(i) = "handle" /\ i \in Service
        /\ svc[i] \in SvcSet
    BY <1>1, InClose
  <1>3. fault' \in 0..MaxFault
    BY <1>1, <1>2, FaultNext
  <1>4. /\ svc[i].closed => ~svc[i].scope /\ ~svc[i].handle /\ ~svc[i].pending
        /\ Ended(i) /\ ~svc[i].handle /\ svc[i].scope
    BY <1>2 DEF ServiceInv, StageInv, ProcInv
  <1>5. CASE /\ svc' = [svc EXCEPT ![i].scope = FALSE, ![i].members = {}, ![i].verified = TRUE]
             /\ Goto("finish") /\ UNCHANGED closing
    <2>1. /\ svc' \in [Service -> SvcSet] /\ \A j \in Service \ {i} : svc'[j] = svc[j]
          /\ svc'[i].owned = svc[i].owned /\ svc'[i].config = svc[i].config
          /\ ~svc'[i].scope /\ svc'[i].handle = svc[i].handle
          /\ svc'[i].prepared = svc[i].prepared /\ svc'[i].closed = svc[i].closed
          /\ svc'[i].instance = svc[i].instance /\ svc'[i].pending = svc[i].pending
          /\ svc'[i].members = {}
      BY <1>2, <1>5 DEF Types, SvcSet
    <2>2. ASSUME At(i)' \in {"finish", "failed", "away"} PROVE ServiceInv(i)'
      <3>1. StageInv(i)'
        BY <1>4, <2>1, <2>2, StageInClose DEF ClosePC
      <3>2. ProcInv(i)'
        BY <1>1, <1>2, <1>4, <2>1, <2>2 DEF ServiceInv, ProcInv, Ended, InJob, InJobState
      <3>4. ListInv(i)'
        BY <1>1, <1>2, <2>1, <2>2 DEF ServiceInv, ListInv
      <3>3. JournalInv(i)' /\ InstanceInv(i)' /\ RequestInv(i)'
        BY <1>1, <1>2, <2>1, JournalStays, InstanceStays, RequestStays DEF ServiceInv
      <3> QED
        BY <3>1, <3>2, <3>3, <3>4 DEF ServiceInv
    <2>3. CloseGoes(i, "finish")
      BY <1>1, <1>2, <1>5 DEF CloseGoes, ClosePC, Types
    <2> QED
      BY <1>1, <1>2, <1>3, <2>1, <2>2, <2>3, CloseGoesKeeps DEF Types
  <1>6. CASE CloseFails /\ UNCHANGED svc
    <2>1. CloseGoes(i, "handle")
      BY <1>6 DEF CloseGoes
    <2>2. ASSUME At(i)' \in {"handle", "failed", "away"} PROVE ServiceInv(i)'
      <3>1. StageInv(i)'
        BY <1>4, <1>6, <2>2, StageInClose DEF ClosePC
      <3> QED
        BY <1>1, <1>2, <1>4, <1>6, <2>2, <3>1, PlaceMoves
    <2> QED
      BY <1>1, <1>2, <1>3, <1>6, <2>1, <2>2, CloseGoesKeeps DEF Types
  <1> QED
    BY <1>5, <1>6 DEF CloseHandle

LEMMA FinishRequestKeeps == ASSUME IInv, NEW i \in Live, FinishRequest(i) PROVE IInv'
  <1>1. /\ co.pc = "finish" /\ closing.of = i /\ co.pc \in ClosePC /\ (Works \/ Fault)
        /\ svc[i].pending /\ svc[i].owned = "owned"
        /\ UNCHANGED <<made, proc, pidFile, req, ext>>
    BY DEF FinishRequest, ClosePC
  <1>2. /\ TypeOK /\ Types /\ ServiceInv(i) /\ At(i) = "finish" /\ i \in Service
    BY <1>1, InClose
  <1>3. svc[i].prepared /\ ~svc[i].closed /\ Ended(i) /\ ~svc[i].scope /\ ~svc[i].handle
    BY <1>1, <1>2 DEF ServiceInv, StageInv, RequestInv, ProcInv
  <1>4. fault' \in 0..MaxFault
    BY <1>1, <1>2, FaultNext
  <1>5. CASE Settled(i) /\ UNCHANGED <<co, closing>>
    <2>1. Pends(i, FALSE)
      BY <1>5, SettledPends
    <2>2. /\ svc' \in [Service -> SvcSet] /\ journal' \in [Service -> RecordSet]
          /\ \A j \in Service \ {i} : svc'[j] = svc[j] /\ journal'[j] = journal[j]
          /\ svc'[i].owned = svc[i].owned /\ svc'[i].config = svc[i].config
          /\ svc'[i].prepared = svc[i].prepared /\ svc'[i].closed = svc[i].closed
          /\ svc'[i].instance = svc[i].instance
      BY <1>2, <2>1, PendsIs
    <2>3. ASSUME At(i)' \in {"finish", "failed", "away"} PROVE ServiceInv(i)'
      <3>1. RequestInv(i)'
        <4>1. Past(i) => Past(i)'
          BY <1>1, <2>2 DEF Past, PortOfService
        <4> QED
          BY <1>1, <1>2, <1>3, <2>2, <4>1 DEF ServiceInv, RequestInv
      <3>2. StageInv(i)'
        BY <1>3, <2>2, <2>3, StageInClose DEF ClosePC
      <3> QED
        BY <1>1, <1>2, <2>1, <2>3, <3>1, <3>2, PendsKeeps
    <2>4. CloseGoes(i, "finish")
      <3>1. co' = [co EXCEPT !.pc = "finish"]
        BY <1>1, <1>2, <1>5 DEF Types, CoSet
      <3> QED
        BY <1>1, <1>2, <1>5, <3>1 DEF CloseGoes, Goto, Types
    <2> QED
      BY <1>1, <1>2, <1>4, <2>2, <2>3, <2>4, CloseGoesKeeps DEF Types
  <1>6. CASE CloseFails /\ UNCHANGED <<svc, journal>>
    <2>1. ASSUME At(i)' \in {"finish", "failed", "away"} PROVE ServiceInv(i)'
      <3>1. StageInv(i)'
        BY <1>3, <1>6, <2>1, StageInClose DEF ClosePC
      <3> QED
        BY <1>1, <1>2, <1>3, <1>6, <2>1, <3>1, PlaceMoves
    <2> QED
      BY <1>1, <1>2, <1>4, <1>6, <2>1, CloseGoesKeeps DEF Types, CloseGoes
  <1> QED
    BY <1>5, <1>6 DEF FinishRequest

\* The coordinator after a close.
LEMMA AfterCloseIs ==
  ASSUME IInv, NEW i \in Live, co.pc \in ClosePC, closing.of = i, co' = AfterClose(i)
  PROVE  /\ co' \in CoSet /\ co'.keep = co.keep /\ co'.cleanup = co.cleanup
         /\ \/ /\ co.current = i /\ co'.pc = "failed" /\ co'.current = i
               /\ co'.residents = co.residents
            \/ /\ co.current = i /\ co'.pc \in {"idle", "draining"} /\ co'.current = 0
               /\ co'.residents = co.residents
               /\ (co'.pc = "draining" => closing.why = "stop")
            \/ /\ co.current = 0 /\ co'.pc = "draining" /\ co'.current = 0
               /\ co'.residents = co.residents \ {i}
               /\ closing.why \in {"residents", "off", "drain"}
  <1>1. /\ co \in CoSet
        /\ \/ closing.why \in {"prepare", "release", "stop"} /\ co.current = i
           \/ closing.why \in {"residents", "off", "drain"} /\ co.current = 0
    BY InClose, TypesAre DEF Types, IInv, CoInv
  <1>2. CASE closing.why = "prepare"
    <2>1. co' = [co EXCEPT !.pc = "failed"]
      BY <1>2 DEF AfterClose
    <2> QED
      BY <1>1, <1>2, <2>1 DEF CoSet, CoPC
  <1>3. CASE closing.why \in {"release", "stop"}
    <2> DEFINE q == IF closing.why = "stop" THEN "draining" ELSE "idle"
    <2>1. co' = [co EXCEPT !.current = 0, !.release = FALSE, !.reuseFailed = FALSE, !.pc = q]
      BY <1>3 DEF AfterClose
    <2>2. /\ q \in {"idle", "draining"} /\ (q = "draining" => closing.why = "stop")
          /\ 0 \in 0..MaxService
      BY ResidenceAssumption
    <2> HIDE DEF q
    <2> QED
      BY <1>1, <1>3, <2>1, <2>2 DEF CoSet, CoPC
  <1>4. CASE closing.why \in {"residents", "off", "drain"}
    <2> DEFINE R == co.residents \ {i}
    <2>1. co' = [co EXCEPT !.residents = R, !.pc = "draining"]
      BY <1>4 DEF AfterClose, Residents
    <2>2. R \in SUBSET Service
      BY <1>1 DEF CoSet
    <2>3. R = co.residents \ {i}
      OBVIOUS
    <2> HIDE DEF R
    <2>4. /\ co' \in CoSet /\ co'.keep = co.keep /\ co'.cleanup = co.cleanup
          /\ co'.pc = "draining" /\ co'.current = co.current /\ co'.residents = R
      BY <1>1, <2>1, <2>2 DEF CoSet, CoPC
    <2>5. co.current = 0
      BY <1>1, <1>4
    <2> QED
      BY <1>4, <2>3, <2>4, <2>5
  <1> QED
    BY <1>1, <1>2, <1>3, <1>4

LEMMA ClosedRecordIs ==
  ASSUME TypeOK, NEW i \in Service, JournalInv(i), Write(i, ClosedRecord(i))
  PROVE  /\ journal' \in [Service -> RecordSet]
         /\ \A j \in Service \ {i} : journal'[j] = journal[j]
         /\ journal'[i].phase = "closed" /\ LastPhase(i)' = LastPhase(i)
         /\ journal'[i].owned = journal[i].owned /\ journal'[i].pending = journal[i].pending
         /\ journal'[i].members = journal[i].members
  <1>1. journal[i] \in RecordSet
    BY TypesAre DEF Types
  <1> DEFINE r == ClosedRecord(i)
  <1>2. /\ r \in RecordSet /\ r.phase = "closed" /\ r.from = LastPhase(i)
        /\ r.owned = journal[i].owned /\ r.pending = journal[i].pending
        /\ r.members = journal[i].members
    <2>1. CASE journal[i].phase = "closed"
      BY <1>1, <2>1 DEF ClosedRecord, LastPhase
    <2>2. CASE journal[i].phase # "closed"
      BY <1>1, <2>2 DEF ClosedRecord, LastPhase, RecordSet, Phase
    <2> QED
      BY <2>1, <2>2
  <1>3. Write(i, r)
    OBVIOUS
  <1> HIDE DEF r
  <1>4. /\ journal' \in [Service -> RecordSet] /\ journal'[i] = r
        /\ \A j \in Service \ {i} : journal'[j] = journal[j]
    BY <1>2, <1>3, Wrote
  <1>5. LastPhase(i)' = LastPhase(i)
    BY <1>2, <1>4 DEF LastPhase
  <1> QED
    BY <1>2, <1>4, <1>5

LEMMA FinishCloseKeeps == ASSUME IInv, NEW i \in Live, FinishClose(i) PROVE IInv'
  <1>1. /\ co.pc = "finish" /\ closing.of = i /\ co.pc \in ClosePC /\ (Works \/ Fault)
        /\ ~svc[i].pending
        /\ UNCHANGED <<made, proc, pidFile, req, ext>>
    BY DEF FinishClose, ClosePC
  <1>2. /\ TypeOK /\ Types /\ ServiceInv(i) /\ At(i) = "finish" /\ i \in Service
        /\ svc[i] \in SvcSet /\ Held(i)
    BY <1>1, InClose
  <1>3. Ended(i) /\ ~svc[i].scope /\ ~svc[i].handle
    BY <1>2 DEF ServiceInv, ProcInv
  <1>4. fault' \in 0..MaxFault
    BY <1>1, <1>2, FaultNext
  <1>5. CASE CloseFails /\ UNCHANGED <<svc, journal>>
    <2>1. ASSUME At(i)' \in {"finish", "failed", "away"} PROVE ServiceInv(i)'
      <3>1. StageInv(i)'
        BY <1>1, <1>3, <1>5, <2>1, StageInClose DEF ClosePC
      <3> QED
        BY <1>1, <1>2, <1>3, <1>5, <2>1, <3>1, PlaceMoves
    <2> QED
      BY <1>1, <1>2, <1>4, <1>5, <2>1, CloseGoesKeeps DEF Types, CloseGoes
  <1>6. CASE /\ Write(i, ClosedRecord(i)) /\ svc' = [svc EXCEPT ![i].closed = TRUE]
             /\ co' = AfterClose(i) /\ closing' = [NoClose EXCEPT !.why = closing.why]
    <2>1. /\ svc' \in [Service -> SvcSet] /\ \A j \in Service \ {i} : svc'[j] = svc[j]
          /\ svc'[i].owned = svc[i].owned /\ svc'[i].config = svc[i].config
          /\ svc'[i].scope = svc[i].scope /\ svc'[i].handle = svc[i].handle
          /\ svc'[i].prepared = svc[i].prepared /\ svc'[i].closed
          /\ svc'[i].instance = svc[i].instance /\ svc'[i].pending = svc[i].pending
          /\ svc'[i].members = svc[i].members
      BY <1>2, <1>6 DEF Types, SvcSet
    <2>2. /\ journal' \in [Service -> RecordSet]
          /\ \A j \in Service \ {i} : journal'[j] = journal[j]
          /\ journal'[i].phase = "closed" /\ LastPhase(i)' = LastPhase(i)
          /\ journal'[i].owned = journal[i].owned /\ journal'[i].pending = journal[i].pending
          /\ journal'[i].members = journal[i].members
      BY <1>2, <1>6, ClosedRecordIs DEF ServiceInv
    <2>3. /\ co' \in CoSet /\ co'.keep = co.keep /\ co'.cleanup = co.cleanup
          /\ \/ /\ co.current = i /\ co'.pc = "failed" /\ co'.current = i
                /\ co'.residents = co.residents
             \/ /\ co.current = i /\ co'.pc \in {"idle", "draining"} /\ co'.current = 0
                /\ co'.residents = co.residents
                /\ (co'.pc = "draining" => closing.why = "stop")
             \/ /\ co.current = 0 /\ co'.pc = "draining" /\ co'.current = 0
                /\ co'.residents = co.residents \ {i}
                /\ closing.why \in {"residents", "off", "drain"}
      BY <1>1, <1>6, AfterCloseIs
    <2>4. At(i)' \in {"failed", "away"}
      BY <2>3 DEF At, HandPC, ClosePC, PreparePC, LaunchPC, AbortPC, RequestPC
    <2>5. ServiceInv(i)'
      <3>1. StageInv(i)'
        BY <1>1, <1>3, <2>1, <2>4, StageInClose
      <3>2. ProcInv(i)'
        BY <1>1, <1>2, <1>3, <2>1, <2>2, <2>4, ProcStays DEF ServiceInv
      <3>5. ListInv(i)'
        BY <1>1, <1>2, <2>1, <2>2, <2>4, ListStays DEF ServiceInv
      <3>3. JournalInv(i)'
        BY <1>1, <1>2, <2>1, <2>2 DEF ServiceInv, JournalInv
      <3>4. InstanceInv(i)' /\ RequestInv(i)'
        BY <1>1, <1>2, <2>1, InstanceStays, RequestStays DEF ServiceInv
      <3> QED
        BY <3>1, <3>2, <3>3, <3>4, <3>5 DEF ServiceInv
    <2>12. closing' \in ClosingSet /\ closing'.why = closing.why
      <3>1. closing.why \in Why /\ 0 \in 0..MaxService
        BY <1>2, ResidenceAssumption DEF Types, ClosingSet
      <3> QED
        BY <1>6, <3>1 DEF NoClose, ClosingSet
    <2>6. TypeOK'
      <3>1. Types'
        BY <1>1, <1>2, <1>4, <2>1, <2>2, <2>3, <2>12 DEF Types
      <3> QED
        BY <3>1, TypesNext
    <2>7. Mine(i) /\ Mine(i)'
      BY <1>1, <2>3 DEF Mine, HandPC
    <2>8. i # 0 /\ co.residents \subseteq Live /\ Live' = Live /\ Live \subseteq Service
          /\ co.current \notin co.residents /\ (co.residents # {} => co.keep)
      BY <1>1, <1>2, Numbers DEF IInv, CoInv, Live
    <2>9. CoInv'
      <3>1. /\ co'.current \in Live' \cup {0} /\ co'.residents \subseteq Live'
            /\ co'.current \notin co'.residents /\ (co'.residents # {} => co'.keep)
            /\ i \notin co'.residents /\ co'.residents \subseteq co.residents
        <4>1. CASE co.current = i /\ co'.residents = co.residents /\ co'.current \in {i, 0}
          <5>1. 0 \notin Live
            BY <1>2, <2>8, Numbers
          <5>2. i \notin co.residents /\ co'.current \notin co'.residents
            BY <2>8, <4>1, <5>1
          <5> QED
            BY <2>3, <2>8, <4>1, <5>2
        <4>2. CASE co.current = 0 /\ co'.current = 0 /\ co'.residents = co.residents \ {i}
          BY <2>3, <2>8, <4>2
        <4> QED
          BY <2>3, <4>1, <4>2
      <3>2. /\ co'.pc \notin ClosePC /\ (co'.pc \in HandPC => co'.current # 0)
            /\ (co'.pc \in {"idle", "draining", "down"} => co'.current = 0)
            /\ (co'.pc = "draining" => closing'.why \in {"stop", "residents", "off", "drain"})
        BY <2>3, <2>8, <2>12 DEF HandPC, ClosePC, PreparePC, LaunchPC, AbortPC, RequestPC
      <3>3. \A j \in co'.residents : svc'[j] = svc[j]
        BY <2>1, <2>8, <3>1
      <3>4. \A j \in co'.residents : ~svc'[j].closed /\ (~co'.cleanup => Whole(j)')
        BY <2>3, <3>1, <3>3 DEF IInv, CoInv, Whole
      <3> QED
        BY <3>1, <3>2, <3>4 DEF CoInv
    <2>10. \A j \in Live : (Held(j)' => Held(j)) /\ (Held(j) => Held(j)' \/ svc'[j].closed)
      <3> SUFFICES ASSUME NEW j \in Live
                   PROVE  (Held(j)' => Held(j)) /\ (Held(j) => Held(j)' \/ svc'[j].closed)
        OBVIOUS
      <3>1. CASE j = i
        BY <1>2, <2>1, <3>1
      <3>2. CASE j # i
        <4>1. j # 0
          BY <1>2, Numbers
        <4> QED
          BY <2>3, <3>2, <4>1 DEF Held
      <3> QED
        BY <3>1, <3>2
    <2>11. /\ \A j \in Service \ {i} : /\ svc'[j] = svc[j] /\ journal'[j] = journal[j]
                                       /\ proc'[j] = proc[j] /\ req'[j] = req[j]
           /\ made' = made /\ ext' = ext
      BY <1>1, <2>1, <2>2
    <2> QED
      BY <2>1, <2>5, <2>6, <2>7, <2>9, <2>10, <2>11, OwnStep
  <1> QED
    BY <1>5, <1>6 DEF FinishClose

-----------------------------------------------------------------------------
(* The coordinator.                                                         *)

\* The coordinator moves, and with it no more than the place of the services.
LEMMA CoMoves ==
  ASSUME IInv, UNCHANGED <<svc, made, journal, proc, pidFile, req, ext, fault>>,
         co' \in CoSet, closing' \in ClosingSet, CoInv',
         \A j \in Live : Held(j)' <=> Held(j),
         \A j \in Live :
           \/ At(j)' = At(j) /\ closing'.seen = closing.seen
           \/ /\ At(j) \in {"away", "step", "failed"} /\ At(j)' \in {"away", "close", "reuse"}
              /\ (At(j)' = "reuse" => ~svc[j].closed)
  PROVE  IInv'
  <1>1. TypeOK /\ Types /\ Live' = Live
    BY TypesAre DEF IInv, Live
  <1>2. TypeOK'
    <2>1. Types'
      BY <1>1 DEF Types
    <2> QED
      BY <2>1, TypesNext
  <1>3. ASSUME NEW j \in Live PROVE ServiceInv(j)'
    <2>1. ServiceInv(j)
      BY DEF IInv
    <2>2. CASE At(j)' = At(j) /\ closing'.seen = closing.seen
      BY <2>1, <2>2, OtherKeeps
    <2>3. CASE /\ At(j) \in {"away", "step", "failed"} /\ At(j)' \in {"away", "close", "reuse"}
               /\ (At(j)' = "reuse" => ~svc[j].closed)
      <3>1. svc[j].closed => ~svc[j].scope /\ ~svc[j].handle /\ ~svc[j].pending
        BY <2>1 DEF ServiceInv, StageInv
      <3>2. StageInv(j)'
        BY <2>3, <3>1 DEF StageInv, PreparePC, LaunchPC, AbortPC, RequestPC, ClosePC
      <3> QED
        BY <2>1, <2>3, <3>2, PlaceMoves
    <2> QED
      BY <2>2, <2>3
  <1>4. HeldInv'
    BY <1>1 DEF IInv, HeldInv, PortOfService
  <1> QED
    BY <1>1, <1>2, <1>3, <1>4 DEF IInv

\* Nobody is in hand, and nobody is closed.
LEMMA AllAway ==
  ASSUME NEW j, co.pc \in {"idle", "draining", "down"}
  PROVE  At(j) = "away"
  BY DEF At, HandPC, PreparePC, LaunchPC, AbortPC, RequestPC, ClosePC

LEMMA AllAwayNext ==
  ASSUME NEW j, co'.pc \in {"idle", "draining", "down"}
  PROVE  At(j)' = "away"
  BY DEF At, HandPC, PreparePC, LaunchPC, AbortPC, RequestPC, ClosePC

LEMMA OthersAwayNext ==
  ASSUME NEW i, \/ co'.pc \in HandPC /\ co'.current = i
                \/ co'.pc \in ClosePC /\ closing'.of = i,
         NEW j, j # i
  PROVE  At(j)' = "away"
  BY DEF At, HandPC, PreparePC, LaunchPC, AbortPC, RequestPC, ClosePC

\* The model in hand is closed.
LEMMA HandIsClosed ==
  ASSUME IInv, NEW i \in Live, co.pc \in {"step", "failed"}, co.current = i,
         UNCHANGED <<svc, made, journal, proc, pidFile, req, ext, fault>>,
         co' \in CoSet, co'.pc = "close", co'.current = i, co'.residents = co.residents,
         co'.keep = co.keep, co'.cleanup = co.cleanup,
         closing' \in ClosingSet, closing'.of = i, closing'.why \in {"release", "stop"}
  PROVE  IInv'
  <1>1. co.pc \in HandPC /\ co'.pc \in ClosePC
    BY DEF HandPC, RequestPC, ClosePC
  <1>2. TypeOK /\ Types /\ Live' = Live /\ i # 0
    BY TypesAre, Numbers DEF IInv, Live
  <1>3. \A j \in Live : j # i => At(j) = "away" /\ At(j)' = "away"
    BY <1>1, OthersAway, OthersAwayNext DEF Mine
  <1>4. At(i) = co.pc /\ At(i)' = "close"
    BY <1>1, OwnPlace, PlaceNext
  <1>5. CoInv'
    <2>1. /\ co'.current \in Live' \cup {0} /\ co'.residents \subseteq Live'
          /\ co'.current \notin co'.residents /\ (co'.residents # {} => co'.keep)
      BY <1>2 DEF IInv, CoInv
    <2>2. co'.pc \notin HandPC /\ co'.pc \notin {"idle", "draining", "down"}
      BY DEF HandPC, RequestPC, PreparePC, LaunchPC, AbortPC
    <2>3. \A j \in co'.residents : ~svc'[j].closed /\ (~co'.cleanup => Whole(j)')
      BY DEF IInv, CoInv, Whole
    <2> QED
      BY <1>2, <2>1, <2>2, <2>3 DEF CoInv
  <1>6. \A j \in Live : Held(j)' <=> Held(j)
    BY DEF Held
  <1>7. \A j \in Live :
           \/ At(j)' = At(j) /\ closing'.seen = closing.seen
           \/ /\ At(j) \in {"away", "step", "failed"} /\ At(j)' \in {"away", "close", "reuse"}
              /\ (At(j)' = "reuse" => ~svc[j].closed)
    BY <1>3, <1>4
  <1> QED
    BY <1>5, <1>6, <1>7, CoMoves

LEMMA ReleaseKeeps ==
  ASSUME IInv, NEW i \in Live, NEW force \in BOOLEAN, Release(i, force) PROVE IInv'
  <1>1. /\ co.pc \in {"step", "failed"} /\ co.current = i /\ co.pc \in HandPC
        /\ UNCHANGED <<svc, made, journal, proc, pidFile, req, ext, fault>>
    BY DEF Release, HandPC, RequestPC
  <1>2. /\ TypeOK /\ Types /\ co \in CoSet /\ closing \in ClosingSet /\ i # 0
        /\ i \in Service /\ At(i) = co.pc /\ Live' = Live
    BY <1>1, InHand, Numbers DEF Types, Live
  <1>3. CASE StartClose(i, "release")
    <2>1. /\ co' \in CoSet /\ co'.pc = "close" /\ co'.current = co.current
          /\ co'.residents = co.residents /\ co'.keep = co.keep
          /\ co'.cleanup = (co.cleanup \/ "release" \in {"residents", "off", "drain"})
          /\ closing' \in ClosingSet /\ closing'.of = i /\ closing'.why = "release"
      BY <1>2, <1>3, StartCloseCo DEF Why
    <2>2. co'.cleanup = co.cleanup
      BY <1>2, <2>1 DEF CoSet
    <2> QED
      BY <1>1, <2>1, <2>2, HandIsClosed
  <1>4. CASE /\ Retains(i) /\ UNCHANGED closing
             /\ co' = [co EXCEPT !.pc = "idle", !.current = 0, !.residents = @ \cup {i}]
    <2> DEFINE R == co.residents \cup {i}
    <2>1. R \in SUBSET Service /\ co' = [co EXCEPT !.pc = "idle", !.current = 0, !.residents = R]
      BY <1>2, <1>4 DEF CoSet
    <2>2. R = co.residents \cup {i}
      OBVIOUS
    <2>3. 0 \in 0..MaxService
      BY ResidenceAssumption
    <2> HIDE DEF R
    <2>4. /\ co' \in CoSet /\ co'.pc = "idle" /\ co'.current = 0
          /\ co'.residents = co.residents \cup {i}
          /\ co'.keep = co.keep /\ co'.cleanup = co.cleanup
      BY <1>2, <2>1, <2>2, <2>3 DEF CoSet, CoPC
    <2>5. co.keep /\ Whole(i)
      BY <1>4 DEF Retains, CanRetain, Whole
    <2>6. CoInv'
      <3>1. /\ co'.current \in Live' \cup {0} /\ co'.residents \subseteq Live' /\ co'.keep
        BY <1>2, <2>4, <2>5 DEF IInv, CoInv
      <3>2. co'.current \notin co'.residents
        <4>1. 0 \notin Live
          BY <1>2, Numbers
        <4> QED
          BY <1>2, <2>4, <3>1, <4>1
      <3>3. co'.pc \notin HandPC /\ co'.pc \notin ClosePC /\ co'.pc # "draining"
        BY <2>4 DEF HandPC, ClosePC, RequestPC, PreparePC, LaunchPC, AbortPC
      <3>4. \A j \in co'.residents : ~svc[j].closed /\ (~co'.cleanup => Whole(j))
        BY <2>4, <2>5 DEF IInv, CoInv, Whole
      <3>5. \A j \in co'.residents : ~svc'[j].closed /\ (~co'.cleanup => Whole(j)')
        BY <1>1, <3>4 DEF Whole
      <3> QED
        BY <2>4, <3>1, <3>2, <3>3, <3>5 DEF CoInv
    <2>7. \A j \in Live : Held(j)' <=> Held(j)
      <3>1. 0 \notin Live
        BY <1>2, Numbers
      <3> QED
        BY <1>1, <2>4, <3>1 DEF Held
    <2>8. \A j \in Live : j # i => At(j) = "away"
      BY <1>1, OthersAway DEF Mine
    <2>9. \A j \in Live : At(j)' = "away"
      BY <2>4, AllAwayNext
    <2>10. \A j \in Live :
             \/ At(j)' = At(j) /\ closing'.seen = closing.seen
             \/ /\ At(j) \in {"away", "step", "failed"} /\ At(j)' \in {"away", "close", "reuse"}
                /\ (At(j)' = "reuse" => ~svc[j].closed)
      BY <1>1, <1>2, <2>8, <2>9
    <2>11. closing' \in ClosingSet
      BY <1>2, <1>4
    <2> QED
      BY <1>1, <2>4, <2>6, <2>7, <2>10, <2>11, CoMoves
  <1> QED
    BY <1>3, <1>4 DEF Release

LEMMA TakeResidentKeeps == ASSUME IInv, NEW i \in Live, TakeResident(i) PROVE IInv'
  <1>1. /\ co.pc = "idle" /\ co.current = 0 /\ i \in co.residents /\ ~co.cleanup
        /\ co' = [co EXCEPT !.pc = "reuse", !.current = i, !.residents = @ \ {i},
                            !.reuseFailed = FALSE, !.cancelled = FALSE]
        /\ UNCHANGED <<svc, made, journal, proc, pidFile, req, ext, closing, fault>>
    BY DEF TakeResident, StepMayBegin
  <1>2. /\ TypeOK /\ Types /\ co \in CoSet /\ closing \in ClosingSet /\ i # 0 /\ 0 \notin Live
        /\ i \in Service /\ i \in 0..MaxService /\ Live' = Live
    BY <1>1, TypesAre, Numbers DEF IInv, Types, Live
  <1> DEFINE R == co.residents \ {i}
  <1>3. R \in SUBSET Service /\ R = co.residents \ {i}
    BY <1>2 DEF CoSet
  <1>4. co' = [co EXCEPT !.pc = "reuse", !.current = i, !.residents = R,
                         !.reuseFailed = FALSE, !.cancelled = FALSE]
    BY <1>1
  <1> HIDE DEF R
  <1>5. /\ co' \in CoSet /\ co'.pc = "reuse" /\ co'.current = i /\ co'.residents = R
        /\ co'.keep = co.keep /\ co'.cleanup = co.cleanup
    BY <1>2, <1>3, <1>4 DEF CoSet, CoPC
  <1>6. co'.pc \in HandPC /\ co'.pc \notin ClosePC
    BY <1>5 DEF HandPC, ClosePC
  <1>7. CoInv'
    <2>1. /\ co'.current \in Live' \cup {0} /\ co'.residents \subseteq Live'
          /\ co'.current \notin co'.residents /\ (co'.residents # {} => co'.keep)
      BY <1>2, <1>3, <1>5 DEF IInv, CoInv
    <2>2. \A j \in co'.residents : ~svc[j].closed /\ (~co'.cleanup => Whole(j))
      BY <1>3, <1>5 DEF IInv, CoInv
    <2>3. \A j \in co'.residents : ~svc'[j].closed /\ (~co'.cleanup => Whole(j)')
      BY <1>1, <2>2 DEF Whole
    <2> QED
      BY <1>2, <1>5, <1>6, <2>1, <2>3 DEF CoInv
  <1>8. \A j \in Live : Held(j)' <=> Held(j)
    BY <1>1, <1>2, <1>3, <1>5 DEF Held
  <1>9. \A j \in Live : At(j) = "away"
    BY <1>1, AllAway
  <1>10. \A j \in Live : j # i => At(j)' = "away"
    BY <1>5, <1>6, OthersAwayNext
  <1>11. At(i)' = "reuse" /\ ~svc[i].closed
    BY <1>1, <1>5, <1>6, PlaceNext DEF IInv, CoInv
  <1>12. \A j \in Live :
           \/ At(j)' = At(j) /\ closing'.seen = closing.seen
           \/ /\ At(j) \in {"away", "step", "failed"} /\ At(j)' \in {"away", "close", "reuse"}
              /\ (At(j)' = "reuse" => ~svc[j].closed)
    BY <1>9, <1>10, <1>11
  <1>13. closing' \in ClosingSet
    BY <1>1, <1>2
  <1>14. UNCHANGED <<svc, made, journal, proc, pidFile, req, ext, fault>>
    BY <1>1
  <1> QED
    BY <1>5, <1>7, <1>8, <1>12, <1>13, <1>14, CoMoves

LEMMA CancelWaitingKeeps == ASSUME IInv, CancelWaiting PROVE IInv'
  <1>1. /\ co' = [co EXCEPT !.cancelled = TRUE]
        /\ UNCHANGED <<svc, made, journal, proc, pidFile, req, ext, closing, fault>>
    BY DEF CancelWaiting
  <1>2. Types /\ Live' = Live
    BY <1>1, TypesAre DEF IInv, Live
  <1>3. /\ co' \in CoSet /\ co'.pc = co.pc /\ co'.current = co.current
        /\ co'.residents = co.residents /\ co'.keep = co.keep /\ co'.cleanup = co.cleanup
    BY <1>1, <1>2 DEF Types, CoSet
  <1>4. CoInv' /\ (\A j \in Live : At(j)' = At(j)) /\ (\A j \in Live : Held(j)' <=> Held(j))
    BY <1>1, <1>2, <1>3 DEF IInv, CoInv, At, Held, Whole
  <1>5. /\ closing' \in ClosingSet /\ closing'.seen = closing.seen
        /\ UNCHANGED <<svc, made, journal, proc, pidFile, req, ext, fault>>
    BY <1>1, <1>2 DEF Types
  <1> QED
    BY <1>3, <1>4, <1>5, CoMoves

LEMMA KeepModelsKeeps == ASSUME IInv, KeepModels PROVE IInv'
  <1>1. /\ co' = [co EXCEPT !.keep = TRUE]
        /\ UNCHANGED <<svc, made, journal, proc, pidFile, req, ext, closing, fault>>
    BY DEF KeepModels
  <1>2. Types /\ Live' = Live
    BY <1>1, TypesAre DEF IInv, Live
  <1>3. /\ co' \in CoSet /\ co'.pc = co.pc /\ co'.current = co.current
        /\ co'.residents = co.residents /\ co'.keep /\ co'.cleanup = co.cleanup
    BY <1>1, <1>2 DEF Types, CoSet
  <1>4. CoInv' /\ (\A j \in Live : At(j)' = At(j)) /\ (\A j \in Live : Held(j)' <=> Held(j))
    BY <1>1, <1>2, <1>3 DEF IInv, CoInv, At, Held, Whole
  <1>5. /\ closing' \in ClosingSet /\ closing'.seen = closing.seen
        /\ UNCHANGED <<svc, made, journal, proc, pidFile, req, ext, fault>>
    BY <1>1, <1>2 DEF Types
  <1> QED
    BY <1>3, <1>4, <1>5, CoMoves

\* The residents are to be released, while nothing is in hand.
LEMMA DrainKeeps ==
  ASSUME IInv, co.pc = "idle", NEW why \in {"residents", "off", "drain"}, Drain(why),
         UNCHANGED <<svc, made, journal, proc, pidFile, req, ext, fault>>
  PROVE  IInv'
  <1>1. /\ Types /\ Live' = Live /\ co \in CoSet /\ 0 \in 0..MaxService /\ co.current = 0
    BY TypesAre, ResidenceAssumption DEF IInv, Live, Types, CoInv
  <1> DEFINE cleanup == co.residents # {}
             cancelled == co.cancelled \/ why = "drain"
  <1>2. /\ closing' = [of |-> 0, why |-> why, seen |-> {}]
        /\ co' = [co EXCEPT !.pc = "draining", !.cleanup = cleanup, !.cancelled = cancelled]
    BY DEF Drain
  <1>3. cleanup \in BOOLEAN /\ cancelled \in BOOLEAN /\ (cleanup <=> co.residents # {})
    OBVIOUS
  <1> HIDE DEF cleanup, cancelled
  <1>4. /\ co' \in CoSet /\ co'.pc = "draining" /\ co'.current = 0
        /\ co'.residents = co.residents /\ co'.keep = co.keep
        /\ (co'.cleanup <=> co.residents # {})
    BY <1>1, <1>2, <1>3 DEF CoSet, CoPC
  <1>5. closing' \in ClosingSet /\ closing'.why = why
    BY <1>1, <1>2 DEF ClosingSet, Why
  <1>6. CoInv'
    <2>1. /\ co'.current \in Live' \cup {0} /\ co'.residents \subseteq Live'
          /\ co'.current \notin co'.residents /\ (co'.residents # {} => co'.keep)
      BY <1>1, <1>4 DEF IInv, CoInv
    <2>2. co'.pc \notin HandPC /\ co'.pc \notin ClosePC
      BY <1>4 DEF HandPC, ClosePC, RequestPC, PreparePC, LaunchPC, AbortPC
    <2>3. \A j \in co'.residents : ~svc'[j].closed /\ co'.cleanup
      BY <1>4 DEF IInv, CoInv
    <2> QED
      BY <1>4, <1>5, <2>1, <2>2, <2>3 DEF CoInv
  <1>7. \A j \in Live : (Held(j)' <=> Held(j)) /\ At(j) = "away" /\ At(j)' = "away"
    BY <1>1, <1>4, AllAway, AllAwayNext DEF Held
  <1> QED
    BY <1>4, <1>5, <1>6, <1>7, CoMoves

LEMMA ReleaseResidentsKeeps ==
  ASSUME IInv, NEW why \in {"residents", "off"}, ReleaseResidents(why) PROVE IInv'
  BY DrainKeeps DEF ReleaseResidents

LEMMA ShutdownKeeps == ASSUME IInv, Shutdown PROVE IInv'
  <1>1. /\ co.pc \in {"idle", "step", "failed"}
        /\ UNCHANGED <<svc, made, journal, proc, pidFile, req, ext, fault>>
    BY DEF Shutdown
  <1>2. /\ Types /\ co \in CoSet /\ co.current \in Live \cup {0} /\ TypeOK
    BY TypesAre DEF IInv, Types, CoInv
  <1>3. CASE co.current # 0
    <2>1. /\ closing' = [of |-> co.current, why |-> "stop", seen |-> {}]
          /\ co' = [co EXCEPT !.pc = "close", !.release = TRUE, !.cancelled = TRUE]
      BY <1>3 DEF Shutdown
    <2>2. co.pc \in {"step", "failed"} /\ co.current \in Live
      BY <1>1, <1>2, <1>3 DEF IInv, CoInv
    <2>3. /\ co' \in CoSet /\ co'.pc = "close" /\ co'.current = co.current
          /\ co'.residents = co.residents /\ co'.keep = co.keep /\ co'.cleanup = co.cleanup
      BY <1>2, <2>1 DEF CoSet, CoPC
    <2>4. co.current \in 0..MaxService
      BY <1>2 DEF CoSet
    <2>5. closing' \in ClosingSet /\ closing'.of = co.current /\ closing'.why = "stop"
      BY <2>1, <2>4 DEF ClosingSet, Why
    <2> QED
      BY <1>1, <2>2, <2>3, <2>5, HandIsClosed
  <1>4. CASE co.current = 0
    <2>1. co.pc = "idle"
      BY <1>1, <1>4 DEF IInv, CoInv, HandPC, RequestPC
    <2>2. Drain("drain")
      BY <1>4 DEF Shutdown
    <2> QED
      BY <1>1, <2>1, <2>2, DrainKeeps
  <1> QED
    BY <1>3, <1>4

LEMMA NextResidentKeeps == ASSUME IInv, NextResident PROVE IInv'
  <1>1. /\ co.pc = "draining"
        /\ UNCHANGED <<svc, made, journal, proc, pidFile, req, ext, fault>>
    BY DEF NextResident
  <1>2. /\ Types /\ TypeOK /\ co \in CoSet /\ closing \in ClosingSet /\ co.current = 0 /\ Live' = Live
        /\ co.residents \subseteq Live /\ 0 \notin Live
        /\ closing.why \in {"stop", "residents", "off", "drain"}
    BY <1>1, TypesAre, Numbers DEF IInv, Types, CoInv, Live
  <1>3. \A j \in Live : At(j) = "away"
    BY <1>1, AllAway
  <1>4. ASSUME NEW i \in co.residents,
               StartClose(i, IF closing.why = "stop" THEN "drain" ELSE closing.why)
        PROVE  IInv'
    <2> DEFINE why == IF closing.why = "stop" THEN "drain" ELSE closing.why
    <2>1. why \in {"residents", "off", "drain"} /\ StartClose(i, why) /\ i \in Live
      BY <1>2, <1>4
    <2> HIDE DEF why
    <2>2. /\ co' \in CoSet /\ co'.pc = "close" /\ co'.current = 0
          /\ co'.residents = co.residents /\ co'.keep = co.keep /\ co'.cleanup
          /\ closing' \in ClosingSet /\ closing'.of = i /\ closing'.why = why
      BY <1>2, <2>1, StartCloseCo DEF Why
    <2>3. co'.pc \in ClosePC /\ co'.pc \notin HandPC
      BY <2>2 DEF ClosePC, HandPC, RequestPC, PreparePC, LaunchPC, AbortPC
    <2>4. CoInv'
      <3>1. /\ co'.current \in Live' \cup {0} /\ co'.residents \subseteq Live'
            /\ co'.current \notin co'.residents /\ (co'.residents # {} => co'.keep)
        BY <1>2, <2>2 DEF IInv, CoInv
      <3>2. \A j \in co'.residents : ~svc'[j].closed
        BY <1>1, <2>2 DEF IInv, CoInv
      <3> QED
        BY <2>1, <2>2, <2>3, <3>1, <3>2 DEF CoInv
    <2>5. \A j \in Live : (Held(j)' <=> Held(j))
      BY <1>2, <2>2 DEF Held
    <2>6. \A j \in Live : At(j)' \in {"away", "close"}
      <3>1. At(i)' = "close"
        BY <2>2, <2>3, PlaceNext
      <3>2. \A j \in Live : j # i => At(j)' = "away"
        BY <2>2, <2>3, OthersAwayNext
      <3> QED
        BY <3>1, <3>2
    <2> QED
      BY <1>1, <1>3, <2>2, <2>4, <2>5, <2>6, CoMoves
  <1>5. ASSUME co.residents = {}, closing' = NoClose,
               co' = [co EXCEPT !.cleanup = FALSE, !.keep = @ /\ closing.why # "off",
                 !.pc = IF closing.why \in {"stop", "drain"} THEN "down" ELSE "idle"]
        PROVE  IInv'
    <2> DEFINE pc == IF closing.why \in {"stop", "drain"} THEN "down" ELSE "idle"
               keep == co.keep /\ closing.why # "off"
    <2>1. co' = [co EXCEPT !.cleanup = FALSE, !.keep = keep, !.pc = pc]
      BY <1>5
    <2>2. pc \in {"down", "idle"} /\ keep \in BOOLEAN
      OBVIOUS
    <2> HIDE DEF pc, keep
    <2>3. /\ co' \in CoSet /\ co'.pc \in {"down", "idle"} /\ co'.current = 0
          /\ co'.residents = {}
      BY <1>2, <1>5, <2>1, <2>2 DEF CoSet, CoPC
    <2>4. CoInv'
      BY <1>2, <2>3 DEF CoInv, HandPC, ClosePC, RequestPC, PreparePC, LaunchPC, AbortPC
    <2>5. \A j \in Live : (Held(j)' <=> Held(j)) /\ At(j)' = "away"
      BY <1>2, <1>5, <2>3, AllAwayNext DEF Held
    <2>6. closing' \in ClosingSet
      BY <1>2, <1>5 DEF NoClose, ClosingSet, Why, CoSet
    <2> QED
      BY <1>1, <1>3, <2>3, <2>4, <2>5, <2>6, CoMoves
  <1> QED
    BY <1>4, <1>5 DEF NextResident

\* A model is made: nobody else has its port.
LEMMA NewModelKeeps == ASSUME IInv, NEW c \in Config, NewModel(c) PROVE IInv'
  <1>0. PICK i \in Nat : i = made + 1
    BY Numbers DEF IInv
  <1>1. /\ co.pc = "idle" /\ co.current = 0 /\ ~PortConflict(c)
        /\ (co.keep => c \notin Configured(co.residents)) /\ made < MaxService /\ made' = i
        /\ svc' = [svc EXCEPT ![i].config = c] /\ journal' = [journal EXCEPT ![i].phase = "registered"]
        /\ co' = [co EXCEPT !.pc = "probe", !.current = i, !.reuseFailed = FALSE,
                            !.cancelled = FALSE]
        /\ UNCHANGED <<proc, pidFile, req, ext, closing, fault>>
    BY <1>0 DEF NewModel, StepMayBegin, Works
  <1>2. /\ TypeOK /\ Types /\ made \in Nat /\ MaxService \in Nat
        /\ co.residents \subseteq Live /\ 0 \notin Live
    BY TypesAre, Numbers DEF IInv, CoInv
  <1>3. /\ i \in Service \ Live /\ i # 0 /\ i \in 0..MaxService /\ made' \in 0..MaxService
        /\ Live' = Live \cup {i} /\ Live \subseteq Service /\ Live' \subseteq Service
    BY <1>0, <1>1, <1>2 DEF Live, Service
  <1>4. /\ svc[i] = NewService /\ journal[i] = NewRecord /\ proc[i] = [p \in Proc |-> "none"]
        /\ req[i] = [at |-> "none", by |-> NoInstance, last |-> NoInstance]
    BY <1>3 DEF IInv, HeldInv
  <1>5. /\ svc' \in [Service -> SvcSet] /\ \A j \in Service \ {i} : svc'[j] = svc[j]
        /\ svc'[i].config = c /\ svc'[i].owned = svc[i].owned
        /\ svc'[i].scope = svc[i].scope /\ svc'[i].handle = svc[i].handle
        /\ svc'[i].prepared = svc[i].prepared /\ svc'[i].closed = svc[i].closed
        /\ svc'[i].instance = svc[i].instance /\ svc'[i].pending = svc[i].pending
        /\ svc'[i].members = svc[i].members
    <2>1. svc \in [Service -> SvcSet] /\ svc[i] \in SvcSet
      BY <1>2, <1>3 DEF Types
    <2> QED
      BY <1>1, <1>3, <2>1 DEF SvcSet
  <1>6. /\ journal' \in [Service -> RecordSet] /\ \A j \in Service \ {i} : journal'[j] = journal[j]
        /\ journal'[i].phase = "registered" /\ journal'[i].owned = journal[i].owned
        /\ journal'[i].pending = journal[i].pending /\ journal'[i].members = journal[i].members
    <2>1. journal \in [Service -> RecordSet] /\ journal[i] \in RecordSet
      BY <1>2, <1>3 DEF Types
    <2> QED
      BY <1>1, <1>3, <2>1 DEF RecordSet, Phase
  <1>7. /\ co' \in CoSet /\ co'.pc = "probe" /\ co'.current = i /\ co'.residents = co.residents
        /\ co'.keep = co.keep /\ co'.cleanup = co.cleanup
    BY <1>1, <1>2, <1>3 DEF Types, CoSet, CoPC
  <1>8. co'.pc \in HandPC /\ co'.pc \notin ClosePC
    BY <1>7 DEF HandPC, PreparePC, ClosePC
  <1>9. TypeOK'
    <2>1. Types'
      BY <1>1, <1>2, <1>3, <1>5, <1>6, <1>7 DEF Types
    <2> QED
      BY <2>1, TypesNext
  <1>10. CoInv'
    <2>1. /\ co'.current \in Live' \cup {0} /\ co'.residents \subseteq Live'
          /\ co'.current \notin co'.residents /\ (co'.residents # {} => co'.keep)
      BY <1>2, <1>3, <1>7 DEF IInv, CoInv
    <2>2. \A j \in co'.residents : svc'[j] = svc[j]
      BY <1>2, <1>3, <1>5, <1>7
    <2>3. \A j \in co'.residents : ~svc'[j].closed /\ (~co'.cleanup => Whole(j)')
      BY <1>7, <2>2 DEF IInv, CoInv, Whole
    <2> QED
      BY <1>3, <1>7, <1>8, <2>1, <2>3 DEF CoInv
  <1>11. ServiceInv(i)'
    <2>1. At(i)' = "probe"
      BY <1>7, <1>8, PlaceNext
    <2>2. /\ svc'[i].owned = "none" /\ ~svc'[i].scope /\ ~svc'[i].handle /\ ~svc'[i].prepared
          /\ ~svc'[i].closed /\ svc'[i].instance = NoInstance /\ svc'[i].pending = FALSE
          /\ journal'[i].owned = "none" /\ journal'[i].pending = FALSE
          /\ svc'[i].members = {} /\ journal'[i].members = {}
      BY <1>4, <1>5, <1>6 DEF NewService, NewRecord
    <2>3. \A p \in Proc : proc'[i][p] = "none"
      BY <1>1, <1>4
    <2>4. req'[i] = [at |-> "none", by |-> NoInstance, last |-> NoInstance]
      BY <1>1, <1>4
    <2>5. ProcInv(i)'
      BY <2>1, <2>2, <2>3 DEF ProcInv, Ended
    <2>6. JournalInv(i)'
      BY <1>6, <2>2 DEF JournalInv, LastPhase
    <2>7. InstanceInv(i)'
      BY <2>2 DEF InstanceInv
    <2>8. RequestInv(i)'
      <3>1. req'[i].at = "none" /\ req'[i].by = NoInstance /\ req'[i].last = NoInstance
        BY <2>4
      <3> QED
        BY <2>2, <2>4, <3>1 DEF RequestInv
    <2>9. StageInv(i)'
      BY <2>1, <2>2, <2>3 DEF StageInv, PreparePC, LaunchPC, AbortPC, RequestPC, ClosePC
    <2>10. ListInv(i)'
      BY <2>1, <2>2, <2>3 DEF ListInv, Proc
    <2> QED
      BY <2>5, <2>6, <2>7, <2>8, <2>9, <2>10 DEF ServiceInv
  <1>12. ASSUME NEW j \in Live PROVE ServiceInv(j)'
    <2>1. j # i /\ j \in Service /\ ServiceInv(j)
      BY <1>3 DEF IInv
    <2>2. At(j) = "away" /\ At(j)' = "away"
      BY <1>1, <1>7, <1>8, <2>1, AllAway, OthersAwayNext
    <2>3. /\ svc'[j] = svc[j] /\ journal'[j] = journal[j] /\ proc'[j] = proc[j] /\ req'[j] = req[j]
          /\ ext' = ext
      BY <1>1, <1>5, <1>6, <2>1
    <2> QED
      BY <2>1, <2>2, <2>3, OtherKeeps
  <1>13. HeldInv'
    <2>1. \A j \in Live' : svc'[j].config \in Config /\ (~Held(j)' => svc'[j].closed)
      <3>1. Held(i)' /\ svc'[i].config \in Config
        BY <1>5, <1>7 DEF Held
      <3>2. ASSUME NEW j \in Live
            PROVE  svc'[j].config \in Config /\ (~Held(j)' => svc'[j].closed)
        <4>1. svc'[j] = svc[j] /\ j # 0
          BY <1>2, <1>3, <1>5
        <4>2. Held(j) => Held(j)'
          BY <1>1, <1>7, <4>1 DEF Held
        <4> QED
          BY <4>1, <4>2 DEF IInv, HeldInv
      <3> QED
        BY <1>3, <3>1, <3>2
    <2>2. ASSUME NEW j \in Live', Held(j)', j # i
          PROVE  /\ j \in co.residents /\ j \in Live /\ svc'[j] = svc[j]
                 /\ PortOfService(j) # PortOf[c]
      <3>1. j \in co.residents /\ j \in Live /\ svc'[j] = svc[j]
        BY <1>2, <1>3, <1>5, <1>7, <2>2 DEF Held
      <3>2. co.keep
        BY <3>1 DEF IInv, CoInv
      <3>3. svc[j].config \in Configured(co.residents)
        BY <3>1 DEF Configured
      <3>4. PortOf[c] \notin {PortOf[d] : d \in Configured(co.residents)}
        BY <1>1, <3>2 DEF PortConflict
      <3>5. PortOf[svc[j].config] # PortOf[c]
        BY <3>3, <3>4
      <3> QED
        BY <3>1, <3>5 DEF PortOfService
    <2>3. \A j, k \in Live' : Held(j)' /\ Held(k)' /\ j # k => PortOfService(j)' # PortOfService(k)'
      <3> SUFFICES ASSUME NEW j \in Live', NEW k \in Live', Held(j)', Held(k)', j # k
                   PROVE  PortOf[svc'[j].config] # PortOf[svc'[k].config]
        BY DEF PortOfService
      <3>1. CASE j = i
        BY <1>5, <2>2, <3>1 DEF PortOfService
      <3>2. CASE k = i
        BY <1>5, <2>2, <3>2 DEF PortOfService
      <3>3. CASE j # i /\ k # i
        <4>1. /\ j \in co.residents /\ k \in co.residents /\ j \in Live /\ k \in Live
              /\ svc'[j] = svc[j] /\ svc'[k] = svc[k]
          BY <2>2, <3>3
        <4> QED
          BY <4>1 DEF IInv, HeldInv, Held, PortOfService
      <3> QED
        BY <3>1, <3>2, <3>3
    <2>4. ASSUME NEW j \in Service \ Live'
          PROVE  /\ svc'[j] = NewService /\ journal'[j] = NewRecord
                 /\ proc'[j] = [p \in Proc |-> "none"]
                 /\ req'[j] = [at |-> "none", by |-> NoInstance, last |-> NoInstance]
      <3>1. j \in Service \ Live /\ j # i
        BY <1>3
      <3> QED
        BY <1>1, <1>5, <1>6, <3>1 DEF IInv, HeldInv
    <2> QED
      BY <2>1, <2>3, <2>4 DEF HeldInv
  <1> QED
    BY <1>3, <1>9, <1>10, <1>11, <1>12, <1>13 DEF IInv

-----------------------------------------------------------------------------
(* The processes, the servers of others, and the end of the runner.         *)

\* The processes of one service move by themselves.
LEMMA WorldKeeps ==
  ASSUME IInv, NEW i \in Live, UNCHANGED <<svc, made, journal, pidFile, ext, co, closing, fault>>,
         proc' \in [Service -> [Proc -> ProcState]], req' \in [Service -> ReqSet],
         \A j \in Service \ {i} : proc'[j] = proc[j] /\ req'[j] = req[j],
         At(i)' = At(i) => ServiceInv(i)'
  PROVE  IInv'
  <1>1. Types /\ Live' = Live /\ Live \subseteq Service
    BY TypesAre, Numbers DEF IInv, Live
  <1>2. \A j \in Live : At(j)' = At(j)
    BY DEF At
  <1>3. TypeOK'
    <2>1. Types'
      BY <1>1 DEF Types
    <2> QED
      BY <2>1, TypesNext
  <1>4. \A j \in Live : ServiceInv(j)'
    <2> SUFFICES ASSUME NEW j \in Live, j # i PROVE ServiceInv(j)'
      BY <1>2
    <2>1. ServiceInv(j) /\ proc'[j] = proc[j] /\ req'[j] = req[j]
      BY <1>1 DEF IInv
    <2> QED
      BY <1>2, <2>1, OtherKeeps
  <1>5. CoInv'
    BY <1>1 DEF IInv, CoInv, Whole
  <1>6. HeldInv'
    BY <1>1 DEF IInv, HeldInv, Held, PortOfService
  <1> QED
    BY <1>1, <1>3, <1>4, <1>5, <1>6 DEF IInv

\* A process of a service is in the given state.
LEMMA ProcMoves ==
  ASSUME TypeOK, NEW i \in Service, NEW p \in Proc, NEW state \in ProcState,
         proc' = [proc EXCEPT ![i][p] = state]
  PROVE  /\ proc' \in [Service -> [Proc -> ProcState]] /\ proc'[i][p] = state
         /\ \A q \in Proc : q # p => proc'[i][q] = proc[i][q]
         /\ \A j \in Service \ {i} : proc'[j] = proc[j]
  <1>1. proc \in [Service -> [Proc -> ProcState]] /\ proc[i] \in [Proc -> ProcState]
    BY DEF TypeOK
  <1> DEFINE f == [proc[i] EXCEPT ![p] = state]
  <1>2. f \in [Proc -> ProcState] /\ f[p] = state /\ \A q \in Proc : q # p => f[q] = proc[i][q]
    BY <1>1
  <1>3. proc' = [proc EXCEPT ![i] = f]
    OBVIOUS
  <1> HIDE DEF f
  <1> QED
    BY <1>1, <1>2, <1>3

\* What is known of a live service.
LEMMA AliveIs ==
  ASSUME IInv, NEW i \in Live
  PROVE  /\ TypeOK /\ Types /\ ServiceInv(i) /\ i \in Service /\ svc[i] \in SvcSet
         /\ proc[i] \in [Proc -> ProcState] /\ req \in [Service -> ReqSet] /\ req[i] \in ReqSet
  <1>1. TypeOK /\ Types /\ ServiceInv(i) /\ i \in Service
    BY TypesAre, Numbers DEF IInv
  <1> QED
    BY <1>1 DEF Types

LEMMA SpawnServerKeeps == ASSUME IInv, NEW i \in Live, SpawnServer(i) PROVE IInv'
  <1>1. /\ proc[i]["launcher"] = "job" /\ proc[i]["server"] = "none"
        /\ proc' = [proc EXCEPT ![i]["server"] = "job"]
        /\ UNCHANGED <<svc, made, journal, pidFile, req, ext, co, closing, fault>>
    BY DEF SpawnServer
  <1>2. /\ TypeOK /\ Types /\ ServiceInv(i) /\ i \in Service /\ req \in [Service -> ReqSet]
        /\ svc[i] \in SvcSet
    BY AliveIs
  <1>3. "job" \in ProcState /\ "server" \in Proc
    BY DEF ProcState, AliveState, InJobState, Proc
  <1>4. /\ proc' \in [Service -> [Proc -> ProcState]] /\ proc'[i]["server"] = "job"
        /\ proc'[i]["launcher"] = "job"
        /\ \A j \in Service \ {i} : proc'[j] = proc[j]
    BY <1>1, <1>2, <1>3, ProcMoves DEF Proc
  <1>5. /\ svc[i].owned = "owned" /\ svc[i].scope /\ svc[i].instance = NoInstance /\ ~svc[i].prepared
        /\ At(i) \notin {"crashed", "handle", "finish"}
    <2>1. ~Ended(i) /\ InJob(i) # {}
      BY <1>1 DEF Ended, InJob, Proc, InJobState
    <2>2. svc[i].owned = "owned" /\ svc[i].scope /\ At(i) \notin {"crashed", "handle", "finish"}
      BY <1>1, <1>2, <2>1 DEF ServiceInv, ProcInv, Proc
    <2>3. svc[i].instance = NoInstance
      BY <1>1, <1>2, <2>2 DEF ServiceInv, InstanceInv
    <2> QED
      BY <1>2, <2>2, <2>3 DEF ServiceInv, JournalInv
  <1>6. ASSUME At(i)' = At(i) PROVE ServiceInv(i)'
    <2>1. \A p \in Proc : proc'[i][p] \notin {"none", "dying", "dropped", "out"}
      BY <1>4 DEF Proc
    <2>2. ProcInv(i)'
      BY <1>1, <1>2, <1>5, <1>6, <2>1 DEF ServiceInv, ProcInv
    <2>3. JournalInv(i)'
      BY <1>1, <1>2, <1>5 DEF ServiceInv, JournalInv, LastPhase
    <2>4. InstanceInv(i)'
      BY <1>1, <1>5 DEF InstanceInv
    <2>5. RequestInv(i)'
      BY <1>1, <1>2, <1>5 DEF ServiceInv, RequestInv
    <2>6. StageInv(i)'
      BY <1>1, <1>2, <1>4, <1>6, <2>1 DEF ServiceInv, StageInv
    <2>7. ListInv(i)'
      <3>1. "server" \notin svc[i].members /\ "server" \notin journal[i].members
        BY <1>1, <1>2 DEF ServiceInv, ListInv, Proc
      <3>2. At(i)' \in {"abort", "kill"} =>
              \A p \in Proc : proc'[i][p] \in InJobState /\ p \notin closing'.seen =>
                p = "server" /\ p \notin svc'[i].members /\ p \notin journal'[i].members
        <4> SUFFICES ASSUME At(i)' \in {"abort", "kill"}, NEW p \in Proc, p \notin closing.seen
                     PROVE  p = "server"
          BY <1>1, <3>1
        <4>1. p # "launcher"
          BY <1>1, <1>2, <1>6 DEF ServiceInv, ListInv, InJobState
        <4> QED
          BY <4>1 DEF Proc
      <3> QED
        BY <1>4, <2>1, <3>2 DEF ListInv
    <2> QED
      BY <2>2, <2>3, <2>4, <2>5, <2>6, <2>7 DEF ServiceInv
  <1>7. UNCHANGED <<svc, made, journal, pidFile, req, ext, co, closing, fault>>
    BY <1>1
  <1> QED
    BY <1>2, <1>4, <1>6, <1>7, WorldKeeps

LEMMA ListensKeeps == ASSUME IInv, NEW i \in Live, Listens(i) PROVE IInv'
  <1>1. /\ proc[i]["server"] = "job"
        /\ proc' = [proc EXCEPT ![i]["server"] = "serving"]
        /\ UNCHANGED <<svc, made, journal, pidFile, req, ext, co, closing, fault>>
    BY DEF Listens
  <1>2. /\ TypeOK /\ Types /\ ServiceInv(i) /\ i \in Service /\ req \in [Service -> ReqSet]
        /\ svc[i] \in SvcSet
    BY AliveIs
  <1>3. "serving" \in ProcState /\ "server" \in Proc
    BY DEF ProcState, AliveState, InJobState, Proc
  <1>4. /\ proc' \in [Service -> [Proc -> ProcState]] /\ proc'[i]["server"] = "serving"
        /\ proc'[i]["launcher"] = proc[i]["launcher"]
        /\ \A j \in Service \ {i} : proc'[j] = proc[j]
    BY <1>1, <1>2, <1>3, ProcMoves DEF Proc
  <1>5. /\ svc[i].owned = "owned" /\ svc[i].scope /\ svc[i].instance = NoInstance /\ ~svc[i].prepared
        /\ At(i) \notin {"crashed", "handle", "finish"}
    <2>1. ~Ended(i) /\ InJob(i) # {}
      BY <1>1 DEF Ended, InJob, Proc, InJobState
    <2>2. svc[i].owned = "owned" /\ svc[i].scope /\ At(i) \notin {"crashed", "handle", "finish"}
      BY <1>1, <1>2, <2>1 DEF ServiceInv, ProcInv, Proc
    <2>3. svc[i].instance = NoInstance
      BY <1>1, <1>2, <2>2 DEF ServiceInv, InstanceInv
    <2> QED
      BY <1>2, <2>2, <2>3 DEF ServiceInv, JournalInv
  <1>6. ASSUME At(i)' = At(i) PROVE ServiceInv(i)'
    <2>1. \A p \in Proc : proc'[i][p] \in {"dying", "dropped", "out"} => proc'[i][p] = proc[i][p]
      BY <1>4 DEF Proc
    <2>0. \A p \in Proc : /\ proc'[i][p] = "none" => proc[i][p] = "none"
                          /\ proc'[i][p] \in InJobState => proc[i][p] \in InJobState
      BY <1>1, <1>4 DEF Proc, InJobState
    <2>2. ProcInv(i)'
      BY <1>1, <1>2, <1>5, <1>6, <2>1 DEF ServiceInv, ProcInv
    <2>3. JournalInv(i)'
      BY <1>1, <1>2, <1>5 DEF ServiceInv, JournalInv, LastPhase
    <2>4. InstanceInv(i)'
      BY <1>1, <1>5 DEF InstanceInv
    <2>5. RequestInv(i)'
      BY <1>1, <1>2, <1>5 DEF ServiceInv, RequestInv
    <2>6. StageInv(i)'
      BY <1>1, <1>2, <1>4, <1>6, <2>1 DEF ServiceInv, StageInv
    <2>7. ListInv(i)'
      BY <1>1, <1>2, <1>4, <1>6, <2>0 DEF ServiceInv, ListInv
    <2> QED
      BY <2>2, <2>3, <2>4, <2>5, <2>6, <2>7 DEF ServiceInv
  <1>7. UNCHANGED <<svc, made, journal, pidFile, req, ext, co, closing, fault>>
    BY <1>1
  <1> QED
    BY <1>2, <1>4, <1>6, <1>7, WorldKeeps

LEMMA EndsKeeps == ASSUME IInv, NEW i \in Live, NEW p \in Proc, Ends(i, p) PROVE IInv'
  <1>1. /\ proc[i][p] \in {"job", "serving", "dying", "dropped"}
        /\ proc' = [proc EXCEPT ![i][p] = "gone"]
        /\ UNCHANGED <<svc, made, journal, pidFile, req, ext, co, closing, fault>>
    BY DEF Ends
  <1>2. /\ TypeOK /\ Types /\ ServiceInv(i) /\ i \in Service /\ req \in [Service -> ReqSet]
    BY AliveIs
  <1>3. "gone" \in ProcState
    BY DEF ProcState
  <1>4. /\ proc' \in [Service -> [Proc -> ProcState]] /\ proc'[i][p] = "gone"
        /\ \A q \in Proc : q # p => proc'[i][q] = proc[i][q]
        /\ \A j \in Service \ {i} : proc'[j] = proc[j]
    BY <1>1, <1>2, <1>3, ProcMoves
  <1>5. ASSUME At(i)' = At(i) PROVE ServiceInv(i)'
    <2>1. \A q \in Proc : proc'[i][q] = proc[i][q] \/ proc'[i][q] = "gone"
      BY <1>4
    <2>2. ProcInv(i)'
      <3>1. Ended(i) => Ended(i)'
        BY <1>1, <2>1 DEF Ended
      <3>2. (\A q \in Proc : proc[i][q] = "none") => \A q \in Proc : proc'[i][q] = "none"
        BY <1>1
      <3>3. InJob(i) = {} => InJob(i)' = {}
        BY <2>1 DEF InJob, InJobState
      <3> QED
        BY <1>1, <1>2, <1>5, <2>1, <3>1, <3>2, <3>3 DEF ServiceInv, ProcInv
    <2>3. JournalInv(i)'
      BY <1>1, <1>2, <2>1 DEF ServiceInv, JournalInv, LastPhase
    <2>4. InstanceInv(i)'
      <3>1. proc'[i]["server"] = proc[i]["server"] \/ proc'[i]["server"] = "gone"
        BY <2>1 DEF Proc
      <3> QED
        BY <1>1, <1>2, <3>1 DEF ServiceInv, InstanceInv, PortOfService
    <2>5. RequestInv(i)'
      <3>1. proc'[i]["server"] = proc[i]["server"] \/ proc'[i]["server"] = "gone"
        BY <2>1 DEF Proc
      <3>2. Past(i) => Past(i)'
        BY <1>1, <3>1 DEF Past, PortOfService
      <3> QED
        BY <1>1, <1>2, <3>2 DEF ServiceInv, RequestInv
    <2>6. StageInv(i)'
      BY <1>1, <1>2, <1>5, <2>1 DEF ServiceInv, StageInv, Proc
    <2>7. ListInv(i)'
      BY <1>1, <1>2, <1>5, <2>1 DEF ServiceInv, ListInv, InJobState, Proc
    <2> QED
      BY <2>2, <2>3, <2>4, <2>5, <2>6, <2>7 DEF ServiceInv
  <1>6. UNCHANGED <<svc, made, journal, pidFile, req, ext, co, closing, fault>>
    BY <1>1
  <1> QED
    BY <1>2, <1>4, <1>5, <1>6, WorldKeeps

LEMMA ServesKeeps == ASSUME IInv, NEW i \in Live, Serves(i) PROVE IInv'
  <1>1. /\ req[i].at \in {"sent", "computing"}
        /\ UNCHANGED <<svc, made, journal, proc, pidFile, ext, co, closing, fault>>
        /\ \/ req' = [req EXCEPT ![i].at = "computing"]
           \/ req' = [req EXCEPT ![i].at = "answered"]
    BY DEF Serves, Active
  <1>2. /\ TypeOK /\ Types /\ ServiceInv(i) /\ i \in Service /\ req \in [Service -> ReqSet]
        /\ req[i] \in ReqSet
    BY AliveIs
  <1>3. /\ req' \in [Service -> ReqSet] /\ req'[i].by = req[i].by /\ req'[i].last = req[i].last
        /\ \A j \in Service \ {i} : req'[j] = req[j]
    BY <1>1, <1>2 DEF ReqSet
  <1>4. ASSUME At(i)' = At(i) PROVE ServiceInv(i)'
    <2>1. svc[i].prepared /\ (svc[i].owned = "external" => svc[i].pending)
      BY <1>1, <1>2 DEF ServiceInv, RequestInv
    <2>2. RequestInv(i)'
      BY <1>1, <1>2, <1>3, <2>1 DEF ServiceInv, RequestInv, Past, PortOfService
    <2>3. ProcInv(i)' /\ ListInv(i)' /\ StageInv(i)' /\ JournalInv(i)' /\ InstanceInv(i)'
      BY <1>1, <1>2, <1>4
         DEF ServiceInv, ProcInv, ListInv, StageInv, JournalInv, InstanceInv, Ended, InJob,
           LastPhase,
             PortOfService
    <2> QED
      BY <2>2, <2>3 DEF ServiceInv
  <1>5. UNCHANGED <<svc, made, journal, pidFile, ext, co, closing, fault>> /\ proc' = proc
    BY <1>1
  <1>6. proc' \in [Service -> [Proc -> ProcState]]
    BY <1>1, <1>2 DEF Types
  <1> QED
    BY <1>3, <1>4, <1>5, <1>6, WorldKeeps

\* The servers of others: those that are gone do not come back.
LEMMA ExternalsKeep ==
  ASSUME IInv, UNCHANGED <<svc, made, journal, proc, pidFile, req, co, closing, fault>>,
         ext' \in [Port -> [n : 0..MaxExternal, up : BOOLEAN]],
         \A p \in Port : ext[p].n <= ext'[p].n
  PROVE  IInv'
  <1>1. Types /\ Live' = Live
    BY TypesAre DEF IInv, Live
  <1>2. TypeOK'
    <2>1. Types'
      BY <1>1 DEF Types
    <2> QED
      BY <2>1, TypesNext
  <1>3. CoInv' /\ HeldInv'
    BY <1>1 DEF IInv, CoInv, HeldInv, Held, Whole, PortOfService
  <1>4. ASSUME NEW i \in Live PROVE ServiceInv(i)'
    <2> DEFINE P == PortOfService(i)
    <2>1. ServiceInv(i) /\ P \in Port /\ P' = P /\ At(i)' = At(i)
      BY HasPort DEF IInv, PortOfService, At
    <2>2. ext[P].n \in Nat /\ ext'[P].n \in Nat /\ ext[P].n <= ext'[P].n
      <3>1. ext[P] \in [n : 0..MaxExternal, up : BOOLEAN] /\ ext'[P] \in [n : 0..MaxExternal, up : BOOLEAN]
        BY <1>1, <2>1 DEF Types
      <3> QED
        BY <2>1, <3>1
    <2>3. InstanceInv(i)'
      <3>1. CASE svc[i].owned = "external" /\ \E n \in 0 .. ext[P].n : svc[i].instance = <<"ext", n>>
        <4>1. PICK n \in 0 .. ext[P].n : svc[i].instance = <<"ext", n>>
          BY <3>1
        <4>2. n \in 0 .. ext'[P].n
          BY <2>2
        <4> QED
          BY <2>1, <3>1, <4>1, <4>2 DEF InstanceInv
      <3> QED
        BY <2>1, <3>1 DEF ServiceInv, InstanceInv
    <2>4. RequestInv(i)'
      <3>1. Past(i) => Past(i)'
        <4> SUFFICES ASSUME Past(i) PROVE Past(i)'
          OBVIOUS
        <4>1. CASE svc[i].instance[1] = "own" /\ proc[i]["server"] \in {"dying", "gone"}
          BY <4>1 DEF Past
        <4>2. CASE svc[i].instance[1] = "ext" /\ svc[i].instance[2] < ext[P].n
          <5>1. svc[i].owned = "external" /\ svc[i].instance # NoInstance
            BY <2>1, <4>2 DEF ServiceInv, InstanceInv, NoInstance
          <5>2. PICK n \in 0 .. ext[P].n : svc[i].instance = <<"ext", n>>
            BY <2>1, <5>1 DEF ServiceInv, InstanceInv
          <5>3. n < ext[P].n
            BY <4>2, <5>2
          <5>4. n < ext'[P].n
            BY <2>2, <5>3
          <5> QED
            BY <2>1, <4>2, <5>2, <5>4 DEF Past
        <4> QED
          BY <4>1, <4>2 DEF Past
      <3> QED
        BY <2>1, <3>1 DEF ServiceInv, RequestInv
    <2>5. ProcInv(i)' /\ ListInv(i)' /\ StageInv(i)' /\ JournalInv(i)'
      BY <2>1 DEF ServiceInv, ProcInv, ListInv, StageInv, JournalInv, Ended, InJob, LastPhase
    <2> QED
      BY <2>3, <2>4, <2>5 DEF ServiceInv
  <1> QED
    BY <1>1, <1>2, <1>3, <1>4 DEF IInv

LEMMA ExternalStartsKeeps == ASSUME IInv, NEW p \in Port, ExternalStarts(p) PROVE IInv'
  <1>1. /\ ext[p].n < MaxExternal /\ ext' = [ext EXCEPT ![p] = [n |-> ext[p].n + 1, up |-> TRUE]]
        /\ UNCHANGED <<svc, made, journal, proc, pidFile, req, co, closing, fault>>
    BY TypesAre DEF ExternalStarts, IInv, Types
  <1>2. ext \in [Port -> [n : 0..MaxExternal, up : BOOLEAN]] /\ MaxExternal \in Nat
    BY TypesAre, ResidenceAssumption DEF IInv, Types
  <1> DEFINE e == [n |-> ext[p].n + 1, up |-> TRUE]
  <1>3. ext[p].n \in 0..MaxExternal
    BY <1>2
  <1>4. e \in [n : 0..MaxExternal, up : BOOLEAN] /\ ext[p].n <= e.n
    BY <1>1, <1>2, <1>3
  <1>5. ext' = [ext EXCEPT ![p] = e]
    BY <1>1
  <1> HIDE DEF e
  <1>6. ext' \in [Port -> [n : 0..MaxExternal, up : BOOLEAN]]
    BY <1>2, <1>4, <1>5
  <1>7. \A q \in Port : ext[q].n <= ext'[q].n
    <2> SUFFICES ASSUME NEW q \in Port PROVE ext[q].n <= ext'[q].n
      OBVIOUS
    <2>1. CASE q = p
      BY <1>2, <1>4, <1>5, <2>1
    <2>2. CASE q # p
      <3>1. ext'[q] = ext[q] /\ ext[q].n \in 0..MaxExternal
        BY <1>2, <1>5, <2>2
      <3> QED
        BY <1>2, <3>1
    <2> QED
      BY <2>1, <2>2
  <1>8. UNCHANGED <<svc, made, journal, proc, pidFile, req, co, closing, fault>>
    BY <1>1
  <1> QED
    BY <1>6, <1>7, <1>8, ExternalsKeep

LEMMA ExternalStopsKeeps == ASSUME IInv, NEW p \in Port, ExternalStops(p) PROVE IInv'
  <1>1. /\ ext' = [ext EXCEPT ![p].up = FALSE]
        /\ UNCHANGED <<svc, made, journal, proc, pidFile, req, co, closing, fault>>
    BY DEF ExternalStops
  <1>2. ext \in [Port -> [n : 0..MaxExternal, up : BOOLEAN]] /\ MaxExternal \in Nat
    BY TypesAre, ResidenceAssumption DEF IInv, Types
  <1>3. /\ ext' \in [Port -> [n : 0..MaxExternal, up : BOOLEAN]]
        /\ \A q \in Port : ext'[q].n = ext[q].n
    BY <1>1, <1>2
  <1>4. \A q \in Port : ext[q].n <= ext'[q].n
    <2> SUFFICES ASSUME NEW q \in Port PROVE ext[q].n <= ext'[q].n
      OBVIOUS
    <2>1. ext'[q].n = ext[q].n /\ ext[q].n \in 0..MaxExternal
      BY <1>2, <1>3
    <2> QED
      BY <1>2, <2>1
  <1>5. UNCHANGED <<svc, made, journal, proc, pidFile, req, co, closing, fault>>
    BY <1>1
  <1> QED
    BY <1>3, <1>4, <1>5, ExternalsKeep

\* The runner dies at any point, and the kernel ends its Jobs.
LEMMA CrashKeeps == ASSUME IInv, Crash PROVE IInv'
  <1>1. /\ proc' = [i \in Service |-> Terminated(i)[i]] /\ Goto("crashed")
        /\ UNCHANGED <<svc, made, journal, pidFile, req, ext, closing, fault>>
    BY DEF Crash
  <1>2. Types /\ TypeOK /\ Live' = Live /\ Live \subseteq Service
    BY <1>1, TypesAre, Numbers DEF IInv, Live
  <1>3. /\ co' \in CoSet /\ co'.pc = "crashed" /\ co'.current = co.current
        /\ co'.residents = co.residents /\ co'.keep = co.keep /\ co'.cleanup = co.cleanup
    BY <1>1, <1>2, GotoCo DEF CoPC
  <1>4. ASSUME NEW i \in Service
        PROVE  /\ proc'[i] \in [Proc -> ProcState] /\ proc'[i] = Terminated(i)[i]
               /\ \A p \in Proc : proc'[i][p] =
                    (IF proc[i][p] \in InJobState THEN "dying" ELSE proc[i][p])
    <2>1. proc'[i] = Terminated(i)[i]
      BY <1>1
    <2> QED
      BY <1>2, <2>1, TerminatedIs
  <1>5. TypeOK'
    <2>1. proc' \in [Service -> [Proc -> ProcState]]
      BY <1>1, <1>4
    <2>2. Types'
      BY <1>1, <1>2, <1>3, <2>1 DEF Types
    <2> QED
      BY <2>2, TypesNext
  <1>6. CoInv'
    <2>1. co'.pc \notin HandPC /\ co'.pc \notin ClosePC /\ co'.pc \notin {"idle", "draining", "down"}
      BY <1>3 DEF HandPC, ClosePC, RequestPC, PreparePC, LaunchPC, AbortPC
    <2> QED
      BY <1>1, <1>2, <1>3, <2>1 DEF IInv, CoInv, Whole
  <1>7. HeldInv'
    <2>1. ASSUME NEW j \in Service \ Live PROVE proc'[j] = [p \in Proc |-> "none"]
      <3>1. proc[j] = [p \in Proc |-> "none"]
        BY DEF IInv, HeldInv
      <3>2. \A p \in Proc : proc'[j][p] = "none"
        BY <1>4, <3>1 DEF InJobState
      <3>3. proc'[j] \in [Proc -> ProcState]
        BY <1>4
      <3> QED
        BY <3>2, <3>3
    <2>2. \A j \in Live : (Held(j)' <=> Held(j)) /\ PortOfService(j)' = PortOfService(j)
      BY <1>1, <1>3 DEF Held, PortOfService
    <2> QED
      BY <1>1, <1>2, <2>1, <2>2 DEF IInv, HeldInv
  <1>8. ASSUME NEW i \in Live PROVE ServiceInv(i)'
    <2>1. ServiceInv(i) /\ i \in Service
      BY <1>2 DEF IInv
    <2>2. At(i)' = "crashed"
      BY <1>3 DEF At
    <2>3. \A p \in Proc : proc'[i][p] = (IF proc[i][p] \in InJobState THEN "dying" ELSE proc[i][p])
      BY <1>4, <2>1
    <2>4. ProcInv(i)'
      <3>1. Ended(i) => Ended(i)'
        BY <1>1, <2>3 DEF Ended, InJobState
      <3>2. (\A p \in Proc : proc[i][p] = "none") => \A p \in Proc : proc'[i][p] = "none"
        BY <2>3 DEF InJobState
      <3>3. InJob(i)' = {}
        BY <2>3 DEF InJob, InJobState
      <3>4. \A p \in Proc : proc'[i][p] = "out" => p = "launcher" /\ journal[i].phase = "launch_starting"
        BY <2>1, <2>3 DEF ServiceInv, ProcInv
      <3> QED
        BY <1>1, <2>1, <2>2, <3>1, <3>2, <3>3, <3>4 DEF ServiceInv, ProcInv
    <2>5. JournalInv(i)'
      <3>1. \A p \in Proc :
              /\ proc'[i][p] \notin {"none", "gone"} => proc[i][p] \notin {"none", "gone"}
              /\ proc'[i][p] = "dropped" => proc[i][p] = "dropped"
        BY <2>3 DEF InJobState
      <3> QED
        BY <1>1, <2>1, <3>1 DEF ServiceInv, JournalInv, LastPhase
    <2>6. /\ proc[i]["server"] \in {"serving", "dying", "gone"} =>
               proc'[i]["server"] \in {"serving", "dying", "gone"}
          /\ proc[i]["server"] \in {"dying", "gone"} => proc'[i]["server"] \in {"dying", "gone"}
      BY <2>3 DEF Proc, InJobState
    <2>7. InstanceInv(i)'
      BY <1>1, <2>1, <2>6 DEF ServiceInv, InstanceInv, PortOfService
    <2>8. RequestInv(i)'
      <3>1. Past(i) => Past(i)'
        BY <1>1, <2>6 DEF Past, PortOfService
      <3> QED
        BY <1>1, <2>1, <3>1 DEF ServiceInv, RequestInv
    <2>9. StageInv(i)'
      BY <1>1, <2>1, <2>2 DEF ServiceInv, StageInv, PreparePC, LaunchPC, AbortPC, RequestPC,
        ClosePC
    <2>10. ListInv(i)'
      <3>1. \A p \in Proc : proc'[i][p] \in {"none", "dropped"} => proc[i][p] = proc'[i][p]
        BY <2>3 DEF InJobState
      <3> QED
        BY <1>1, <2>1, <2>2, <3>1 DEF ServiceInv, ListInv, Proc
    <2> QED
      BY <2>4, <2>5, <2>7, <2>8, <2>9, <2>10 DEF ServiceInv
  <1> QED
    BY <1>2, <1>5, <1>6, <1>7, <1>8 DEF IInv

-----------------------------------------------------------------------------
(* Every step keeps the invariant.                                          *)

LEMMA InitInv == Init => IInv
  <1> SUFFICES ASSUME Init PROVE IInv
    OBVIOUS
  <1>1. MaxService \in Nat /\ MaxExternal \in Nat /\ MaxFault \in Nat
    BY ResidenceAssumption
  <1>2. Live = {}
    BY DEF Init, Live
  <1>3. NoInstance \in Instance
    BY <1>1 DEF NoInstance, Instance
  <1>4. NewService \in SvcSet /\ NewRecord \in RecordSet
    BY <1>3 DEF NewService, NewRecord, SvcSet, RecordSet, Phase
  <1>5. Types
    <2>1. /\ svc \in [Service -> SvcSet] /\ journal \in [Service -> RecordSet]
          /\ made \in 0..MaxService /\ pidFile \in [Service -> Instance \cup {Launcher}]
          /\ ext \in [Port -> [n : 0..MaxExternal, up : BOOLEAN]] /\ fault \in 0..MaxFault
      BY <1>1, <1>3, <1>4 DEF Init
    <2>2. proc \in [Service -> [Proc -> ProcState]]
      BY DEF Init, ProcState
    <2>3. req \in [Service -> ReqSet]
      BY <1>3 DEF Init, ReqSet
    <2>4. co \in CoSet
      BY <1>1 DEF Init, CoSet, CoPC
    <2>5. closing \in ClosingSet
      BY <1>1 DEF Init, NoClose, ClosingSet, Why
    <2> QED
      BY <2>1, <2>2, <2>3, <2>4, <2>5 DEF Types
  <1>6. TypeOK
    BY <1>5, TypesAre
  <1>7. co.pc = "idle" /\ co.current = 0 /\ co.residents = {}
    BY DEF Init
  <1>8. CoInv
    BY <1>2, <1>7 DEF CoInv, HandPC, ClosePC, RequestPC, PreparePC, LaunchPC, AbortPC
  <1>9. HeldInv
    BY <1>2 DEF HeldInv, Init
  <1> QED
    BY <1>2, <1>6, <1>8, <1>9 DEF IInv

LEMMA PrepareKeeps == ASSUME IInv, NEW i \in Live, Prepare(i) PROVE IInv'
  BY AdoptKeeps, IntendKeeps, CreateJobKeeps, CreateSuspendedKeeps, AssignKeeps,
     RecordAndResumeKeeps, ResumeKeeps, WritePidKeeps, LaunchFailsKeeps, AbortJobKeeps,
     AbortObservedKeeps, LookAtListenerKeeps, ConfirmKeeps, PrepareStopsKeeps, ReuseKeeps DEF Prepare

LEMMA AskKeeps == ASSUME IInv, NEW i \in Live, Ask(i) PROVE IInv'
  BY BeginKeeps, SendKeeps, AnsweredKeeps, GivesUpKeeps DEF Ask

LEMMA CloseKeeps == ASSUME IInv, NEW i \in Live, Close(i) PROVE IInv'
  BY CloseRequestKeeps, CloseBeginsKeeps, ScanJobKeeps, ListJobKeeps, TerminateJobKeeps,
     ObserveCleanupKeeps, CloseHandleKeeps, FinishRequestKeeps, FinishCloseKeeps DEF Close

LEMMA StutterKeeps == ASSUME IInv, UNCHANGED vars PROVE IInv'
  <1>1. UNCHANGED <<svc, made, journal, proc, pidFile, req, ext, co, closing, fault>>
    BY DEF vars
  <1>2. Types /\ Live' = Live
    BY <1>1, TypesAre DEF IInv, Live
  <1>3. co' \in CoSet /\ closing' \in ClosingSet
    BY <1>1, <1>2 DEF Types
  <1>4. CoInv' /\ \A j \in Live : (Held(j)' <=> Held(j)) /\ At(j)' = At(j)
    BY <1>1, <1>2 DEF IInv, CoInv, Whole, Held, At
  <1> QED
    BY <1>1, <1>3, <1>4, CoMoves

LEMMA NextKeeps == ASSUME IInv, [Next]_vars PROVE IInv'
  <1>1. ASSUME NEW c \in Config, NewModel(c) PROVE IInv'
    BY <1>1, NewModelKeeps
  <1>2. ASSUME NEW i \in Live,
               \/ Prepare(i) \/ Ask(i) \/ Close(i) \/ TakeResident(i)
               \/ \E force \in BOOLEAN : Release(i, force)
        PROVE  IInv'
    BY <1>2, PrepareKeeps, AskKeeps, CloseKeeps, TakeResidentKeeps, ReleaseKeeps
  <1>3. ASSUME \/ CancelWaiting \/ KeepModels \/ NextResident \/ Shutdown
               \/ \E why \in {"residents", "off"} : ReleaseResidents(why)
        PROVE  IInv'
    BY <1>3, CancelWaitingKeeps, KeepModelsKeeps, NextResidentKeeps, ShutdownKeeps,
       ReleaseResidentsKeeps
  <1>4. ASSUME World PROVE IInv'
    BY <1>4, SpawnServerKeeps, ListensKeeps, ServesKeeps, EndsKeeps, ExternalStartsKeeps,
       ExternalStopsKeeps DEF World
  <1> QED
    BY <1>1, <1>2, <1>3, <1>4, CrashKeeps, StutterKeeps DEF Next

\* What is behind all of it: whoever is not answered for is closed, whoever is
\* answered for has its port to itself, and the journal is never ahead of what
\* is so (model_service.py, single_step_coordinator.py, session_resources.py).
THEOREM Invariance == Spec => []IInv
  <1>1. Init => IInv
    BY InitInv
  <1>2. IInv /\ [Next]_vars => IInv'
    BY NextKeeps
  <1> QED
    BY <1>1, <1>2, PTL DEF Spec

-----------------------------------------------------------------------------
(* What follows from it.                                                    *)

LEMMA ClosedIsClean ==
  ASSUME IInv, NEW i \in Live, svc[i].closed
  PROVE  Clean(i)
  <1>1. ServiceInv(i) /\ i \in Service /\ svc[i] \in SvcSet
    BY AliveIs
  <1>2. ~svc[i].scope /\ ~svc[i].handle /\ ~svc[i].pending /\ Ended(i)
    BY <1>1 DEF ServiceInv, StageInv, ProcInv
  <1>3. ASSUME Active(i) PROVE svc[i].owned = "owned" /\ req[i].by # svc[i].instance
    <2>1. /\ req[i].at \in {"sent", "computing"}
          /\ Listener(PortOfService(i)) = req[i].by
      BY <1>3 DEF Active
    <2>2. svc[i].prepared /\ svc[i].owned # "external"
      BY <1>1, <1>2, <2>1 DEF ServiceInv, RequestInv
    <2>3. svc[i].owned = "owned" /\ svc[i].instance = <<"own", i>>
      BY <1>1, <2>2 DEF ServiceInv, JournalInv, InstanceInv
    <2>4. ASSUME req[i].by = <<"own", i>> PROVE FALSE
      <3> DEFINE P == PortOfService(i)
                 j == CHOOSE k \in Serving(P) : TRUE
      <3>1. CASE Serving(P) # {}
        <4>1. j \in Serving(P) /\ Listener(P) = <<"own", j>>
          BY <3>1 DEF Listener
        <4> HIDE DEF j
        <4>2. j = i
          BY <2>1, <2>4, <4>1
        <4> QED
          BY <1>2, <4>1, <4>2 DEF Serving, Ended, Proc
      <3>2. CASE Serving(P) = {}
        <4>1. Listener(P) = <<"ext", ext[P].n>> \/ Listener(P) = <<"none", 0>>
          BY <3>2 DEF Listener, NoInstance
        <4> QED
          BY <2>1, <2>4, <4>1
      <3> QED
        BY <3>1, <3>2
    <2> QED
      BY <2>3, <2>4
  <1>4. Present(i) = {}
    BY <1>2 DEF Present, Leftover, Ended
  <1>5. ASSUME LastPhase(i) = "ready" PROVE Leftover(i) = {}
    <2>1. \A p \in Proc : proc[i][p] \notin {"none", "gone"} =>
            proc[i][p] # "dropped" /\ p \in journal[i].members
      BY <1>1, <1>5 DEF ServiceInv, JournalInv
    <2> QED
      BY <2>1 DEF Leftover
  <1> QED
    BY <1>2, <1>3, <1>4, <1>5 DEF Clean

\* A service that was closed, or that the coordinator no longer holds, left no
\* process that runs or that a list names, no Job handle and no request behind
\* it, whatever failed on the way, and wherever a server was started between the
\* listing of its Job and the end of it (model_service.py close,
\* _release_model_service, windows_process_scope.py observe_process_scope_cleanup).
THEOREM NothingLeaksHolds == Spec => []NothingLeaks
  <1>1. IInv => NothingLeaks
    <2> SUFFICES ASSUME IInv, NEW i \in Live,
                        svc[i].closed \/ i \notin co.residents \cup {co.current}
                 PROVE  Clean(i)
      BY DEF NothingLeaks
    <2>1. svc[i].closed
      BY DEF IInv, HeldInv, Held
    <2> QED
      BY <2>1, ClosedIsClean
  <1> QED
    BY <1>1, Invariance, PTL

\* A port belongs to one model, whether it serves, is kept between steps or is
\* still ending and known to be; what this session started is never adopted, and a
\* resident is whole (_prepare_model_service_on_owner, _create_runtime_on_owner).
THEOREM PortsAreKeptHolds == Spec => []PortsAreKept
  <1>1. IInv => PortsAreKept
    <2> SUFFICES ASSUME IInv PROVE PortsAreKept
      OBVIOUS
    <2>1. OneModelPerPort
      <3> SUFFICES ASSUME NEW i \in Live, NEW j \in Live, i # j, PortOfService(i) = PortOfService(j),
                          Present(i) # {}, Present(j) # {}
                   PROVE  FALSE
        BY DEF OneModelPerPort
      <3>1. ~Ended(i) /\ ~Ended(j)
        BY DEF Ended, Present, Leftover
      <3>2. Held(i) /\ Held(j)
        BY <3>1, RunningIsHeld
      <3> QED
        BY <3>2 DEF IInv, HeldInv
    <2>2. NotAdopted
      <3> SUFFICES ASSUME NEW i \in Live, svc[i].owned = "external" PROVE svc[i].instance[1] # "own"
        BY DEF NotAdopted
      <3>1. InstanceInv(i)
        BY AliveIs DEF ServiceInv
      <3>2. \/ svc[i].instance = <<"none", 0>>
            \/ \E n \in 0 .. ext[PortOfService(i)].n : svc[i].instance = <<"ext", n>>
        BY <3>1 DEF InstanceInv, NoInstance
      <3> QED
        BY <3>2
    <2>3. ResidentsAreWhole
      BY DEF IInv, CoInv, ResidentsAreWhole, Whole
    <2> QED
      BY <2>1, <2>2, <2>3 DEF PortsAreKept, IInv
  <1> QED
    BY <1>1, Invariance, PTL

\* After a crash at any point the journal vouches for no process that can still
\* run, for none that is still ending once the service was ready, and for no open
\* request at a server that lives on, and an answer that was used came from the instance that was prepared
\* (session_resource_recovery.py, local_provider.py).
THEOREM NothingIsVouchedFalselyHolds == Spec => []NothingIsVouchedFalsely
  <1>1. IInv => NothingIsVouchedFalsely
    <2> SUFFICES ASSUME IInv PROVE NothingIsVouchedFalsely
      OBVIOUS
    <2>1. VerifiedIsTrue
      <3> SUFFICES ASSUME co.pc = "crashed", NEW i \in Live, Verified(i)
                   PROVE  /\ \A p \in Proc : proc[i][p] \notin AliveState
                          /\ LastPhase(i) = "ready" => (\A p \in Proc : proc[i][p] \in {"none", "gone"})
                          /\ svc[i].owned = "external" => ~Active(i)
        BY DEF VerifiedIsTrue
      <3>1. /\ ProcInv(i) /\ JournalInv(i) /\ InstanceInv(i) /\ RequestInv(i)
            /\ At(i) = "crashed"
        BY AliveIs DEF ServiceInv, At
      <3>2. /\ ~(journal[i].pending /\ journal[i].owned = "external")
            /\ \/ LastPhase(i) = "registered" \/ journal[i].owned = "external"
               \/ /\ LastPhase(i) \notin {"scope_starting", "launch_starting"}
                  /\ Remain(i, journal[i].members) = {}
        BY DEF Verified, Incomplete
      <3>3. \A p \in Proc : proc[i][p] \notin AliveState
        <4> SUFFICES ASSUME NEW p \in Proc, proc[i][p] = "out" PROVE FALSE
          BY <3>1 DEF ProcInv, InJob, AliveState
        <4>1. journal[i].phase = "launch_starting"
          BY <3>1 DEF ProcInv
        <4>2. journal[i].owned = "owned" /\ LastPhase(i) = "launch_starting"
          BY <3>1, <4>1 DEF JournalInv, LastPhase
        <4> QED
          BY <3>2, <4>2
      <3>4. ASSUME LastPhase(i) = "ready", NEW p \in Proc, proc[i][p] \notin {"none", "gone"}
            PROVE  FALSE
        <4>1. p \in journal[i].members /\ journal[i].owned = svc[i].owned
          BY <3>1, <3>4 DEF JournalInv
        <4>2. svc[i].owned = "owned"
          BY <3>1, <3>4 DEF ProcInv
        <4>3. p \in Remain(i, journal[i].members)
          BY <3>4, <4>1 DEF Remain
        <4> QED
          BY <3>2, <3>4, <4>1, <4>2, <4>3
      <3>5. ASSUME svc[i].owned = "external", Active(i) PROVE FALSE
        <4>1. req[i].at \in {"sent", "computing"}
          BY <3>5 DEF Active
        <4>2. svc[i].prepared /\ svc[i].pending
          BY <3>1, <3>5, <4>1 DEF RequestInv
        <4>3. journal[i].owned = "external" /\ journal[i].pending
          BY <3>1, <3>5, <4>2 DEF JournalInv
        <4> QED
          BY <3>2, <4>3
      <3> QED
        BY <3>3, <3>4, <3>5
    <2>2. AnswerIsFromInstance
      BY AliveIs DEF AnswerIsFromInstance, ServiceInv, RequestInv
    <2> QED
      BY <2>1, <2>2 DEF NothingIsVouchedFalsely
  <1> QED
    BY <1>1, Invariance, PTL
=============================================================================
