---------------------------- MODULE OwnerProofs ----------------------------
(***************************************************************************)
(* Proofs about three things that have one owner at a time:                *)
(* InstantHttpOwner, who may call the Runtime, for any number of requests  *)
(* in flight, sessions and commands; SerialRuntimeOwner, on which thread   *)
(* its native calls run, for any finite set of calls and any set of        *)
(* closing threads; and Clipboard, which a typed text borrows, for any set *)
(* of copies by others and any number of calls that fail.                  *)
(*                                                                         *)
(* The argument for the first: the two transition flags and the calls in   *)
(* flight exclude one another (Exclusive), which rests on the count of     *)
(* POSTs being right (PostsAreCounted).  While a DELETE holds its flag no  *)
(* POST can change the Runtime, so what status said stays true until the   *)
(* owner is released (DeleteProtected); and an SDK session other than the  *)
(* owner's always has the handshake that will close it                     *)
(* (OrphanHasHandshake).                                                   *)
(*                                                                         *)
(* For the second: the marker is in the queue exactly while a closed owner *)
(* has not reached it (MarkerInv), so a thread that took it leaves an      *)
(* empty queue behind (ThreadInv), and nobody who returned from close can  *)
(* still find a call that waits (CloserInv).                               *)
(*                                                                         *)
(* For the third: a sequence number the transaction trusts is never ahead  *)
(* of the clipboard's, and where the two agree the clipboard holds what    *)
(* the transaction believes (VersionInv).  A copy by somebody else moves   *)
(* the clipboard's number past every number the transaction has, for good. *)
(***************************************************************************)
EXTENDS InstantHttpOwner, SerialRuntimeOwner, Clipboard, FiniteSetTheorems, SequenceTheorems, TLAPS

(***************************************************************************)
(* InstantHttpOwner.                                                       *)
(***************************************************************************)
\* Types, without the upper bound on the count.
TypeInv ==
  /\ owner \in Session \cup {NoSession}
  /\ initializing \in BOOLEAN
  /\ deleting \in BOOLEAN
  /\ activePosts \in Int
  /\ req \in [Request -> Handler]
  /\ sdk \subseteq Session
  /\ issued \subseteq Session
  /\ rt \in Runtime

\* A handshake, a DELETE and the owner's calls exclude one another.
Exclusive ==
  /\ \A r, q \in Request : req[r].pc \in InitialPC /\ req[q].pc \in InitialPC => r = q
  /\ \A r, q \in Request : req[r].pc \in DeletePC /\ req[q].pc \in DeletePC => r = q
  /\ \A r \in Request : req[r].pc \in InitialPC => initializing
  /\ \A r \in Request : req[r].pc \in DeletePC => deleting
  /\ ~(initializing /\ deleting)
  /\ \A r \in Request : req[r].pc \in PostPC =>
       req[r].sid = owner /\ owner # NoSession /\ ~deleting /\ ~initializing

\* What a handshake knows of the owner and of its own session.
HandshakeInv ==
  \A r \in Request :
    /\ req[r].pc \in {"init", "answered", "discard"} => ~req[r].settled /\ owner = NoSession
    /\ req[r].pc = "init" => req[r].sid = NoSession
    /\ req[r].pc \in {"answered", "discard"} => req[r].sid # NoSession
    /\ req[r].pc = "idle" => req[r] = Idle
    /\ req[r].pc \in {"finally", "last", "stuck"} /\ ~req[r].settled => owner = NoSession
    /\ req[r].pc = "reply" => req[r].settled

\* A DELETE works on the owner, and past the check on a Runtime at rest.
DeleteProtected ==
  \A r \in Request :
    /\ req[r].pc \in {"status", "native", "release"} =>
         req[r].sid = owner /\ owner # NoSession
    /\ req[r].pc \in {"native", "release"} => Cleaned
    /\ req[r].pc = "release" => owner \notin sdk

\* An SDK session other than the owner's belongs to the handshake in progress.
OrphanHasHandshake ==
  \A s \in sdk : s = owner \/ \E r \in Request :
    req[r].pc \in {"answered", "discard", "finally", "stuck"} /\ req[r].sid = s /\ ~req[r].settled

\* The host's side: the close command comes with the marker, and the host
\* leaves its loop only with an empty queue.
QueueInv ==
  rt.own => /\ Close \in rt.pending => rt.closing
            /\ rt.host \in {"cleaning", "clean"} => rt.closing /\ rt.pending = {}

IInv == TypeInv /\ PostsAreCounted /\ Exclusive /\ HandshakeInv /\ DeleteProtected
        /\ OrphanHasHandshake /\ QueueInv

-----------------------------------------------------------------------------
\* The cases of a step.
LEMMA NextCases ==
  ASSUME [Next]_vars
  PROVE  \/ UNCHANGED vars
         \/ HostCleans \/ HostLost
         \/ \E c \in Command \cup {Close} : HostAnswers(c)
         \/ \E r \in Request :
              \/ \E s \in Session : SdkGrants(r, s) \/ SdkGrantsAndRaises(r, s)
              \/ SdkRefuses(r) \/ CommitOwner(r) \/ RejectAnswer(r)
              \/ Discard(r) \/ DiscardFails(r) \/ Reply(r)
              \/ LastDiscard(r) \/ LastDiscardFails(r) \/ EndInitialize(r)
              \/ DeleteChecks(r) \/ SdkDeletes(r) \/ SdkDeleteFails(r)
              \/ ReleaseOwner(r) \/ EndDelete(r)
              \/ CallStart(r) \/ CallStop(r) \/ CallOther(r) \/ EndPost(r)
              \/ \E c \in Command : CallSubmit(r, c)
              \/ AdmitInitialize(r)
              \/ \E s \in Session : AdmitPost(r, s) \/ AdmitGet(r, s) \/ AdmitDelete(r, s)
              \/ EndGet(r)
  BY DEF Next, HostStep, Handles, Calls, Arrives

USE DEF InitialPC, PostPC, DeletePC, At, Goto

\* A POST that is not counted yet.
LEMMA CountUp ==
  ASSUME PostsAreCounted, NEW r \in Request, r \notin Active,
         Active' = Active \cup {r}, activePosts' = activePosts + 1
  PROVE  PostsAreCounted'
  <1>1. IsFiniteSet(Active)
    BY FS_Subset, RequestAssumption DEF Active
  <1>2. Cardinality(Active \cup {r}) = Cardinality(Active) + 1
    BY <1>1, FS_AddElement
  <1> QED
    BY <1>2 DEF PostsAreCounted

\* A POST that ends.
LEMMA CountDown ==
  ASSUME PostsAreCounted, NEW r \in Request, r \in Active,
         Active' = Active \ {r}, activePosts' = activePosts - 1
  PROVE  PostsAreCounted'
  <1>1. IsFiniteSet(Active)
    BY FS_Subset, RequestAssumption DEF Active
  <1>2. Cardinality(Active \ {r}) = Cardinality(Active) - 1
    BY <1>1, FS_RemoveElement
  <1> QED
    BY <1>2 DEF PostsAreCounted

\* A count of zero means that no POST is in flight.
LEMMA NoneCounted ==
  ASSUME PostsAreCounted, activePosts = 0
  PROVE  Active = {}
  <1>1. IsFiniteSet(Active)
    BY FS_Subset, RequestAssumption DEF Active
  <1> QED
    BY <1>1, FS_EmptySet DEF PostsAreCounted

-----------------------------------------------------------------------------
\* A step keeps the types.
LEMMA TypeStep ==
  ASSUME TypeInv, [Next]_vars
  PROVE  TypeInv'
  <1> USE DEF TypeInv
  <1>1. CASE UNCHANGED vars
    BY <1>1 DEF vars
  <1>2. CASE HostCleans \/ HostLost \/ \E c \in Command \cup {Close} : HostAnswers(c)
    <2>1. CASE HostCleans
      BY <2>1 DEF HostCleans, HostUnchanged, Runtime
    <2>2. CASE HostLost
      BY <2>2 DEF HostLost, HostUnchanged, Runtime
    <2>3. ASSUME NEW c \in Command \cup {Close}, HostAnswers(c)
          PROVE  TypeInv'
      <3>1. rt.pending \ {c} \in SUBSET (Command \cup {Close})
        BY DEF Runtime
      <3>2. rt' \in Runtime
        BY <2>3, <3>1 DEF HostAnswers, Runtime
      <3> QED
        BY <2>3, <3>2 DEF HostAnswers, HostUnchanged
    <2> QED
      BY <1>2, <2>1, <2>2, <2>3
  <1>3. ASSUME NEW r \in Request, NEW s \in Session,
               SdkGrants(r, s) \/ SdkGrantsAndRaises(r, s)
               \/ AdmitPost(r, s) \/ AdmitGet(r, s) \/ AdmitDelete(r, s)
        PROVE  TypeInv'
    <2>1. req' \in [Request -> Handler]
      BY <1>3 DEF SdkGrants, SdkGrantsAndRaises, AdmitPost, AdmitGet, AdmitDelete, Handler
    <2>2. sdk' \subseteq Session /\ issued' \subseteq Session /\ activePosts' \in Int
      BY <1>3 DEF SdkGrants, SdkGrantsAndRaises, AdmitPost, AdmitGet, AdmitDelete
    <2>3. owner' = owner /\ initializing' = initializing /\ rt' = rt /\ deleting' \in BOOLEAN
      BY <1>3 DEF SdkGrants, SdkGrantsAndRaises, AdmitPost, AdmitGet, AdmitDelete
    <2> QED
      BY <2>1, <2>2, <2>3
  <1>4. ASSUME NEW r \in Request,
               SdkRefuses(r) \/ CommitOwner(r) \/ RejectAnswer(r) \/ Discard(r) \/ DiscardFails(r)
               \/ Reply(r) \/ LastDiscard(r) \/ LastDiscardFails(r)
        PROVE  TypeInv'
    BY <1>4 DEF SdkRefuses, CommitOwner, RejectAnswer, Discard, DiscardFails, Reply,
                LastDiscard, LastDiscardFails, Handler
  <1>5. ASSUME NEW r \in Request,
               EndInitialize(r) \/ EndPost(r) \/ EndGet(r) \/ EndDelete(r) \/ AdmitInitialize(r)
        PROVE  TypeInv'
    <2>1. req' \in [Request -> Handler]
      <3>1. Idle \in Handler
        BY DEF Idle, Handler
      <3>2. CASE AdmitInitialize(r)
        BY <3>2 DEF AdmitInitialize, Handler
      <3>3. CASE ~AdmitInitialize(r)
        BY <1>5, <3>1, <3>3 DEF EndInitialize, EndPost, EndGet, EndDelete
      <3> QED
        BY <3>2, <3>3
    <2>2. activePosts' \in Int
      BY <1>5 DEF EndInitialize, EndPost, EndGet, EndDelete, AdmitInitialize
    <2>3. initializing' \in BOOLEAN /\ deleting' \in BOOLEAN
      BY <1>5 DEF EndInitialize, EndPost, EndGet, EndDelete, AdmitInitialize
    <2>4. UNCHANGED <<owner, sdk, issued, rt>>
      BY <1>5 DEF EndInitialize, EndPost, EndGet, EndDelete, AdmitInitialize
    <2> QED
      BY <2>1, <2>2, <2>3, <2>4
  <1>6. ASSUME NEW r \in Request,
               DeleteChecks(r) \/ SdkDeletes(r) \/ SdkDeleteFails(r) \/ ReleaseOwner(r)
        PROVE  TypeInv'
    BY <1>6 DEF DeleteChecks, SdkDeletes, SdkDeleteFails, ReleaseOwner, Handler
  <1>7. ASSUME NEW r \in Request,
               CallStart(r) \/ CallStop(r) \/ CallOther(r)
               \/ \E c \in Command : CallSubmit(r, c)
        PROVE  TypeInv'
    <2>1. req' \in [Request -> Handler]
      BY <1>7 DEF CallStart, CallStop, CallOther, CallSubmit, Called, Handler
    <2>2. rt' \in Runtime
      <3>1. CASE CallStart(r)
        <4>1. Launched \subseteq Runtime /\ Attached \subseteq Runtime
          <5>1. ASSUME NEW h \in {"alive", "lost"}
                PROVE  [attempted |-> TRUE, own |-> TRUE, host |-> h, pending |-> {},
                        closing |-> FALSE] \in Runtime
            BY DEF Runtime
          <5>2. ASSUME NEW h \in {"cleaning", "clean", "lost"},
                       NEW p \in SUBSET (Command \cup {Close})
                PROVE  [attempted |-> TRUE, own |-> FALSE, host |-> h, pending |-> p,
                        closing |-> Close \in p] \in Runtime
            <6>1. (Close \in p) \in BOOLEAN
              OBVIOUS
            <6> QED
              BY <6>1, Zenon DEF Runtime
          <5>3. Launched \subseteq Runtime
            BY <5>1 DEF Launched
          <5>4. ASSUME NEW x \in Attached PROVE x \in Runtime
            <6>1. PICK h \in {"cleaning", "clean", "lost"}, p \in SUBSET (Command \cup {Close}) :
                    x = [attempted |-> TRUE, own |-> FALSE, host |-> h, pending |-> p,
                         closing |-> Close \in p]
              BY DEF Attached
            <6> QED
              BY <5>2, <6>1
          <5> QED
            BY <5>3, <5>4
        <4>2. [rt EXCEPT !.attempted = TRUE] \in Runtime
          BY DEF Runtime
        <4> QED
          BY <3>1, <4>1, <4>2 DEF CallStart
      <3>2. CASE CallStop(r)
        <4>1. rt.pending \cup {Close} \in SUBSET (Command \cup {Close})
          BY DEF Runtime
        <4> QED
          BY <3>2, <4>1 DEF CallStop, Runtime
      <3>3. CASE CallOther(r)
        BY <3>3 DEF CallOther
      <3>4. CASE \E c \in Command : CallSubmit(r, c)
        BY <3>4 DEF CallSubmit, Runtime
      <3> QED
        BY <1>7, <3>1, <3>2, <3>3, <3>4
    <2> QED
      BY <1>7, <2>1, <2>2 DEF CallStart, CallStop, CallOther, CallSubmit
  <1> QED
    BY <1>1, <1>2, <1>3, <1>4, <1>5, <1>6, <1>7, NextCases

\* A step keeps the count.
LEMMA CountStep ==
  ASSUME TypeInv, PostsAreCounted, [Next]_vars
  PROVE  PostsAreCounted'
  <1>1. ASSUME NEW r \in Request,
               AdmitInitialize(r) \/ \E s \in Session : AdmitPost(r, s)
        PROVE  PostsAreCounted'
    <2>1. r \notin Active
      BY <1>1 DEF AdmitInitialize, AdmitPost, Active
    <2>2. Active' = Active \cup {r}
      BY <1>1 DEF AdmitInitialize, AdmitPost, Active, TypeInv, Handler
    <2>3. activePosts' = activePosts + 1
      BY <1>1 DEF AdmitInitialize, AdmitPost
    <2> QED
      BY <2>1, <2>2, <2>3, CountUp
  <1>2. ASSUME NEW r \in Request, EndInitialize(r) \/ EndPost(r)
        PROVE  PostsAreCounted'
    <2>1. r \in Active
      BY <1>2 DEF EndInitialize, EndPost, Active
    <2>2. Active' = Active \ {r}
      BY <1>2 DEF EndInitialize, EndPost, Active, TypeInv, Handler, Idle
    <2>3. activePosts' = activePosts - 1
      BY <1>2 DEF EndInitialize, EndPost
    <2> QED
      BY <2>1, <2>2, <2>3, CountDown
  <1>3. ASSUME Active' = Active, activePosts' = activePosts
        PROVE  PostsAreCounted'
    BY <1>3 DEF PostsAreCounted
  <1>4. CASE UNCHANGED vars
    BY <1>3, <1>4 DEF vars, Active
  <1>5. CASE HostCleans \/ HostLost \/ \E c \in Command \cup {Close} : HostAnswers(c)
    BY <1>3, <1>5 DEF HostCleans, HostLost, HostAnswers, HostUnchanged, Active
  <1>6. ASSUME NEW r \in Request, NEW s \in Session,
               SdkGrants(r, s) \/ SdkGrantsAndRaises(r, s) \/ AdmitGet(r, s) \/ AdmitDelete(r, s)
        PROVE  PostsAreCounted'
    <2>1. Active' = Active
      BY <1>6 DEF SdkGrants, SdkGrantsAndRaises, AdmitGet, AdmitDelete, Active, TypeInv, Handler
    <2>2. activePosts' = activePosts
      BY <1>6 DEF SdkGrants, SdkGrantsAndRaises, AdmitGet, AdmitDelete
    <2> QED
      BY <1>3, <2>1, <2>2
  <1>7. ASSUME NEW r \in Request,
               SdkRefuses(r) \/ CommitOwner(r) \/ RejectAnswer(r) \/ Discard(r) \/ DiscardFails(r)
               \/ Reply(r) \/ LastDiscard(r) \/ LastDiscardFails(r)
        PROVE  PostsAreCounted'
    <2>1. Active' = Active
      BY <1>7 DEF SdkRefuses, CommitOwner, RejectAnswer, Discard, DiscardFails, Reply,
                  LastDiscard, LastDiscardFails, Active, TypeInv, Handler
    <2>2. activePosts' = activePosts
      BY <1>7 DEF SdkRefuses, CommitOwner, RejectAnswer, Discard, DiscardFails, Reply,
                  LastDiscard, LastDiscardFails
    <2> QED
      BY <1>3, <2>1, <2>2
  <1>8. ASSUME NEW r \in Request,
               DeleteChecks(r) \/ SdkDeletes(r) \/ SdkDeleteFails(r) \/ ReleaseOwner(r)
               \/ EndDelete(r) \/ EndGet(r)
        PROVE  PostsAreCounted'
    <2>1. Active' = Active
      BY <1>8 DEF DeleteChecks, SdkDeletes, SdkDeleteFails, ReleaseOwner, EndDelete, EndGet,
                  Active, TypeInv, Handler, Idle
    <2>2. activePosts' = activePosts
      BY <1>8 DEF DeleteChecks, SdkDeletes, SdkDeleteFails, ReleaseOwner, EndDelete, EndGet
    <2> QED
      BY <1>3, <2>1, <2>2
  <1>9. ASSUME NEW r \in Request,
               CallStart(r) \/ CallStop(r) \/ CallOther(r) \/ \E c \in Command : CallSubmit(r, c)
        PROVE  PostsAreCounted'
    <2>1. Active' = Active
      BY <1>9 DEF CallStart, CallStop, CallOther, CallSubmit, Called, Active, TypeInv, Handler
    <2>2. activePosts' = activePosts
      BY <1>9 DEF CallStart, CallStop, CallOther, CallSubmit
    <2> QED
      BY <1>3, <2>1, <2>2
  <1> QED
    BY <1>1, <1>2, <1>4, <1>5, <1>6, <1>7, <1>8, <1>9, NextCases

-----------------------------------------------------------------------------
\* A step keeps the exclusion.
LEMMA ExclusiveStep ==
  ASSUME TypeInv, PostsAreCounted, Exclusive, HandshakeInv, DeleteProtected, [Next]_vars
  PROVE  Exclusive'
  <1>1. activePosts = 0 => Active = {}
    BY NoneCounted
  <1>2. CASE UNCHANGED vars
    BY <1>2 DEF vars, Exclusive, TypeInv, Handler, HandshakeInv, DeleteProtected
  <1>3. CASE HostCleans \/ HostLost \/ \E c \in Command \cup {Close} : HostAnswers(c)
    <2>1. HostUnchanged
      BY <1>3 DEF HostCleans, HostLost, HostAnswers
    <2> QED
      BY <2>1 DEF HostUnchanged, Exclusive, TypeInv, Handler, HandshakeInv, DeleteProtected
  <1>4. ASSUME NEW r \in Request, NEW s \in Session, SdkGrants(r, s) PROVE Exclusive'
    BY <1>4 DEF SdkGrants, Exclusive, TypeInv, Handler, HandshakeInv, DeleteProtected
  <1>5. ASSUME NEW r \in Request, NEW s \in Session, SdkGrantsAndRaises(r, s) PROVE Exclusive'
    BY <1>5 DEF SdkGrantsAndRaises, Exclusive, TypeInv, Handler, HandshakeInv,
           DeleteProtected
  <1>6. ASSUME NEW r \in Request, NEW s \in Session, AdmitPost(r, s) PROVE Exclusive'
    BY <1>6, SessionAssumption DEF AdmitPost, OwnerAccepts, Exclusive, TypeInv, Handler,
           HandshakeInv, DeleteProtected
  <1>7. ASSUME NEW r \in Request, NEW s \in Session, AdmitGet(r, s) PROVE Exclusive'
    BY <1>7 DEF AdmitGet, Exclusive, TypeInv, Handler, HandshakeInv, DeleteProtected
  <1>8. ASSUME NEW r \in Request, NEW s \in Session, AdmitDelete(r, s) PROVE Exclusive'
    BY <1>8, <1>1 DEF AdmitDelete, Active, OwnerAccepts, Exclusive, TypeInv, Handler,
           HandshakeInv, DeleteProtected
  <1>9. ASSUME NEW r \in Request, SdkRefuses(r) PROVE Exclusive'
    BY <1>9 DEF SdkRefuses, Exclusive, TypeInv, Handler, HandshakeInv, DeleteProtected
  <1>10. ASSUME NEW r \in Request, CommitOwner(r) PROVE Exclusive'
    BY <1>10, SessionAssumption DEF CommitOwner, Exclusive, TypeInv, Handler, HandshakeInv,
           DeleteProtected
  <1>11. ASSUME NEW r \in Request, RejectAnswer(r) PROVE Exclusive'
    BY <1>11 DEF RejectAnswer, Exclusive, TypeInv, Handler, HandshakeInv, DeleteProtected
  <1>12. ASSUME NEW r \in Request, Discard(r) PROVE Exclusive'
    BY <1>12 DEF Discard, Exclusive, TypeInv, Handler, HandshakeInv, DeleteProtected
  <1>13. ASSUME NEW r \in Request, DiscardFails(r) PROVE Exclusive'
    BY <1>13 DEF DiscardFails, Exclusive, TypeInv, Handler, HandshakeInv, DeleteProtected
  <1>14. ASSUME NEW r \in Request, Reply(r) PROVE Exclusive'
    BY <1>14 DEF Reply, Exclusive, TypeInv, Handler, HandshakeInv, DeleteProtected
  <1>15. ASSUME NEW r \in Request, LastDiscard(r) PROVE Exclusive'
    BY <1>15 DEF LastDiscard, Exclusive, TypeInv, Handler, HandshakeInv, DeleteProtected
  <1>16. ASSUME NEW r \in Request, LastDiscardFails(r) PROVE Exclusive'
    BY <1>16 DEF LastDiscardFails, Exclusive, TypeInv, Handler, HandshakeInv,
           DeleteProtected
  <1>17. ASSUME NEW r \in Request, EndInitialize(r) PROVE Exclusive'
    BY <1>17 DEF EndInitialize, Idle, Exclusive, TypeInv, Handler, HandshakeInv,
           DeleteProtected
  <1>18. ASSUME NEW r \in Request, DeleteChecks(r) PROVE Exclusive'
    BY <1>18 DEF DeleteChecks, Exclusive, TypeInv, Handler, HandshakeInv, DeleteProtected
  <1>19. ASSUME NEW r \in Request, SdkDeletes(r) PROVE Exclusive'
    BY <1>19 DEF SdkDeletes, Exclusive, TypeInv, Handler, HandshakeInv, DeleteProtected
  <1>20. ASSUME NEW r \in Request, SdkDeleteFails(r) PROVE Exclusive'
    BY <1>20 DEF SdkDeleteFails, Exclusive, TypeInv, Handler, HandshakeInv, DeleteProtected
  <1>21. ASSUME NEW r \in Request, ReleaseOwner(r) PROVE Exclusive'
    BY <1>21 DEF ReleaseOwner, Exclusive, TypeInv, Handler, HandshakeInv, DeleteProtected
  <1>22. ASSUME NEW r \in Request, EndDelete(r) PROVE Exclusive'
    BY <1>22 DEF EndDelete, Idle, Exclusive, TypeInv, Handler, HandshakeInv, DeleteProtected
  <1>23. ASSUME NEW r \in Request, CallStart(r) PROVE Exclusive'
    BY <1>23 DEF CallStart, Called, Exclusive, TypeInv, Handler, HandshakeInv,
           DeleteProtected
  <1>24. ASSUME NEW r \in Request, CallStop(r) PROVE Exclusive'
    BY <1>24 DEF CallStop, Called, Exclusive, TypeInv, Handler, HandshakeInv,
           DeleteProtected
  <1>25. ASSUME NEW r \in Request, CallOther(r) PROVE Exclusive'
    BY <1>25 DEF CallOther, Called, Exclusive, TypeInv, Handler, HandshakeInv,
           DeleteProtected
  <1>26. ASSUME NEW r \in Request, EndPost(r) PROVE Exclusive'
    BY <1>26 DEF EndPost, Idle, Exclusive, TypeInv, Handler, HandshakeInv, DeleteProtected
  <1>27. ASSUME NEW r \in Request, EndGet(r) PROVE Exclusive'
    BY <1>27 DEF EndGet, Idle, Exclusive, TypeInv, Handler, HandshakeInv, DeleteProtected
  <1>28. ASSUME NEW r \in Request, AdmitInitialize(r) PROVE Exclusive'
    BY <1>28 DEF AdmitInitialize, Exclusive, TypeInv, Handler, HandshakeInv, DeleteProtected
  <1>29. ASSUME NEW r \in Request, NEW c \in Command, CallSubmit(r, c) PROVE Exclusive'
    BY <1>29 DEF CallSubmit, Called, Exclusive, TypeInv, Handler, HandshakeInv,
           DeleteProtected
  <1> QED
    BY <1>1, <1>2, <1>3, <1>4, <1>5, <1>6, <1>7, <1>8, <1>9, <1>10, <1>11, <1>12, <1>13,
       <1>14, <1>15, <1>16, <1>17, <1>18, <1>19, <1>20, <1>21, <1>22, <1>23, <1>24, <1>25,
       <1>26, <1>27, <1>28, <1>29, NextCases

\* A step keeps what a handshake knows.
LEMMA HandshakeStep ==
  ASSUME TypeInv, Exclusive, HandshakeInv, DeleteProtected, [Next]_vars
  PROVE  HandshakeInv'
  <1>1. CASE UNCHANGED vars
    BY <1>1 DEF vars, HandshakeInv, Exclusive, DeleteProtected, TypeInv, Handler
  <1>2. CASE HostCleans \/ HostLost \/ \E c \in Command \cup {Close} : HostAnswers(c)
    <2>1. HostUnchanged
      BY <1>2 DEF HostCleans, HostLost, HostAnswers
    <2> QED
      BY <2>1 DEF HostUnchanged, HandshakeInv, Exclusive, DeleteProtected, TypeInv, Handler
  <1>3. ASSUME NEW r \in Request, NEW s \in Session, SdkGrants(r, s) PROVE HandshakeInv'
    BY <1>3, SessionAssumption DEF SdkGrants, HandshakeInv, Exclusive, DeleteProtected,
           TypeInv, Handler
  <1>4. ASSUME NEW r \in Request, NEW s \in Session, SdkGrantsAndRaises(r, s) PROVE HandshakeInv'
    BY <1>4, SessionAssumption DEF SdkGrantsAndRaises, HandshakeInv, Exclusive,
           DeleteProtected, TypeInv, Handler
  <1>5. ASSUME NEW r \in Request, NEW s \in Session, AdmitPost(r, s) PROVE HandshakeInv'
    BY <1>5 DEF AdmitPost, HandshakeInv, Exclusive, DeleteProtected, TypeInv, Handler
  <1>6. ASSUME NEW r \in Request, NEW s \in Session, AdmitGet(r, s) PROVE HandshakeInv'
    BY <1>6 DEF AdmitGet, HandshakeInv, Exclusive, DeleteProtected, TypeInv, Handler
  <1>7. ASSUME NEW r \in Request, NEW s \in Session, AdmitDelete(r, s) PROVE HandshakeInv'
    BY <1>7 DEF AdmitDelete, HandshakeInv, Exclusive, DeleteProtected, TypeInv, Handler
  <1>8. ASSUME NEW r \in Request, SdkRefuses(r) PROVE HandshakeInv'
    BY <1>8 DEF SdkRefuses, HandshakeInv, Exclusive, DeleteProtected, TypeInv, Handler
  <1>9. ASSUME NEW r \in Request, CommitOwner(r) PROVE HandshakeInv'
    BY <1>9 DEF CommitOwner, HandshakeInv, Exclusive, DeleteProtected, TypeInv, Handler
  <1>10. ASSUME NEW r \in Request, RejectAnswer(r) PROVE HandshakeInv'
    BY <1>10 DEF RejectAnswer, HandshakeInv, Exclusive, DeleteProtected, TypeInv, Handler
  <1>11. ASSUME NEW r \in Request, Discard(r) PROVE HandshakeInv'
    BY <1>11 DEF Discard, HandshakeInv, Exclusive, DeleteProtected, TypeInv, Handler
  <1>12. ASSUME NEW r \in Request, DiscardFails(r) PROVE HandshakeInv'
    BY <1>12 DEF DiscardFails, HandshakeInv, Exclusive, DeleteProtected, TypeInv, Handler
  <1>13. ASSUME NEW r \in Request, Reply(r) PROVE HandshakeInv'
    BY <1>13 DEF Reply, HandshakeInv, Exclusive, DeleteProtected, TypeInv, Handler
  <1>14. ASSUME NEW r \in Request, LastDiscard(r) PROVE HandshakeInv'
    BY <1>14 DEF LastDiscard, Unsettled, HandshakeInv, Exclusive, DeleteProtected, TypeInv,
           Handler
  <1>15. ASSUME NEW r \in Request, LastDiscardFails(r) PROVE HandshakeInv'
    BY <1>15 DEF LastDiscardFails, Unsettled, HandshakeInv, Exclusive, DeleteProtected,
           TypeInv, Handler
  <1>16. ASSUME NEW r \in Request, EndInitialize(r) PROVE HandshakeInv'
    BY <1>16 DEF EndInitialize, Unsettled, Idle, HandshakeInv, Exclusive, DeleteProtected,
           TypeInv, Handler
  <1>17. ASSUME NEW r \in Request, DeleteChecks(r) PROVE HandshakeInv'
    BY <1>17 DEF DeleteChecks, HandshakeInv, Exclusive, DeleteProtected, TypeInv, Handler
  <1>18. ASSUME NEW r \in Request, SdkDeletes(r) PROVE HandshakeInv'
    BY <1>18 DEF SdkDeletes, HandshakeInv, Exclusive, DeleteProtected, TypeInv, Handler
  <1>19. ASSUME NEW r \in Request, SdkDeleteFails(r) PROVE HandshakeInv'
    BY <1>19 DEF SdkDeleteFails, HandshakeInv, Exclusive, DeleteProtected, TypeInv, Handler
  <1>20. ASSUME NEW r \in Request, ReleaseOwner(r) PROVE HandshakeInv'
    BY <1>20 DEF ReleaseOwner, HandshakeInv, Exclusive, DeleteProtected, TypeInv, Handler
  <1>21. ASSUME NEW r \in Request, EndDelete(r) PROVE HandshakeInv'
    BY <1>21 DEF EndDelete, Idle, HandshakeInv, Exclusive, DeleteProtected, TypeInv, Handler
  <1>22. ASSUME NEW r \in Request, CallStart(r) PROVE HandshakeInv'
    BY <1>22 DEF CallStart, Called, HandshakeInv, Exclusive, DeleteProtected, TypeInv,
           Handler
  <1>23. ASSUME NEW r \in Request, CallStop(r) PROVE HandshakeInv'
    BY <1>23 DEF CallStop, Called, HandshakeInv, Exclusive, DeleteProtected, TypeInv,
           Handler
  <1>24. ASSUME NEW r \in Request, CallOther(r) PROVE HandshakeInv'
    BY <1>24 DEF CallOther, Called, HandshakeInv, Exclusive, DeleteProtected, TypeInv,
           Handler
  <1>25. ASSUME NEW r \in Request, EndPost(r) PROVE HandshakeInv'
    BY <1>25 DEF EndPost, Idle, HandshakeInv, Exclusive, DeleteProtected, TypeInv, Handler
  <1>26. ASSUME NEW r \in Request, EndGet(r) PROVE HandshakeInv'
    BY <1>26 DEF EndGet, Idle, HandshakeInv, Exclusive, DeleteProtected, TypeInv, Handler
  <1>27. ASSUME NEW r \in Request, AdmitInitialize(r) PROVE HandshakeInv'
    BY <1>27 DEF AdmitInitialize, Idle, HandshakeInv, Exclusive, DeleteProtected, TypeInv,
           Handler
  <1>28. ASSUME NEW r \in Request, NEW c \in Command, CallSubmit(r, c) PROVE HandshakeInv'
    BY <1>28 DEF CallSubmit, Called, HandshakeInv, Exclusive, DeleteProtected, TypeInv,
           Handler
  <1> QED
    BY <1>1, <1>2, <1>3, <1>4, <1>5, <1>6, <1>7, <1>8, <1>9, <1>10, <1>11, <1>12, <1>13,
       <1>14, <1>15, <1>16, <1>17, <1>18, <1>19, <1>20, <1>21, <1>22, <1>23, <1>24, <1>25,
       <1>26, <1>27, <1>28, NextCases

\* A step keeps what a DELETE relies on.
LEMMA DeleteStep ==
  ASSUME TypeInv, PostsAreCounted, Exclusive, HandshakeInv, DeleteProtected, [Next]_vars
  PROVE  DeleteProtected'
  <1>1. CASE UNCHANGED vars
    BY <1>1 DEF vars, DeleteProtected, Exclusive, HandshakeInv, Cleaned, Resolved, TypeInv,
           Handler
  <1>2. CASE HostCleans \/ HostLost \/ \E c \in Command \cup {Close} : HostAnswers(c)
    BY <1>2 DEF HostCleans, HostLost, HostAnswers, HostUnchanged, DeleteProtected,
           Exclusive, HandshakeInv, Cleaned, Resolved, TypeInv, Handler
  <1>3. ASSUME NEW r \in Request, NEW s \in Session, SdkGrants(r, s) PROVE DeleteProtected'
    BY <1>3, SessionAssumption DEF SdkGrants, DeleteProtected, Exclusive, HandshakeInv,
           Cleaned, Resolved, TypeInv, Handler
  <1>4. ASSUME NEW r \in Request, NEW s \in Session, SdkGrantsAndRaises(r, s) PROVE DeleteProtected'
    BY <1>4, SessionAssumption DEF SdkGrantsAndRaises, DeleteProtected, Exclusive,
           HandshakeInv, Cleaned, Resolved, TypeInv, Handler
  <1>5. ASSUME NEW r \in Request, NEW s \in Session, AdmitPost(r, s) PROVE DeleteProtected'
    BY <1>5 DEF AdmitPost, DeleteProtected, Exclusive, HandshakeInv, Cleaned, Resolved,
           TypeInv, Handler
  <1>6. ASSUME NEW r \in Request, NEW s \in Session, AdmitGet(r, s) PROVE DeleteProtected'
    BY <1>6 DEF AdmitGet, DeleteProtected, Exclusive, HandshakeInv, Cleaned, Resolved,
           TypeInv, Handler
  <1>7. ASSUME NEW r \in Request, NEW s \in Session, AdmitDelete(r, s) PROVE DeleteProtected'
    BY <1>7 DEF AdmitDelete, OwnerAccepts, DeleteProtected, Exclusive, HandshakeInv,
           Cleaned, Resolved, TypeInv, Handler
  <1>8. ASSUME NEW r \in Request, SdkRefuses(r) PROVE DeleteProtected'
    BY <1>8 DEF SdkRefuses, DeleteProtected, Exclusive, HandshakeInv, Cleaned, Resolved,
           TypeInv, Handler
  <1>9. ASSUME NEW r \in Request, CommitOwner(r) PROVE DeleteProtected'
    BY <1>9 DEF CommitOwner, DeleteProtected, Exclusive, HandshakeInv, Cleaned, Resolved,
           TypeInv, Handler
  <1>10. ASSUME NEW r \in Request, RejectAnswer(r) PROVE DeleteProtected'
    BY <1>10 DEF RejectAnswer, DeleteProtected, Exclusive, HandshakeInv, Cleaned, Resolved,
           TypeInv, Handler
  <1>11. ASSUME NEW r \in Request, Discard(r) PROVE DeleteProtected'
    BY <1>11 DEF Discard, DeleteProtected, Exclusive, HandshakeInv, Cleaned, Resolved,
           TypeInv, Handler
  <1>12. ASSUME NEW r \in Request, DiscardFails(r) PROVE DeleteProtected'
    BY <1>12 DEF DiscardFails, DeleteProtected, Exclusive, HandshakeInv, Cleaned, Resolved,
           TypeInv, Handler
  <1>13. ASSUME NEW r \in Request, Reply(r) PROVE DeleteProtected'
    BY <1>13 DEF Reply, DeleteProtected, Exclusive, HandshakeInv, Cleaned, Resolved,
           TypeInv, Handler
  <1>14. ASSUME NEW r \in Request, LastDiscard(r) PROVE DeleteProtected'
    BY <1>14 DEF LastDiscard, DeleteProtected, Exclusive, HandshakeInv, Cleaned, Resolved,
           TypeInv, Handler
  <1>15. ASSUME NEW r \in Request, LastDiscardFails(r) PROVE DeleteProtected'
    BY <1>15 DEF LastDiscardFails, DeleteProtected, Exclusive, HandshakeInv, Cleaned,
           Resolved, TypeInv, Handler
  <1>16. ASSUME NEW r \in Request, EndInitialize(r) PROVE DeleteProtected'
    BY <1>16 DEF EndInitialize, Idle, DeleteProtected, Exclusive, HandshakeInv, Cleaned,
           Resolved, TypeInv, Handler
  <1>17. ASSUME NEW r \in Request, DeleteChecks(r) PROVE DeleteProtected'
    BY <1>17 DEF DeleteChecks, DeleteProtected, Exclusive, HandshakeInv, Cleaned, Resolved,
           TypeInv, Handler
  <1>18. ASSUME NEW r \in Request, SdkDeletes(r) PROVE DeleteProtected'
    BY <1>18 DEF SdkDeletes, DeleteProtected, Exclusive, HandshakeInv, Cleaned, Resolved,
           TypeInv, Handler
  <1>19. ASSUME NEW r \in Request, SdkDeleteFails(r) PROVE DeleteProtected'
    BY <1>19 DEF SdkDeleteFails, DeleteProtected, Exclusive, HandshakeInv, Cleaned,
           Resolved, TypeInv, Handler
  <1>20. ASSUME NEW r \in Request, ReleaseOwner(r) PROVE DeleteProtected'
    BY <1>20 DEF ReleaseOwner, DeleteProtected, Exclusive, HandshakeInv, Cleaned, Resolved,
           TypeInv, Handler
  <1>21. ASSUME NEW r \in Request, EndDelete(r) PROVE DeleteProtected'
    BY <1>21 DEF EndDelete, Idle, DeleteProtected, Exclusive, HandshakeInv, Cleaned,
           Resolved, TypeInv, Handler
  <1>22. ASSUME NEW r \in Request, CallStart(r) PROVE DeleteProtected'
    BY <1>22 DEF CallStart, Called, DeleteProtected, Exclusive, HandshakeInv, Cleaned,
           Resolved, TypeInv, Handler
  <1>23. ASSUME NEW r \in Request, CallStop(r) PROVE DeleteProtected'
    BY <1>23 DEF CallStop, Called, DeleteProtected, Exclusive, HandshakeInv, Cleaned,
           Resolved, TypeInv, Handler
  <1>24. ASSUME NEW r \in Request, CallOther(r) PROVE DeleteProtected'
    BY <1>24 DEF CallOther, Called, DeleteProtected, Exclusive, HandshakeInv, Cleaned,
           Resolved, TypeInv, Handler
  <1>25. ASSUME NEW r \in Request, EndPost(r) PROVE DeleteProtected'
    BY <1>25 DEF EndPost, Idle, DeleteProtected, Exclusive, HandshakeInv, Cleaned, Resolved,
           TypeInv, Handler
  <1>26. ASSUME NEW r \in Request, EndGet(r) PROVE DeleteProtected'
    BY <1>26 DEF EndGet, Idle, DeleteProtected, Exclusive, HandshakeInv, Cleaned, Resolved,
           TypeInv, Handler
  <1>27. ASSUME NEW r \in Request, AdmitInitialize(r) PROVE DeleteProtected'
    BY <1>27 DEF AdmitInitialize, DeleteProtected, Exclusive, HandshakeInv, Cleaned,
           Resolved, TypeInv, Handler
  <1>28. ASSUME NEW r \in Request, NEW c \in Command, CallSubmit(r, c) PROVE DeleteProtected'
    BY <1>28 DEF CallSubmit, Called, DeleteProtected, Exclusive, HandshakeInv, Cleaned,
           Resolved, TypeInv, Handler
  <1> QED
    BY <1>1, <1>2, <1>3, <1>4, <1>5, <1>6, <1>7, <1>8, <1>9, <1>10, <1>11, <1>12, <1>13,
       <1>14, <1>15, <1>16, <1>17, <1>18, <1>19, <1>20, <1>21, <1>22, <1>23, <1>24, <1>25,
       <1>26, <1>27, <1>28, NextCases

\* A step keeps every SDK session that is not the owner's with its handshake.
LEMMA OrphanStep ==
  ASSUME TypeInv, Exclusive, HandshakeInv, DeleteProtected, OrphanHasHandshake, [Next]_vars
  PROVE  OrphanHasHandshake'
  <1>1. CASE UNCHANGED vars
    BY <1>1 DEF vars, OrphanHasHandshake, Exclusive, HandshakeInv, DeleteProtected, TypeInv,
           Handler
  <1>2. CASE HostCleans \/ HostLost \/ \E c \in Command \cup {Close} : HostAnswers(c)
    <2>1. HostUnchanged
      BY <1>2 DEF HostCleans, HostLost, HostAnswers
    <2> QED
      BY <2>1 DEF HostUnchanged, OrphanHasHandshake, Exclusive, HandshakeInv,
             DeleteProtected, TypeInv, Handler
  <1>3. ASSUME NEW r \in Request, NEW s \in Session, SdkGrants(r, s) PROVE OrphanHasHandshake'
    BY <1>3, SessionAssumption DEF SdkGrants, OrphanHasHandshake, Exclusive, HandshakeInv,
           DeleteProtected, TypeInv, Handler
  <1>4. ASSUME NEW r \in Request, NEW s \in Session, SdkGrantsAndRaises(r, s) PROVE OrphanHasHandshake'
    BY <1>4, SessionAssumption DEF SdkGrantsAndRaises, OrphanHasHandshake, Exclusive,
           HandshakeInv, DeleteProtected, TypeInv, Handler
  <1>5. ASSUME NEW r \in Request, NEW s \in Session, AdmitPost(r, s) PROVE OrphanHasHandshake'
    BY <1>5 DEF AdmitPost, OrphanHasHandshake, Exclusive, HandshakeInv, DeleteProtected,
           TypeInv, Handler
  <1>6. ASSUME NEW r \in Request, NEW s \in Session, AdmitGet(r, s) PROVE OrphanHasHandshake'
    BY <1>6 DEF AdmitGet, OrphanHasHandshake, Exclusive, HandshakeInv, DeleteProtected,
           TypeInv, Handler
  <1>7. ASSUME NEW r \in Request, NEW s \in Session, AdmitDelete(r, s) PROVE OrphanHasHandshake'
    BY <1>7 DEF AdmitDelete, OrphanHasHandshake, Exclusive, HandshakeInv, DeleteProtected,
           TypeInv, Handler
  <1>8. ASSUME NEW r \in Request, SdkRefuses(r) PROVE OrphanHasHandshake'
    BY <1>8 DEF SdkRefuses, OrphanHasHandshake, Exclusive, HandshakeInv, DeleteProtected,
           TypeInv, Handler
  <1>9. ASSUME NEW r \in Request, CommitOwner(r) PROVE OrphanHasHandshake'
    BY <1>9, SessionAssumption DEF CommitOwner, OrphanHasHandshake, Exclusive, HandshakeInv,
           DeleteProtected, TypeInv, Handler
  <1>10. ASSUME NEW r \in Request, RejectAnswer(r) PROVE OrphanHasHandshake'
    BY <1>10 DEF RejectAnswer, OrphanHasHandshake, Exclusive, HandshakeInv, DeleteProtected,
           TypeInv, Handler
  <1>11. ASSUME NEW r \in Request, Discard(r) PROVE OrphanHasHandshake'
    BY <1>11 DEF Discard, OrphanHasHandshake, Exclusive, HandshakeInv, DeleteProtected,
           TypeInv, Handler
  <1>12. ASSUME NEW r \in Request, DiscardFails(r) PROVE OrphanHasHandshake'
    BY <1>12 DEF DiscardFails, OrphanHasHandshake, Exclusive, HandshakeInv, DeleteProtected,
           TypeInv, Handler
  <1>13. ASSUME NEW r \in Request, Reply(r) PROVE OrphanHasHandshake'
    BY <1>13 DEF Reply, OrphanHasHandshake, Exclusive, HandshakeInv, DeleteProtected,
           TypeInv, Handler
  <1>14. ASSUME NEW r \in Request, LastDiscard(r) PROVE OrphanHasHandshake'
    BY <1>14 DEF LastDiscard, Unsettled, OrphanHasHandshake, Exclusive, HandshakeInv,
           DeleteProtected, TypeInv, Handler
  <1>15. ASSUME NEW r \in Request, LastDiscardFails(r) PROVE OrphanHasHandshake'
    BY <1>15 DEF LastDiscardFails, Unsettled, OrphanHasHandshake, Exclusive, HandshakeInv,
           DeleteProtected, TypeInv, Handler
  <1>16. ASSUME NEW r \in Request, EndInitialize(r) PROVE OrphanHasHandshake'
    BY <1>16 DEF EndInitialize, Unsettled, Idle, OrphanHasHandshake, Exclusive,
           HandshakeInv, DeleteProtected, TypeInv, Handler
  <1>17. ASSUME NEW r \in Request, DeleteChecks(r) PROVE OrphanHasHandshake'
    BY <1>17 DEF DeleteChecks, OrphanHasHandshake, Exclusive, HandshakeInv, DeleteProtected,
           TypeInv, Handler
  <1>18. ASSUME NEW r \in Request, SdkDeletes(r) PROVE OrphanHasHandshake'
    BY <1>18 DEF SdkDeletes, OrphanHasHandshake, Exclusive, HandshakeInv, DeleteProtected,
           TypeInv, Handler
  <1>19. ASSUME NEW r \in Request, SdkDeleteFails(r) PROVE OrphanHasHandshake'
    BY <1>19 DEF SdkDeleteFails, OrphanHasHandshake, Exclusive, HandshakeInv,
           DeleteProtected, TypeInv, Handler
  <1>20. ASSUME NEW r \in Request, ReleaseOwner(r) PROVE OrphanHasHandshake'
    BY <1>20 DEF ReleaseOwner, OrphanHasHandshake, Exclusive, HandshakeInv, DeleteProtected,
           TypeInv, Handler
  <1>21. ASSUME NEW r \in Request, EndDelete(r) PROVE OrphanHasHandshake'
    BY <1>21 DEF EndDelete, Idle, OrphanHasHandshake, Exclusive, HandshakeInv,
           DeleteProtected, TypeInv, Handler
  <1>22. ASSUME NEW r \in Request, CallStart(r) PROVE OrphanHasHandshake'
    BY <1>22 DEF CallStart, Called, OrphanHasHandshake, Exclusive, HandshakeInv,
           DeleteProtected, TypeInv, Handler
  <1>23. ASSUME NEW r \in Request, CallStop(r) PROVE OrphanHasHandshake'
    BY <1>23 DEF CallStop, Called, OrphanHasHandshake, Exclusive, HandshakeInv,
           DeleteProtected, TypeInv, Handler
  <1>24. ASSUME NEW r \in Request, CallOther(r) PROVE OrphanHasHandshake'
    BY <1>24 DEF CallOther, Called, OrphanHasHandshake, Exclusive, HandshakeInv,
           DeleteProtected, TypeInv, Handler
  <1>25. ASSUME NEW r \in Request, EndPost(r) PROVE OrphanHasHandshake'
    BY <1>25 DEF EndPost, Idle, OrphanHasHandshake, Exclusive, HandshakeInv,
           DeleteProtected, TypeInv, Handler
  <1>26. ASSUME NEW r \in Request, EndGet(r) PROVE OrphanHasHandshake'
    BY <1>26 DEF EndGet, Idle, OrphanHasHandshake, Exclusive, HandshakeInv, DeleteProtected,
           TypeInv, Handler
  <1>27. ASSUME NEW r \in Request, AdmitInitialize(r) PROVE OrphanHasHandshake'
    BY <1>27 DEF AdmitInitialize, OrphanHasHandshake, Exclusive, HandshakeInv,
           DeleteProtected, TypeInv, Handler
  <1>28. ASSUME NEW r \in Request, NEW c \in Command, CallSubmit(r, c) PROVE OrphanHasHandshake'
    BY <1>28 DEF CallSubmit, Called, OrphanHasHandshake, Exclusive, HandshakeInv,
           DeleteProtected, TypeInv, Handler
  <1> QED
    BY <1>1, <1>2, <1>3, <1>4, <1>5, <1>6, <1>7, <1>8, <1>9, <1>10, <1>11, <1>12, <1>13,
       <1>14, <1>15, <1>16, <1>17, <1>18, <1>19, <1>20, <1>21, <1>22, <1>23, <1>24, <1>25,
       <1>26, <1>27, <1>28, NextCases

\* A step keeps the queue empty once the host has left its loop.
LEMMA QueueStep ==
  ASSUME TypeInv, QueueInv, [Next]_vars
  PROVE  QueueInv'
  <1>1. CASE rt' = rt
    BY <1>1 DEF QueueInv
  <1>2. CASE HostCleans \/ HostLost
    BY <1>2 DEF HostCleans, HostLost, QueueInv, TypeInv, Runtime
  <1>3. ASSUME NEW c \in Command \cup {Close}, HostAnswers(c) PROVE QueueInv'
    BY <1>3 DEF HostAnswers, QueueInv, TypeInv, Runtime
  <1>4. ASSUME NEW r \in Request, CallStart(r) PROVE QueueInv'
    <2>1. CASE rt' \in Launched
      BY <2>1 DEF Launched, QueueInv
    <2>2. CASE rt' \in Attached
      BY <2>2 DEF Attached, QueueInv
    <2>3. CASE rt' = [rt EXCEPT !.attempted = TRUE]
      BY <2>3 DEF QueueInv, TypeInv, Runtime
    <2> QED
      BY <1>4, <2>1, <2>2, <2>3 DEF CallStart
  <1>5. ASSUME NEW r \in Request, CallStop(r) PROVE QueueInv'
    BY <1>5 DEF CallStop, QueueInv, TypeInv, Runtime
  <1>6. ASSUME NEW r \in Request, NEW c \in Command, CallSubmit(r, c) PROVE QueueInv'
    BY <1>6, CloseAssumption DEF CallSubmit, QueueOpen, QueueInv, TypeInv, Runtime
  <1>7. ASSUME NEW r \in Request, NEW s \in Session,
               SdkGrants(r, s) \/ SdkGrantsAndRaises(r, s)
               \/ AdmitPost(r, s) \/ AdmitGet(r, s) \/ AdmitDelete(r, s)
        PROVE  rt' = rt
    BY <1>7 DEF SdkGrants, SdkGrantsAndRaises, AdmitPost, AdmitGet, AdmitDelete
  <1>8. ASSUME NEW r \in Request,
               SdkRefuses(r) \/ CommitOwner(r) \/ RejectAnswer(r) \/ Discard(r) \/ DiscardFails(r)
               \/ Reply(r) \/ LastDiscard(r) \/ LastDiscardFails(r) \/ EndInitialize(r)
               \/ DeleteChecks(r) \/ SdkDeletes(r) \/ SdkDeleteFails(r) \/ ReleaseOwner(r)
               \/ EndDelete(r) \/ CallOther(r) \/ EndPost(r) \/ AdmitInitialize(r) \/ EndGet(r)
        PROVE  rt' = rt
    BY <1>8 DEF SdkRefuses, CommitOwner, RejectAnswer, Discard, DiscardFails, Reply,
                LastDiscard, LastDiscardFails, EndInitialize, DeleteChecks, SdkDeletes,
                SdkDeleteFails, ReleaseOwner, EndDelete, CallOther, EndPost,
                AdmitInitialize, EndGet
  <1>9. CASE UNCHANGED vars
    BY <1>1, <1>9 DEF vars
  <1> QED
    BY <1>1, <1>2, <1>3, <1>4, <1>5, <1>6, <1>7, <1>8, <1>9, NextCases

-----------------------------------------------------------------------------
\* The inductive invariant holds at the start and is kept by every step of
\* the handlers, the tools and the host.
THEOREM InductiveInvariant == Spec => []IInv
  <1>1. Init => IInv
    <2> SUFFICES ASSUME Init PROVE IInv
      OBVIOUS
    <2>1. Active = {}
      BY DEF Init, Active, Idle
    <2>2. PostsAreCounted
      BY <2>1, FS_EmptySet DEF Init, PostsAreCounted
    <2>3. TypeInv
      <3>1. Idle \in Handler
        BY DEF Idle, Handler
      <3>2. req \in [Request -> Handler]
        BY <3>1 DEF Init
      <3>3. rt \in Runtime
        BY DEF Init, Runtime
      <3>4. initializing \in BOOLEAN /\ deleting \in BOOLEAN
        BY Zenon DEF Init
      <3>5. owner \in Session \cup {NoSession} /\ sdk \subseteq Session /\ issued \subseteq Session
        BY DEF Init
      <3>6. activePosts \in Int
        <4>1. activePosts = 0
          BY DEF Init
        <4> QED
          BY <4>1
      <3> QED
        BY <3>2, <3>3, <3>4, <3>5, <3>6 DEF TypeInv
    <2>4. \A r \in Request : req[r] = Idle
      BY DEF Init
    <2>5. Exclusive /\ HandshakeInv /\ DeleteProtected
      BY <2>4 DEF Init, Exclusive, HandshakeInv, DeleteProtected, Idle
    <2>6. OrphanHasHandshake /\ QueueInv
      BY DEF Init, OrphanHasHandshake, QueueInv
    <2> QED
      BY <2>2, <2>3, <2>5, <2>6 DEF IInv
  <1>2. IInv /\ [Next]_vars => IInv'
    BY TypeStep, CountStep, ExclusiveStep, HandshakeStep, DeleteStep, OrphanStep, QueueStep
       DEF IInv
  <1> QED
    BY <1>1, <1>2, PTL DEF Spec

\* Every variable keeps its type, and the count of POSTs never exceeds the
\* requests in flight nor falls below zero.
THEOREM TypeCorrect == Spec => []TypeOK
  <1>1. IInv => TypeOK
    <2> SUFFICES ASSUME IInv PROVE TypeOK
      OBVIOUS
    <2>1. IsFiniteSet(Active) /\ Cardinality(Active) <= Cardinality(Request)
      BY FS_Subset, RequestAssumption DEF Active
    <2>2. Cardinality(Active) \in Nat /\ Cardinality(Request) \in Nat
      BY <2>1, FS_CardinalityType, RequestAssumption
    <2>3. activePosts \in 0 .. Cardinality(Request)
      BY <2>1, <2>2 DEF IInv, PostsAreCounted
    <2> QED
      BY <2>3 DEF IInv, TypeInv, TypeOK
  <1> QED
    BY <1>1, InductiveInvariant, PTL

\* The count a DELETE relies on is the number of POSTs in flight.
THEOREM CountIsRight == Spec => []PostsAreCounted
  <1>1. IInv => PostsAreCounted
    BY DEF IInv
  <1> QED
    BY <1>1, InductiveInvariant, PTL

\* A tool call runs only for the session that owns the Runtime at that moment.
THEOREM CallsAreTheOwners == Spec => []CallsBelongToOwner
  <1>1. IInv => CallsBelongToOwner
    BY DEF IInv, Exclusive, CallsBelongToOwner
  <1> QED
    BY <1>1, InductiveInvariant, PTL

\* An SDK session without ownership is open only while its handshake keeps
\* everyone else out.
THEOREM OrphansAreFenced == Spec => []OrphanSessionsAreFenced
  <1>1. IInv => OrphanSessionsAreFenced
    BY DEF IInv, Exclusive, OrphanHasHandshake, OrphanSessionsAreFenced
  <1> QED
    BY <1>1, InductiveInvariant, PTL

\* The owner is released only over a Runtime at rest and with no POST in
\* flight: what the DELETE's status read said is still true.
THEOREM ReleaseIsClean == Spec => ReleaseLeavesNothingRunning
  <1>1. IInv /\ [Next]_vars =>
          [owner # NoSession /\ owner' = NoSession => Cleaned /\ Active = {}]_vars
    <2> SUFFICES ASSUME IInv, [Next]_vars, owner # NoSession, owner' = NoSession
                 PROVE  Cleaned /\ Active = {}
      OBVIOUS
    <2>1. ASSUME owner' = owner PROVE FALSE
      BY <2>1
    <2>2. PICK r \in Request : ReleaseOwner(r)
      <3>1. ASSUME NEW r \in Request, CommitOwner(r) PROVE FALSE
        BY <3>1 DEF CommitOwner, IInv, HandshakeInv
      <3>2. CASE HostCleans \/ HostLost \/ \E c \in Command \cup {Close} : HostAnswers(c)
        BY <2>1, <3>2 DEF HostCleans, HostLost, HostAnswers, HostUnchanged
      <3>3. ASSUME NEW r \in Request, NEW s \in Session,
                   SdkGrants(r, s) \/ SdkGrantsAndRaises(r, s)
                   \/ AdmitPost(r, s) \/ AdmitGet(r, s) \/ AdmitDelete(r, s)
            PROVE  FALSE
        BY <2>1, <3>3 DEF SdkGrants, SdkGrantsAndRaises, AdmitPost, AdmitGet, AdmitDelete
      <3>4. ASSUME NEW r \in Request,
                   SdkRefuses(r) \/ RejectAnswer(r) \/ Discard(r) \/ DiscardFails(r) \/ Reply(r)
                   \/ LastDiscard(r) \/ LastDiscardFails(r) \/ EndInitialize(r)
                   \/ DeleteChecks(r) \/ SdkDeletes(r) \/ SdkDeleteFails(r) \/ EndDelete(r)
                   \/ CallStart(r) \/ CallStop(r) \/ CallOther(r) \/ EndPost(r)
                   \/ AdmitInitialize(r) \/ EndGet(r) \/ \E c \in Command : CallSubmit(r, c)
            PROVE  FALSE
        BY <2>1, <3>4 DEF SdkRefuses, RejectAnswer, Discard, DiscardFails, Reply,
             LastDiscard, LastDiscardFails, EndInitialize, DeleteChecks, SdkDeletes,
             SdkDeleteFails, EndDelete, CallStart, CallStop, CallOther, EndPost,
             AdmitInitialize, EndGet, CallSubmit
      <3>5. CASE UNCHANGED vars
        BY <2>1, <3>5 DEF vars
      <3> QED
        BY <3>1, <3>2, <3>3, <3>4, <3>5, NextCases
    <2>3. Cleaned
      BY <2>2 DEF ReleaseOwner, IInv, DeleteProtected
    <2>4. Active = {}
      BY <2>2 DEF ReleaseOwner, IInv, Exclusive, Active
    <2> QED
      BY <2>3, <2>4
  <1> QED
    BY <1>1, InductiveInvariant, PTL DEF Spec, ReleaseLeavesNothingRunning

\* A host launched here that cleaned up has answered every command.
THEOREM CleanHostLeavesNothing == Spec => []CleanHostAnsweredAll
  <1>1. IInv => CleanHostAnsweredAll
    BY DEF IInv, QueueInv, CleanHostAnsweredAll
  <1> QED
    BY <1>1, InductiveInvariant, PTL

-----------------------------------------------------------------------------
(***************************************************************************)
(* SerialRuntimeOwner.                                                     *)
(***************************************************************************)
Item == Call \cup {Stop}

\* Types, without the bound on the length of the queue.
SerialTypes ==
  /\ closed \in BOOLEAN
  /\ thread \in ThreadState
  /\ inited \in {"no", "ok", "failed"}
  /\ queue \in Seq(Item)
  /\ running \in [call : Call \cup {NoCall}, inner : Nested]
  /\ call \in [Call -> CallState]
  /\ closer \in [Closer -> {"new", "joining", "closed", "raised"}]
  /\ terminal \in BOOLEAN

\* Who lives reads the marker once; who does not live has nothing to read.
MarkerInv ==
  (\E i \in DOMAIN queue : queue[i] = Stop) =>
    closed /\ thread \in {"unstarted", "initializing", "serving"}

\* What the thread's position says of the queue and of the function in hand.
ThreadInv ==
  /\ thread = "none" => queue = <<>>
  /\ thread \in {"finalizing", "ended"} => closed /\ queue = <<>>
  /\ thread # "serving" => running.call = NoCall
  /\ running.call = NoCall => running.inner = "no"
  /\ thread = "serving" => inited # "no"

\* Who returned from close left a thread that is gone or never lived.
CloserInv ==
  \A k \in Closer : closer[k] \in {"closed", "raised"} =>
    closed /\ thread \in {"none", "unstarted", "ended"}

\* The function in hand has left the queue.
InHandInv == running.call \in Call => \A i \in DOMAIN queue : queue[i] # running.call

SerialInv == SerialTypes /\ NobodyBehindStop /\ InHandInv /\ MarkerInv /\ ThreadInv /\ CloserInv

-----------------------------------------------------------------------------
\* A sequence without repetitions is no longer than its set of items.
LEMMA DistinctLen ==
  ASSUME NEW S, IsFiniteSet(S), NEW q \in Seq(S),
         \A i, j \in DOMAIN q : i # j => q[i] # q[j]
  PROVE  Len(q) <= Cardinality(S)
  <1>1. /\ Len(q) \in Nat
        /\ q \in [1 .. Len(q) -> S]
        /\ DOMAIN q = 1 .. Len(q)
    BY LenProperties
  <1>2. q \in Injection(1 .. Len(q), S)
    BY <1>1 DEF Injection, IsInjective
  <1>3. Cardinality(1 .. Len(q)) <= Cardinality(S)
    BY <1>2, FS_Injection, Zenon
  <1>4. Cardinality(1 .. Len(q)) = Len(q)
    BY <1>1, FS_Interval, SMT
  <1> QED
    BY <1>3, <1>4

\* The queue's bound follows from the absence of repetitions.
LEMMA TypeFromInv == ASSUME SerialInv PROVE SerialTypeOK
  <1>1. IsFiniteSet(Item) /\ Cardinality(Item) = Cardinality(Call) + 1
    BY CallAssumption, FS_AddElement DEF Item
  <1>2. Len(queue) <= Cardinality(Item)
    BY <1>1, DistinctLen DEF SerialInv, SerialTypes, NobodyBehindStop
  <1> QED
    BY <1>1, <1>2 DEF SerialInv, SerialTypes, SerialTypeOK, Item

\* What Append does to the places of a sequence.
LEMMA AppendFacts ==
  ASSUME NEW S, NEW q \in Seq(S), NEW x \in S
  PROVE  /\ Append(q, x) \in Seq(S)
         /\ Len(Append(q, x)) = Len(q) + 1
         /\ DOMAIN Append(q, x) = 1 .. Len(q) + 1
         /\ \A i \in 1 .. Len(q) : Append(q, x)[i] = q[i]
         /\ Append(q, x)[Len(q) + 1] = x
  OBVIOUS

\* What Tail does to the places of a sequence.
LEMMA TailFacts ==
  ASSUME NEW S, NEW q \in Seq(S), q # <<>>
  PROVE  /\ Head(q) = q[1] /\ Head(q) \in S
         /\ Tail(q) \in Seq(S)
         /\ Len(q) \in Nat \ {0} /\ DOMAIN q = 1 .. Len(q)
         /\ Len(Tail(q)) = Len(q) - 1
         /\ DOMAIN Tail(q) = 1 .. Len(q) - 1
         /\ \A i \in 1 .. Len(q) - 1 : Tail(q)[i] = q[i + 1]
  BY HeadTailProperties, LenProperties

-----------------------------------------------------------------------------
LEMMA InitInv == ASSUME SerialInit PROVE SerialInv
  <1> USE DEF SerialInit
  <1>1. queue = <<>> /\ Len(queue) = 0 /\ DOMAIN queue = {} /\ queue \in Seq(Item)
    BY EmptySeq
  <1>2. running \in [call : Call \cup {NoCall}, inner : Nested] /\ running.call \notin Call
    BY CallAssumption DEF Nested
  <1>3. SerialTypes
    BY <1>1, <1>2 DEF SerialTypes, ThreadState, CallState
  <1>4. NobodyBehindStop
    BY <1>1, <1>2 DEF NobodyBehindStop
  <1> QED
    BY <1>1, <1>2, <1>3, <1>4 DEF SerialInv, InHandInv, MarkerInv, ThreadInv, CloserInv

USE DEF ThreadState, CallState, Answered, Nested

\* A function joins the queue: nothing is in front of it that ends the thread.
LEMMA EnqueueInv ==
  ASSUME SerialInv, NEW c \in Call, FirstCall(c) \/ LaterCall(c)
  PROVE  SerialInv'
  <1>1. /\ queue \in Seq(Item) /\ c \in Item
        /\ queue' = Append(queue, c) /\ call' = [call EXCEPT ![c] = "queued"]
        /\ call[c] = "new" /\ ~closed /\ call \in [Call -> CallState]
        /\ UNCHANGED <<closed, inited, running, closer, terminal>>
    BY DEF SerialInv, SerialTypes, FirstCall, LaterCall, Accepts, Item
  <1>2. thread' = thread \/ (thread = "none" /\ thread' = "initializing")
    BY DEF FirstCall, LaterCall
  <1>3. thread' # "none" /\ (thread \notin {"finalizing", "ended"})
    BY <1>1 DEF FirstCall, LaterCall, SerialInv, ThreadInv
  <1>4. /\ queue' \in Seq(Item)
        /\ Len(queue) \in Nat /\ DOMAIN queue = 1 .. Len(queue)
        /\ Len(queue') = Len(queue) + 1
        /\ DOMAIN queue' = 1 .. Len(queue) + 1
        /\ \A i \in 1 .. Len(queue) : queue'[i] = queue[i]
        /\ queue'[Len(queue) + 1] = c
    BY <1>1, AppendFacts, LenProperties
  <1>5. \A i \in DOMAIN queue : queue[i] # Stop
    BY <1>1 DEF SerialInv, MarkerInv
  <1>6. \A i \in DOMAIN queue : queue[i] # c
    BY <1>1, <1>5 DEF SerialInv, NobodyBehindStop
  <1>7. SerialTypes'
    BY <1>1, <1>2, <1>4 DEF SerialInv, SerialTypes
  <1>8. NobodyBehindStop'
    <2>1. \A i \in 1 .. Len(queue') - 1 : queue'[i] # Stop
      BY <1>4, <1>5
    <2>2. \A i, j \in DOMAIN queue' : i # j => queue'[i] # queue'[j]
      BY <1>4, <1>6 DEF SerialInv, NobodyBehindStop
    <2>3. \A d \in Call : (\E i \in DOMAIN queue' : queue'[i] = d)
                            <=> (d = c \/ \E i \in DOMAIN queue : queue[i] = d)
      BY <1>4
    <2>4. \A d \in Call : call'[d] = "queued" <=> (d = c \/ call[d] = "queued")
      BY <1>1
    <2> QED
      BY <2>1, <2>2, <2>3, <2>4, <1>1 DEF SerialInv, NobodyBehindStop
  <1>9. MarkerInv'
    BY <1>4, <1>5, CallAssumption DEF MarkerInv
  <1>10. ThreadInv' /\ CloserInv'
    BY <1>1, <1>2, <1>3 DEF SerialInv, SerialTypes, ThreadInv, CloserInv
  <1>11. InHandInv'
    <2>1. running.call \in Call => call[running.call] = "queued"
      BY DEF SerialInv, NobodyBehindStop
    <2> QED
      BY <2>1, <1>1, <1>4 DEF SerialInv, InHandInv
  <1> QED
    BY <1>7, <1>8, <1>9, <1>10, <1>11 DEF SerialInv

\* A call that is turned away.
LEMMA TurnedAwayInv ==
  ASSUME SerialInv, NEW c \in Call, FirstCallFails(c) \/ RefusedCall(c)
  PROVE  SerialInv'
  <1>1. /\ call[c] = "new" /\ call' \in [Call -> CallState]
        /\ \A d \in Call : call'[d] = "queued" <=> call[d] = "queued"
        /\ UNCHANGED <<closed, inited, queue, running, closer, terminal>>
        /\ thread' = thread \/ (thread = "none" /\ thread' = "unstarted")
    BY DEF SerialInv, SerialTypes, FirstCallFails, RefusedCall
  <1> QED
    BY <1>1 DEF SerialInv, SerialTypes, NobodyBehindStop, InHandInv, MarkerInv, ThreadInv,
      CloserInv

\* The head of the queue is taken.
LEMMA TakenInv ==
  ASSUME SerialInv, AnswerInitError \/ Take \/ TakeStop
  PROVE  SerialInv'
  <1>1. /\ queue \in Seq(Item) /\ queue # <<>> /\ queue' = Tail(queue)
        /\ thread = "serving" /\ running.call = NoCall
        /\ UNCHANGED <<closed, inited, closer, terminal>>
    BY DEF SerialInv, SerialTypes, AnswerInitError, Take, TakeStop, Free
  <1>2. /\ Head(queue) = queue[1] /\ Head(queue) \in Item
        /\ queue' \in Seq(Item)
        /\ Len(queue) \in Nat \ {0} /\ DOMAIN queue = 1 .. Len(queue)
        /\ Len(queue') = Len(queue) - 1
        /\ DOMAIN queue' = 1 .. Len(queue) - 1
        /\ \A i \in 1 .. Len(queue) - 1 : queue'[i] = queue[i + 1]
    BY <1>1, TailFacts
  <1>3. \A i \in 1 .. Len(queue') - 1 : queue'[i] # Stop
    BY <1>2 DEF SerialInv, NobodyBehindStop
  <1>4. \A i, j \in DOMAIN queue' : i # j => queue'[i] # queue'[j]
    <2> SUFFICES ASSUME NEW i \in DOMAIN queue', NEW j \in DOMAIN queue', i # j
                 PROVE  queue'[i] # queue'[j]
      OBVIOUS
    <2>1. i + 1 \in DOMAIN queue /\ j + 1 \in DOMAIN queue /\ i + 1 # j + 1
      BY <1>2
    <2> QED
      BY <2>1, <1>2 DEF SerialInv, NobodyBehindStop
  <1>5. \A d \in Call : (\E i \in DOMAIN queue' : queue'[i] = d)
                          <=> (d # Head(queue) /\ \E i \in DOMAIN queue : queue[i] = d)
    <2> SUFFICES ASSUME NEW d \in Call
                 PROVE  (\E i \in DOMAIN queue' : queue'[i] = d)
                          <=> (d # Head(queue) /\ \E i \in DOMAIN queue : queue[i] = d)
      OBVIOUS
    <2>1. ASSUME NEW i \in DOMAIN queue', queue'[i] = d
          PROVE  d # Head(queue) /\ \E j \in DOMAIN queue : queue[j] = d
      <3>1. i + 1 \in DOMAIN queue /\ queue[i + 1] = d /\ 1 \in DOMAIN queue /\ i + 1 # 1
        BY <2>1, <1>2
      <3> QED
        BY <3>1, <1>2 DEF SerialInv, NobodyBehindStop
    <2>2. ASSUME NEW j \in DOMAIN queue, queue[j] = d, d # Head(queue)
          PROVE  \E i \in DOMAIN queue' : queue'[i] = d
      <3>1. j # 1 /\ j - 1 \in DOMAIN queue' /\ queue'[j - 1] = queue[(j - 1) + 1]
        BY <2>2, <1>2
      <3>2. (j - 1) + 1 = j
        BY <1>2
      <3> QED
        BY <3>1, <3>2, <2>2
    <2> QED
      BY <2>1, <2>2
  <1>6. CASE AnswerInitError \/ Take
    <2>1. /\ Head(queue) \in Call /\ thread' = thread
          /\ call \in [Call -> CallState]
      BY <1>6, <1>2 DEF AnswerInitError, Take, Item, SerialInv, SerialTypes
    <2>2. call[Head(queue)] = "queued"
      BY <2>1, <1>2 DEF SerialInv, NobodyBehindStop
    <2>3. /\ call' \in [Call -> CallState]
          /\ running' \in [call : Call \cup {NoCall}, inner : Nested]
          /\ running'.call = NoCall => running'.inner = "no"
          /\ \A d \in Call : call'[d] = "queued" <=>
               (running'.call = d \/ (d # Head(queue) /\ call[d] = "queued"))
      <3>1. CASE AnswerInitError
        BY <3>1, <2>1, <1>1, CallAssumption DEF AnswerInitError, SerialInv, SerialTypes,
          ThreadInv
      <3>2. CASE Take
        BY <3>2, <2>1, <2>2, <1>1, CallAssumption DEF Take, SerialInv, SerialTypes
      <3> QED
        BY <3>1, <3>2, <1>6
    <2>4. \A d \in Call : call[d] = "queued" <=> \E i \in DOMAIN queue : queue[i] = d
      BY <1>1, CallAssumption DEF SerialInv, NobodyBehindStop
    <2>5. NobodyBehindStop'
      BY <1>3, <1>4, <1>5, <2>3, <2>4 DEF NobodyBehindStop
    <2>6. MarkerInv'
      <3>1. ASSUME NEW i \in DOMAIN queue', queue'[i] = Stop
            PROVE  \E j \in DOMAIN queue : queue[j] = Stop
        <4>1. i + 1 \in DOMAIN queue /\ queue[i + 1] = Stop
          BY <3>1, <1>2
        <4> QED
          BY <4>1
      <3> QED
        BY <3>1, <2>1, <1>1 DEF SerialInv, MarkerInv
    <2>7. InHandInv'
      <3>1. running'.call \in Call => running'.call = Head(queue)
        BY <1>6, <1>1, CallAssumption DEF Take, AnswerInitError
      <3> QED
        BY <3>1, <1>5 DEF InHandInv
    <2> QED
      BY <2>1, <2>3, <2>5, <2>6, <2>7, <1>1, <1>2 DEF SerialInv, SerialTypes, ThreadInv,
        CloserInv
  <1>7. CASE TakeStop
    <2>1. Head(queue) = Stop /\ thread' = "finalizing" /\ UNCHANGED <<running, call>>
      BY <1>7 DEF TakeStop
    <2>2. Len(queue) = 1
      <3>1. 1 \notin 1 .. Len(queue) - 1
        BY <2>1, <1>2 DEF SerialInv, NobodyBehindStop
      <3> QED
        BY <3>1, <1>2
    <2>3. queue' = <<>>
      BY <2>2, <1>2, EmptySeq
    <2>4. closed
      BY <2>1, <1>2 DEF SerialInv, MarkerInv
    <2>5. NobodyBehindStop'
      BY <1>1, <1>3, <1>4, <1>5, <2>1, CallAssumption DEF SerialInv, NobodyBehindStop
    <2>6. DOMAIN queue' = {}
      BY <2>2, <1>2
    <2> QED
      BY <1>1, <1>2, <2>1, <2>3, <2>4, <2>5, <2>6
         DEF SerialInv, SerialTypes, InHandInv, MarkerInv, ThreadInv, CloserInv
  <1> QED
    BY <1>6, <1>7

\* The thread starts, works on the function in hand, and ends.
LEMMA ThreadStepInv ==
  ASSUME SerialInv, Initialize \/ InlineCall \/ InlineReturn \/ Finalize
  PROVE  SerialInv'
  <1>1. CASE Initialize
    BY <1>1 DEF Initialize, SerialInv, SerialTypes, NobodyBehindStop, InHandInv, MarkerInv,
      ThreadInv, CloserInv
  <1>2. CASE InlineCall \/ InlineReturn
    <2>1. /\ running' \in [call : Call \cup {NoCall}, inner : Nested]
          /\ running'.call = running.call
          /\ running.call # NoCall
          /\ UNCHANGED <<closed, thread, inited, queue, call, closer, terminal>>
      BY <1>2 DEF InlineCall, InlineReturn, SerialInv, SerialTypes, ThreadInv
    <2> QED
      BY <2>1 DEF SerialInv, SerialTypes, NobodyBehindStop, InHandInv, MarkerInv, ThreadInv,
        CloserInv
  <1>3. CASE Finalize
    BY <1>3 DEF Finalize, SerialInv, SerialTypes, NobodyBehindStop, InHandInv, MarkerInv,
      ThreadInv, CloserInv
  <1> QED
    BY <1>1, <1>2, <1>3

LEMMA ReturnInv == ASSUME SerialInv, Return PROVE SerialInv'
  <1>1. /\ running.call \in Call /\ running' = [call |-> NoCall, inner |-> "no"]
        /\ UNCHANGED <<closed, thread, inited, queue, closer, terminal>>
        /\ thread = "serving"
    BY DEF Return, SerialInv, SerialTypes, ThreadInv
  <1>2. /\ call' \in [Call -> CallState]
        /\ \A d \in Call : call'[d] = "queued" <=> (d # running.call /\ call[d] = "queued")
    BY <1>1 DEF Return, SerialInv, SerialTypes
  <1>3. \A i \in DOMAIN queue : queue[i] # running.call
    <2> SUFFICES ASSUME NEW i \in DOMAIN queue, queue[i] = running.call PROVE FALSE
      OBVIOUS
    <2> QED
      BY <1>1 DEF SerialInv, InHandInv
  <1> QED
    BY <1>1, <1>2, <1>3, CallAssumption
       DEF SerialInv, SerialTypes, NobodyBehindStop, InHandInv, MarkerInv, ThreadInv, CloserInv

\* close puts the marker behind everything, once.
LEMMA CloseInv ==
  ASSUME SerialInv, NEW k \in Closer, CloseIdle(k) \/ CloseAndJoin(k) \/ Joined(k)
  PROVE  SerialInv'
  <1>1. CASE CloseIdle(k)
    BY <1>1 DEF CloseIdle, SerialInv, SerialTypes, NobodyBehindStop, InHandInv, MarkerInv,
      ThreadInv, CloserInv
  <1>2. CASE Joined(k)
    <2>1. closed
      BY <1>2 DEF Joined, SerialInv, ThreadInv
    <2> QED
      BY <1>2, <2>1 DEF Joined, SerialInv, SerialTypes, NobodyBehindStop, InHandInv, MarkerInv,
        ThreadInv, CloserInv
  <1>3. CASE CloseAndJoin(k) /\ closed
    BY <1>3 DEF CloseAndJoin, Marker, SerialInv, SerialTypes, NobodyBehindStop, InHandInv,
      MarkerInv, ThreadInv, CloserInv
  <1>4. CASE CloseAndJoin(k) /\ ~closed
    <2>1. /\ queue \in Seq(Item) /\ Stop \in Item
          /\ queue' = Append(queue, Stop) /\ closed'
          /\ thread # "none" /\ thread \notin {"finalizing", "ended"}
          /\ UNCHANGED <<thread, inited, running, call, terminal>>
      BY <1>4 DEF CloseAndJoin, Marker, SerialInv, SerialTypes, ThreadInv, Item
    <2>2. /\ queue' \in Seq(Item)
          /\ Len(queue) \in Nat /\ DOMAIN queue = 1 .. Len(queue)
          /\ Len(queue') = Len(queue) + 1
          /\ DOMAIN queue' = 1 .. Len(queue) + 1
          /\ \A i \in 1 .. Len(queue) : queue'[i] = queue[i]
          /\ queue'[Len(queue) + 1] = Stop
      BY <2>1, AppendFacts, LenProperties
    <2>3. \A i \in DOMAIN queue : queue[i] # Stop
      BY <1>4 DEF SerialInv, MarkerInv
    <2>4. NobodyBehindStop'
      <3>1. \A i \in 1 .. Len(queue') - 1 : queue'[i] # Stop
        BY <2>2, <2>3
      <3>2. \A i, j \in DOMAIN queue' : i # j => queue'[i] # queue'[j]
        BY <2>2, <2>3 DEF SerialInv, NobodyBehindStop
      <3>3. \A d \in Call : (\E i \in DOMAIN queue' : queue'[i] = d)
                              <=> \E i \in DOMAIN queue : queue[i] = d
        BY <2>2, CallAssumption
      <3> QED
        BY <3>1, <3>2, <3>3, <2>1 DEF SerialInv, NobodyBehindStop
    <2>5. InHandInv' /\ MarkerInv' /\ ThreadInv'
      BY <2>1, <2>2, CallAssumption DEF SerialInv, SerialTypes, InHandInv, MarkerInv, ThreadInv
    <2>6. SerialTypes' /\ CloserInv'
      BY <1>4, <2>1, <2>2 DEF CloseAndJoin, SerialInv, SerialTypes, CloserInv
    <2> QED
      BY <2>4, <2>5, <2>6 DEF SerialInv
  <1> QED
    BY <1>1, <1>2, <1>3, <1>4

\* The strengthened invariant is preserved by every step.
LEMMA NextInv == ASSUME SerialInv, [SerialNext]_serialVars PROVE SerialInv'
  <1>1. CASE UNCHANGED serialVars
    BY <1>1 DEF serialVars, SerialInv, SerialTypes, NobodyBehindStop, InHandInv, MarkerInv,
      ThreadInv, CloserInv
  <1>2. CASE \E c \in Call : FirstCall(c) \/ FirstCallFails(c) \/ LaterCall(c) \/ RefusedCall(c)
    BY <1>2, EnqueueInv, TurnedAwayInv
  <1>3. CASE Owner
    BY <1>3, TakenInv, ThreadStepInv, ReturnInv DEF Owner
  <1>4. CASE \E k \in Closer : CloseIdle(k) \/ CloseAndJoin(k) \/ Joined(k)
    BY <1>4, CloseInv
  <1> QED
    BY <1>1, <1>2, <1>3, <1>4 DEF SerialNext

\* The strengthened invariant of the serial owner.
THEOREM Invariance == SerialSpec => []SerialInv
  BY InitInv, NextInv, PTL DEF SerialSpec

\* Types, and a queue never longer than the calls and one marker.
THEOREM SerialTypeCorrect == SerialSpec => []SerialTypeOK
  <1>1. SerialInv => SerialTypeOK
    BY TypeFromInv
  <1> QED
    BY <1>1, Invariance, PTL

\* Every waiting call is in hand or before the marker (call and close).
THEOREM NobodyBehindStopHolds == SerialSpec => []NobodyBehindStop
  <1>1. SerialInv => NobodyBehindStop
    BY DEF SerialInv
  <1> QED
    BY <1>1, Invariance, PTL

\* A close that returned left no waiting call behind (close's join).
THEOREM CloseMeansDoneHolds == SerialSpec => []CloseMeansDone
  <1>1. ASSUME SerialInv PROVE CloseMeansDone
    <2> SUFFICES ASSUME thread # "unstarted", NEW k \in Closer, closer[k] \in {"closed", "raised"}
                 PROVE  thread \in {"none", "ended"} /\ \A c \in Call : call[c] # "queued"
      BY DEF CloseMeansDone
    <2>1. thread \in {"none", "ended"}
      BY <1>1 DEF SerialInv, CloserInv
    <2>2. queue = <<>> /\ running.call = NoCall
      BY <1>1, <2>1 DEF SerialInv, ThreadInv
    <2> QED
      BY <1>1, <2>1, <2>2, CallAssumption DEF SerialInv, NobodyBehindStop
  <1> QED
    BY <1>1, Invariance, PTL

-----------------------------------------------------------------------------
(***************************************************************************)
(* The owner implements the serial service.  The queue without its marker  *)
(* is a sequence of calls (QueueSplit); a step of the owner takes from its *)
(* front, a caller adds at its end, and the marker moves neither.          *)
(***************************************************************************)
\* Before the thread exists nobody has been answered.
FreshInv == thread = "none" => \A c \in Call : call[c] \notin Answered

\* The queue q without its marker.
Unmark(q) == IF q # <<>> /\ q[Len(q)] = Stop THEN SubSeq(q, 1, Len(q) - 1) ELSE q

\* The variables of the service, as SerialRuntimeOwner maps them.
Front   == IF running.call = NoCall THEN <<>> ELSE <<running.call>>
Waiters == Front \o Unmarked
Told    == {c \in Call : call[c] \in Answered}
Stage   == CASE thread = "ended" -> "released"
             [] closed /\ thread # "ended" -> "shut"
             [] OTHER -> "open"
Dead    == thread = "unstarted"

\* A sequence with a first item in front of it.
LEMMA ConsFacts ==
  ASSUME NEW S, NEW x \in S, NEW w \in Seq(S)
  PROVE  /\ <<x>> \o w \in Seq(S) /\ <<x>> \o w # <<>>
         /\ Head(<<x>> \o w) = x /\ Tail(<<x>> \o w) = w
  <1> DEFINE s == <<x>> \o w
  <1>1. /\ <<x>> \in Seq(S) /\ Len(<<x>>) = 1 /\ <<x>>[1] = x
        /\ Len(w) \in Nat
    BY LenProperties
  <1>2. /\ s \in Seq(S) /\ Len(s) = 1 + Len(w)
        /\ \A i \in 1 .. 1 + Len(w) : s[i] = IF i <= 1 THEN <<x>>[i] ELSE w[i - 1]
    BY <1>1, ConcatProperties
  <1> HIDE DEF s
  <1>3. s # <<>>
    BY <1>1, <1>2, EmptySeq
  <1>4. Head(s) = x
    BY <1>1, <1>2, <1>3, TailFacts
  <1>5. /\ Tail(s) \in Seq(S) /\ Len(Tail(s)) = Len(w)
        /\ \A i \in 1 .. Len(w) : Tail(s)[i] = w[i]
    BY <1>1, <1>2, <1>3, TailFacts
  <1>6. Tail(s) = w
    BY <1>5, SeqEqual
  <1> QED
    BY <1>2, <1>3, <1>4, <1>6 DEF s

\* Taking a sequence apart and putting it together.
LEMMA HeadTailFacts ==
  ASSUME NEW S, NEW w \in Seq(S), w # <<>>
  PROVE  <<Head(w)>> \o Tail(w) = w
  <1>1. Head(w) \in S /\ Tail(w) \in Seq(S)
    BY TailFacts
  <1> DEFINE s == <<Head(w)>> \o Tail(w)
  <1>2. /\ s \in Seq(S) /\ Len(s) = 1 + Len(Tail(w))
        /\ \A i \in 1 .. 1 + Len(Tail(w)) : s[i] = IF i <= 1 THEN <<Head(w)>>[i] ELSE Tail(w)[i - 1]
    <2>1. <<Head(w)>> \in Seq(S) /\ Len(<<Head(w)>>) = 1
      BY <1>1
    <2> QED
      BY <1>1, <2>1, ConcatProperties
  <1> HIDE DEF s
  <1>3. Len(s) = Len(w) /\ \A i \in 1 .. Len(s) : s[i] = w[i]
    BY <1>2, TailFacts
  <1>4. s = w
    BY <1>2, <1>3, SeqEqual
  <1> QED
    BY <1>4 DEF s

LEMMA UnmarkAppend == ASSUME NEW w \in Seq(Call) PROVE Unmark(Append(w, Stop)) = w
  <1> DEFINE q == Append(w, Stop)
  <1>1. w \in Seq(Item) /\ Stop \in Item
    BY SeqMonotonic DEF Item
  <1>2. /\ q \in Seq(Item) /\ q # <<>> /\ Len(q) = Len(w) + 1 /\ q[Len(w) + 1] = Stop
        /\ Len(w) \in Nat /\ \A i \in 1 .. Len(w) : q[i] = w[i]
    BY <1>1, AppendProperties, LenProperties
  <1> HIDE DEF q
  <1>3. Unmark(q) = SubSeq(q, 1, Len(w))
    BY <1>2 DEF Unmark
  <1>4. \A i \in 1 .. Len(w) : q[i] \in Call
    BY <1>2, ElementOfSeq
  <1>5. /\ SubSeq(q, 1, Len(w)) \in Seq(Call) /\ Len(SubSeq(q, 1, Len(w))) = Len(w)
        /\ \A i \in 1 .. Len(w) : SubSeq(q, 1, Len(w))[i] = q[i]
    <2>1. /\ SubSeq(q, 1, Len(w)) \in Seq(Call)
          /\ Len(SubSeq(q, 1, Len(w))) = IF 1 <= Len(w) THEN Len(w) - 1 + 1 ELSE 0
          /\ \A i \in 1 .. Len(w) - 1 + 1 : SubSeq(q, 1, Len(w))[i] = q[1 + i - 1]
      BY <1>2, <1>4, SubSeqProperties
    <2> QED
      BY <2>1, <1>2
  <1>6. SubSeq(q, 1, Len(w)) = w
    BY <1>2, <1>5, SeqEqual
  <1> QED
    BY <1>3, <1>6 DEF q

LEMMA UnmarkPlain == ASSUME NEW w \in Seq(Call) PROVE Unmark(w) = w
  <1>1. w # <<>> => w[Len(w)] \in Call
    BY EmptySeq, ElementOfSeq
  <1> QED
    BY <1>1, CallAssumption DEF Unmark

\* The queue is a sequence of calls, with the marker behind it or without.
LEMMA QueueSplit ==
  ASSUME SerialInv
  PROVE  \E w \in Seq(Call) : queue = w \/ (queue = Append(w, Stop) /\ closed)
  <1>1. queue \in Seq(Item) /\ Len(queue) \in Nat /\ DOMAIN queue = 1 .. Len(queue)
    BY LenProperties DEF SerialInv, SerialTypes
  <1>2. CASE \A i \in DOMAIN queue : queue[i] # Stop
    <2>1. \A i \in 1 .. Len(queue) : queue[i] \in Call
      BY <1>1, <1>2, ElementOfSeq DEF Item
    <2>2. queue \in [1 .. Len(queue) -> Call]
      BY <1>1, <2>1, LenProperties
    <2>3. queue \in Seq(Call)
      BY <1>1, <2>2, SeqDef
    <2> QED
      BY <2>3
  <1>3. CASE \E i \in DOMAIN queue : queue[i] = Stop
    <2>1. queue # <<>>
      BY <1>1, <1>3, EmptySeq
    <2>2. PICK s \in Seq(Item), e \in Item : queue = Append(s, e)
      BY <1>1, <2>1, SequenceEmptyOrAppend
    <2>3. /\ Len(s) \in Nat /\ Len(queue) = Len(s) + 1 /\ queue[Len(s) + 1] = e
          /\ \A i \in 1 .. Len(s) : queue[i] = s[i]
      BY <2>2, AppendProperties, LenProperties
    <2>4. \A i \in 1 .. Len(s) : queue[i] # Stop
      BY <2>3 DEF SerialInv, NobodyBehindStop
    <2>5. e = Stop
      BY <1>1, <1>3, <2>3, <2>4
    <2>6. \A i \in 1 .. Len(s) : s[i] \in Call
      BY <2>3, <2>4, ElementOfSeq DEF Item
    <2>7. s \in [1 .. Len(s) -> Call]
      BY <2>6, LenProperties
    <2>8. s \in Seq(Call)
      BY <2>3, <2>7, SeqDef
    <2>9. closed
      BY <1>3 DEF SerialInv, MarkerInv
    <2> QED
      BY <2>2, <2>5, <2>8, <2>9
  <1> QED
    BY <1>2, <1>3

LEMMA FreshInit == ASSUME SerialInit PROVE FreshInv
  BY DEF SerialInit, FreshInv

LEMMA FreshNext == ASSUME SerialInv, FreshInv, [SerialNext]_serialVars PROVE FreshInv'
  BY DEF SerialInv, SerialTypes, ThreadInv, FreshInv, SerialNext, serialVars, Owner, FirstCall,
    FirstCallFails, LaterCall, RefusedCall,
     Initialize, AnswerInitError, Take, InlineCall, InlineReturn, Return, TakeStop, Finalize, Free,
     CloseIdle, CloseAndJoin, Joined

\* Call of a function that is accepted: it goes to the end.
LEMMA AcceptMaps ==
  ASSUME SerialInv, NEW c \in Call, FirstCall(c) \/ LaterCall(c)
  PROVE  Service!Accept(c)
  <1>1. /\ call[c] = "new" /\ ~closed /\ queue' = Append(queue, c)
        /\ call' = [call EXCEPT ![c] = "queued"] /\ call \in [Call -> CallState]
        /\ UNCHANGED <<closed, running>>
        /\ thread # "ended" /\ thread' # "ended" /\ (thread = "unstarted" <=> thread' = "unstarted")
    BY DEF FirstCall, LaterCall, Accepts, SerialInv, SerialTypes, ThreadInv
  <1>2. queue \in Seq(Call)
    BY <1>1, QueueSplit
  <1>3. Append(queue, c) \in Seq(Call)
    BY <1>2, AppendProperties
  <1>4. Unmarked = queue /\ Unmarked' = Append(queue, c)
    BY <1>1, <1>2, <1>3, UnmarkPlain DEF Unmark, Unmarked
  <1>5. Front \in Seq(Call) /\ Front' = Front
    <2>1. running.call \in Call \cup {NoCall}
      BY DEF SerialInv, SerialTypes
    <2> QED
      BY <1>1, <2>1 DEF Front
  <1>6. Waiters' = Append(Waiters, c)
    <2>1. Waiters \in Seq(Call)
      BY <1>2, <1>4, <1>5, ConcatProperties DEF Waiters
    <2>2. Append(Waiters, c) = Waiters \o <<c>> /\ Append(queue, c) = queue \o <<c>>
      BY <1>2, <2>1, AppendIsConcat
    <2>3. <<c>> \in Seq(Call)
      OBVIOUS
    <2>4. Front \o (queue \o <<c>>) = (Front \o queue) \o <<c>>
      BY <1>2, <1>5, <2>3, ConcatAssociative
    <2> QED
      BY <1>4, <1>5, <2>2, <2>4 DEF Waiters
  <1>7. \A i \in DOMAIN Waiters : Waiters[i] # c
    <2>1. (\A i \in DOMAIN queue : queue[i] # c) /\ running.call # c
      BY <1>1 DEF SerialInv, NobodyBehindStop
    <2>2. /\ Len(Waiters) = Len(Front) + Len(queue)
          /\ \A i \in 1 .. Len(Front) + Len(queue) :
               Waiters[i] = IF i <= Len(Front) THEN Front[i] ELSE queue[i - Len(Front)]
          /\ DOMAIN Waiters = 1 .. Len(Waiters)
      BY <1>2, <1>4, <1>5, ConcatProperties, LenProperties DEF Waiters
    <2>3. /\ Len(Front) \in Nat /\ DOMAIN queue = 1 .. Len(queue) /\ Len(queue) \in Nat
          /\ \A i \in 1 .. Len(Front) : Front[i] # c
      <3>1. CASE running.call = NoCall
        BY <1>2, <1>5, <3>1, LenProperties, EmptySeq DEF Front
      <3>2. CASE running.call # NoCall
        BY <1>2, <2>1, <3>2, LenProperties DEF Front
      <3> QED
        BY <3>1, <3>2
    <2> SUFFICES ASSUME NEW i \in 1 .. Len(Front) + Len(queue) PROVE Waiters[i] # c
      BY <2>2
    <2>4. CASE i <= Len(Front)
      BY <2>2, <2>3, <2>4
    <2>5. CASE i > Len(Front)
      <3>1. i - Len(Front) \in DOMAIN queue
        BY <2>3, <2>5
      <3> QED
        BY <2>1, <2>2, <2>3, <2>5, <3>1
    <2> QED
      BY <2>3, <2>4, <2>5
  <1>8. c \notin Told /\ Told' = Told
    BY <1>1 DEF Told
  <1>9. Stage = "open" /\ Stage' = Stage /\ Dead' = Dead
    BY <1>1 DEF Stage, Dead
  <1>10. c \notin {Waiters[i] : i \in DOMAIN Waiters}
    BY <1>7
  <1> QED
    BY <1>6, <1>8, <1>9, <1>10 DEF Service!Accept, Service!Waiting, Waiters, Front, Told,
      Stage, Dead

\* The thread that could not be started leaves the service broken.
LEMMA BreakMaps ==
  ASSUME SerialInv, FreshInv, NEW c \in Call, FirstCallFails(c)
  PROVE  Service!Break
  <1>1. /\ thread = "none" /\ thread' = "unstarted" /\ ~closed /\ queue = <<>> /\ running.call = NoCall
        /\ call' = [call EXCEPT ![c] = "startError"] /\ call \in [Call -> CallState]
        /\ UNCHANGED <<closed, queue, running>>
        /\ \A d \in Call : call[d] \notin Answered
    BY DEF FirstCallFails, Accepts, SerialInv, SerialTypes, ThreadInv, FreshInv
  <1>2. Unmarked = <<>> /\ Unmarked' = <<>>
    BY <1>1 DEF Unmarked
  <1>3. Waiters = <<>> /\ Waiters' = Waiters
    <2>1. Front = <<>> /\ Front' = <<>>
      BY <1>1 DEF Front
    <2>2. <<>> \o <<>> = <<>>
      BY ConcatEmptySeq, EmptySeq
    <2> QED
      BY <1>2, <2>1, <2>2 DEF Waiters
  <1>4. Told = {} /\ Told' = {}
    BY <1>1 DEF Told
  <1>5. Stage = "open" /\ Stage' = Stage /\ Dead'
    BY <1>1 DEF Stage, Dead
  <1> QED
    BY <1>3, <1>4, <1>5 DEF Service!Break, Waiters, Front, Told, Stage, Dead

\* What a step takes from the queue, the service sees at the front.
LEMMA TakenMaps ==
  ASSUME SerialInv, Free, Head(queue) # Stop, queue' = Tail(queue)
  PROVE  /\ Head(queue) \in Call
         /\ Unmarked \in Seq(Call) /\ Unmarked # <<>> /\ Head(Unmarked) = Head(queue)
         /\ Unmarked' = Tail(Unmarked)
  <1>1. PICK w \in Seq(Call) : queue = w \/ (queue = Append(w, Stop) /\ closed)
    BY QueueSplit
  <1>2. Unmarked = w
    BY <1>1, UnmarkPlain, UnmarkAppend DEF Unmarked, Unmark
  <1>3. w # <<>> /\ Head(queue) = Head(w)
    BY <1>1, HeadTailAppend DEF Free
  <1>4. Head(w) \in Call /\ Tail(w) \in Seq(Call)
    BY <1>3, TailFacts
  <1>5. queue' = Tail(w) \/ queue' = Append(Tail(w), Stop)
    BY <1>1, <1>3, HeadTailAppend
  <1>6. Unmarked' = Tail(w)
    BY <1>4, <1>5, UnmarkPlain, UnmarkAppend DEF Unmarked, Unmark
  <1> QED
    BY <1>2, <1>3, <1>4, <1>6

LEMMA InitErrorMaps == ASSUME SerialInv, AnswerInitError PROVE Service!Answer
  <1>1. /\ Free /\ Head(queue) # Stop /\ queue' = Tail(queue) /\ thread = "serving" /\ running.call = NoCall
        /\ call' = [call EXCEPT ![Head(queue)] = "initError"] /\ call \in [Call -> CallState]
        /\ UNCHANGED <<closed, thread, running>>
    BY DEF AnswerInitError, Free, SerialInv, SerialTypes
  <1>2. /\ Head(queue) \in Call /\ Unmarked \in Seq(Call) /\ Unmarked # <<>>
        /\ Head(Unmarked) = Head(queue) /\ Unmarked' = Tail(Unmarked) /\ Tail(Unmarked) \in Seq(Call)
    BY <1>1, TakenMaps, HeadTailProperties
  <1>3. Waiters = Unmarked /\ Waiters' = Unmarked'
    <2>1. Front = <<>> /\ Front' = <<>>
      BY <1>1 DEF Front
    <2> QED
      BY <1>2, <2>1, ConcatEmptySeq DEF Waiters
  <1>4. Told' = Told \cup {Head(queue)}
    BY <1>1, <1>2 DEF Told
  <1>5. Stage' = Stage /\ Dead' = Dead /\ ~Dead
    BY <1>1 DEF Stage, Dead
  <1>6. Waiters # <<>> /\ Waiters' = Tail(Waiters) /\ Told' = Told \cup {Head(Waiters)}
    BY <1>2, <1>3, <1>4
  <1> QED
    BY <1>5, <1>6 DEF Service!Answer, Waiters, Front, Told, Stage, Dead

LEMMA ReturnMaps == ASSUME SerialInv, Return PROVE Service!Answer
  <1>1. /\ running.call \in Call /\ running.call # NoCall /\ running' = [call |-> NoCall, inner |-> "no"]
        /\ UNCHANGED <<closed, thread, queue>> /\ thread = "serving"
        /\ call \in [Call -> CallState]
        /\ \E r \in {"value", "error"} : call' = [call EXCEPT ![running.call] = r]
    BY DEF Return, SerialInv, SerialTypes, ThreadInv
  <1>2. PICK w \in Seq(Call) : queue = w \/ (queue = Append(w, Stop) /\ closed)
    BY QueueSplit
  <1>3. Unmarked = w /\ Unmarked' = w
    BY <1>1, <1>2, UnmarkPlain, UnmarkAppend DEF Unmarked, Unmark
  <1>4. Front = <<running.call>> /\ Front' = <<>>
    BY <1>1 DEF Front
  <1>5. Waiters = <<running.call>> \o w /\ Waiters' = w
    BY <1>3, <1>4, ConcatEmptySeq DEF Waiters
  <1>6. Waiters # <<>> /\ Head(Waiters) = running.call /\ Tail(Waiters) = w
    BY <1>1, <1>5, ConsFacts
  <1>7. Told' = Told \cup {running.call}
    BY <1>1 DEF Told
  <1>8. Stage' = Stage /\ Dead' = Dead /\ ~Dead
    BY <1>1 DEF Stage, Dead
  <1>9. Waiters' = Tail(Waiters) /\ Told' = Told \cup {Head(Waiters)}
    BY <1>5, <1>6, <1>7
  <1> QED
    BY <1>6, <1>8, <1>9 DEF Service!Answer, Waiters, Front, Told, Stage, Dead

\* Taking a function in hand changes nothing for its caller.
LEMMA TakeMaps == ASSUME SerialInv, Take PROVE UNCHANGED Service!vars
  <1>1. /\ Free /\ Head(queue) # Stop /\ queue' = Tail(queue) /\ running.call = NoCall
        /\ running' = [call |-> Head(queue), inner |-> "no"]
        /\ UNCHANGED <<closed, thread, call>>
    BY DEF Take, Free
  <1>2. /\ Head(queue) \in Call /\ Unmarked \in Seq(Call) /\ Unmarked # <<>>
        /\ Head(Unmarked) = Head(queue) /\ Unmarked' = Tail(Unmarked)
    BY <1>1, TakenMaps
  <1>3. Front = <<>> /\ Front' = <<Head(queue)>>
    BY <1>1, <1>2, CallAssumption DEF Front
  <1>4. Waiters = Unmarked
    BY <1>2, <1>3, ConcatEmptySeq DEF Waiters
  <1>5. Waiters' = <<Head(Unmarked)>> \o Tail(Unmarked)
    BY <1>2, <1>3 DEF Waiters
  <1>6. Waiters' = Waiters
    BY <1>2, <1>4, <1>5, HeadTailFacts
  <1>7. Told' = Told /\ Stage' = Stage /\ Dead' = Dead
    BY <1>1 DEF Told, Stage, Dead
  <1> QED
    BY <1>6, <1>7 DEF Service!vars, Waiters, Front, Told, Stage, Dead

\* The marker that is taken was alone in the queue.
LEMMA TakeStopMaps == ASSUME SerialInv, TakeStop PROVE UNCHANGED Service!vars
  <1>1. /\ thread = "serving" /\ running.call = NoCall /\ queue # <<>> /\ Head(queue) = Stop
        /\ queue' = Tail(queue) /\ thread' = "finalizing" /\ UNCHANGED <<closed, running, call>>
    BY DEF TakeStop, Free
  <1>2. PICK w \in Seq(Call) : queue = w \/ (queue = Append(w, Stop) /\ closed)
    BY QueueSplit
  <1>3. w = <<>>
    <2> SUFFICES ASSUME w # <<>> PROVE FALSE
      OBVIOUS
    <2>1. Head(w) \in Call /\ Head(queue) = Head(w)
      BY <1>2, TailFacts, HeadTailAppend
    <2> QED
      BY <1>1, <2>1, CallAssumption
  <1>4. Unmarked = <<>> /\ queue' = <<>>
    BY <1>1, <1>2, <1>3, UnmarkAppend, HeadTailAppend DEF Unmarked, Unmark
  <1>5. Unmarked' = <<>>
    BY <1>4 DEF Unmarked
  <1>6. Waiters' = Waiters
    BY <1>1, <1>4, <1>5 DEF Waiters, Front
  <1>7. Told' = Told /\ Stage' = Stage /\ Dead' = Dead
    BY <1>1 DEF Told, Stage, Dead
  <1> QED
    BY <1>6, <1>7 DEF Service!vars, Waiters, Front, Told, Stage, Dead

\* The thread ends behind the last answer.
LEMMA FinalizeMaps == ASSUME SerialInv, Finalize PROVE Service!Release
  <1>1. /\ thread = "finalizing" /\ thread' = "ended" /\ closed /\ queue = <<>> /\ running.call = NoCall
        /\ UNCHANGED <<closed, queue, running, call>>
    BY DEF Finalize, SerialInv, ThreadInv
  <1>2. Unmarked = <<>> /\ Unmarked' = <<>>
    BY <1>1 DEF Unmarked
  <1>3. Waiters = <<>> /\ Waiters' = Waiters
    <2>1. Front = <<>> /\ Front' = <<>>
      BY <1>1 DEF Front
    <2>2. <<>> \o <<>> = <<>>
      BY ConcatEmptySeq, EmptySeq
    <2> QED
      BY <1>2, <2>1, <2>2 DEF Waiters
  <1>4. Told' = Told /\ Stage = "shut" /\ Stage' = "released" /\ ~Dead /\ Dead' = Dead
    BY <1>1 DEF Told, Stage, Dead
  <1> QED
    BY <1>3, <1>4 DEF Service!Release, Waiters, Front, Told, Stage, Dead

\* The first close shuts the service; the marker is nobody's call.
LEMMA CloseMaps ==
  ASSUME SerialInv, NEW k \in Closer, CloseIdle(k) \/ CloseAndJoin(k)
  PROVE  Service!Shut \/ UNCHANGED Service!vars
  <1>1. /\ closed' = TRUE /\ UNCHANGED <<thread, running, call>>
        /\ closed \in BOOLEAN /\ (thread = "ended" => closed)
        /\ queue' = queue \/ (~closed /\ queue' = Append(queue, Stop))
    BY DEF CloseIdle, CloseAndJoin, Marker, SerialInv, SerialTypes, ThreadInv
  <1>2. Unmarked' = Unmarked
    <2>1. CASE queue' = queue
      BY <2>1 DEF Unmarked
    <2>2. CASE ~closed /\ queue' = Append(queue, Stop)
      <3>1. queue \in Seq(Call)
        BY <2>2, QueueSplit
      <3> QED
        BY <2>2, <3>1, UnmarkPlain, UnmarkAppend DEF Unmarked, Unmark
    <2> QED
      BY <1>1, <2>1, <2>2
  <1>3. Waiters' = Waiters /\ Told' = Told /\ Dead' = Dead
    BY <1>1, <1>2 DEF Waiters, Front, Told, Dead
  <1>4. CASE closed
    <2>1. Stage' = Stage
      BY <1>1, <1>4 DEF Stage
    <2> QED
      BY <1>3, <2>1 DEF Service!vars, Waiters, Front, Told, Stage, Dead
  <1>5. CASE ~closed
    <2>1. Stage = "open" /\ Stage' = "shut"
      BY <1>1, <1>5 DEF Stage
    <2> QED
      BY <1>3, <2>1 DEF Service!Shut, Waiters, Front, Told, Stage, Dead
  <1> QED
    BY <1>1, <1>4, <1>5

\* What happens out of the service's sight.
LEMMA QuietMaps ==
  ASSUME SerialInv,
         \/ \E c \in Call : RefusedCall(c)
         \/ Initialize \/ InlineCall \/ InlineReturn
         \/ \E k \in Closer : Joined(k)
         \/ UNCHANGED serialVars
  PROVE  UNCHANGED Service!vars
  <1>1. /\ closed' = closed /\ queue' = queue /\ running'.call = running.call
        /\ \A d \in Call : call'[d] \in Answered <=> call[d] \in Answered
        /\ thread' = thread \/ (thread = "initializing" /\ thread' = "serving")
    BY DEF RefusedCall, Initialize, InlineCall, InlineReturn, Joined, serialVars, SerialInv,
      SerialTypes
  <1>2. Waiters' = Waiters
    BY <1>1 DEF Waiters, Front, Unmarked
  <1>3. Told' = Told
    BY <1>1 DEF Told
  <1>4. Stage' = Stage /\ Dead' = Dead
    BY <1>1 DEF Stage, Dead
  <1> QED
    BY <1>2, <1>3, <1>4 DEF Service!vars, Waiters, Front, Told, Stage, Dead

LEMMA InitMaps == ASSUME SerialInit PROVE Service!Init
  <1>1. queue = <<>> /\ running.call = NoCall /\ thread = "none" /\ ~closed
        /\ \A c \in Call : call[c] = "new"
    BY DEF SerialInit
  <1>2. Waiters = <<>>
    <2>1. Front = <<>> /\ Unmarked = <<>>
      BY <1>1 DEF Front, Unmarked
    <2>2. <<>> \o <<>> = <<>>
      BY ConcatEmptySeq, EmptySeq
    <2> QED
      BY <2>1, <2>2 DEF Waiters
  <1>3. Told = {} /\ Stage = "open" /\ Dead = FALSE
    BY <1>1 DEF Told, Stage, Dead
  <1> QED
    BY <1>2, <1>3 DEF Service!Init, Waiters, Front, Told, Stage, Dead

LEMMA StepMaps ==
  ASSUME SerialInv, FreshInv, [SerialNext]_serialVars
  PROVE  Service!Next \/ UNCHANGED Service!vars
  <1>1. ASSUME NEW c \in Call, FirstCall(c) \/ LaterCall(c) PROVE Service!Next
    BY <1>1, AcceptMaps DEF Service!Next
  <1>2. ASSUME NEW c \in Call, FirstCallFails(c) PROVE Service!Next
    BY <1>2, BreakMaps DEF Service!Next
  <1>3. CASE Owner
    BY <1>3, InitErrorMaps, TakeMaps, ReturnMaps, TakeStopMaps, FinalizeMaps, QuietMaps
      DEF Owner, Service!Next
  <1>4. ASSUME NEW k \in Closer, CloseIdle(k) \/ CloseAndJoin(k)
        PROVE  Service!Next \/ UNCHANGED Service!vars
    BY <1>4, CloseMaps DEF Service!Next
  <1> QED
    BY <1>1, <1>2, <1>3, <1>4, QuietMaps DEF SerialNext

\* Every behaviour of the owner is one of the serial service: accepted calls
\* are answered once each, in order, and before the release (call, _run, close).
\* That the answers come is ImplementsSerialService, which the run checks.
THEOREM OwnerIsSerial == SerialSpec => Service!Init /\ [][Service!Next]_(Service!vars)
  <1>1. SerialInit => Service!Init
    BY InitMaps
  <1>2. SerialInit => FreshInv
    BY FreshInit
  <1>3. SerialInv /\ FreshInv /\ [SerialNext]_serialVars => FreshInv'
    BY FreshNext
  <1>4. SerialInv /\ FreshInv /\ [SerialNext]_serialVars => [Service!Next]_(Service!vars)
    BY StepMaps
  <1> QED
    BY <1>1, <1>2, <1>3, <1>4, Invariance, PTL DEF SerialSpec

(***************************************************************************)
(* Clipboard.                                                              *)
(***************************************************************************)
\* __enter__ has written, and nothing has been restored yet.
Written == {"commit", "verify", "again", "press", "settle", "restore"}

\* The numbers, and what the clipboard holds where they agree.
VersionInv ==
  /\ at = "replace" => /\ kept.seq <= seq /\ (seq = kept.seq => data = kept.data)
                       /\ data \in Copy \cup {kept.data}
  /\ at \in {"capture", "replace"} => data \notin {"ours", "partial"}
  /\ at = "capture" => kept.data = "empty"
  /\ kept.data \notin {"ours", "partial"}
  /\ at \in Written => /\ sequence <= Opened /\ (Opened = sequence => data = "ours")
                       /\ data \in Copy \cup {"ours"}

\* The type invariant in two parts.
FlagsOK == dirty \in BOOLEAN /\ wanted \in BOOLEAN /\ window \in BOOLEAN

ValuesOK ==
  /\ data \in Content /\ seq \in Nat /\ sequence \in Nat
  /\ holder \in {"none", "us", "other"}
  /\ copied \subseteq Copy
  /\ at \in {"capture", "replace", "commit", "verify", "again", "press", "settle",
             "restore", "release", "done"}
  /\ kept \in [data : Content, seq : Nat]
  /\ bitmap \in {"none", "ours", "windows", "freed", "leaked"}
  /\ pasted \in {"nothing", "pressed"} \cup Content
  /\ status \in {"not_started", "pending_restore", "not_requested", "restored",
                 "conflict", "restore_failed"}
  /\ faults \in 0 .. MaxFault

\* A lock is left over only on the way out.
LockInv ==
  /\ holder = "us" => at \in {"restore", "release", "done"}
  /\ dirty => holder = "us"

\* What the field took, and how the clipboard's number shows it.
PasteInv ==
  /\ pasted # "nothing" => at \in {"settle", "restore", "release", "done"}
  /\ at = "settle" => pasted # "nothing"
  /\ pasted = "pressed" => at = "settle"
  /\ at \in {"settle", "restore"} /\ pasted \notin {"nothing", "pressed", "ours"}
       => Opened # sequence
  /\ at \in {"release", "done"} /\ wanted /\ pasted \notin {"nothing", "ours"}
       => status \in {"conflict", "restore_failed"}

\* What has been lost or left behind, and what is said of it.
ReportInv ==
  /\ at \in {"release", "done"} /\ Lost
       => \/ status \in {"restore_failed", "conflict"}
          \/ status = "not_requested" /\ data = "ours"
  /\ bitmap = "leaked" => at \in {"release", "done"} /\ status = "restore_failed"
  /\ NothingHeldSilently

ClipboardIInv == ClipboardTypeOK /\ VersionInv /\ LockInv /\ PasteInv /\ ReportInv

\* What the action property says of one step.
StepKept ==
  (data \in Copy /\ (at = "capture" \/ data # kept.data)) => (data' \in Copy)

-----------------------------------------------------------------------------
LEMMA ClipboardInitInv == ASSUME ClipboardInit PROVE ClipboardIInv
  <1> USE CopyAssumption, BoundAssumption DEF ClipboardInit
  <1>1. FlagsOK
    BY Zenon DEF FlagsOK
  <1>2. ValuesOK
    BY DEF ValuesOK, Content
  <1>3. VersionInv /\ LockInv
    BY DEF VersionInv, LockInv, Written
  <1>4. PasteInv /\ ReportInv
    BY DEF PasteInv, ReportInv, NothingHeldSilently
  <1> QED
    BY <1>1, <1>2, <1>3, <1>4 DEF ClipboardIInv, FlagsOK, ValuesOK, ClipboardTypeOK

USE DEF Content, Written, Opened

LEMMA OtherCopiesInv ==
  ASSUME ClipboardIInv, NEW c \in Copy, OtherCopies(c)
  PROVE  ClipboardIInv' /\ StepKept
  <1> USE CopyAssumption, BoundAssumption
      DEF OtherCopies, transaction
  <1>1. ClipboardTypeOK'
    <2>1. FlagsOK'
      BY Zenon DEF ClipboardIInv, ClipboardTypeOK, FlagsOK
    <2>2. ValuesOK'
      BY DEF ClipboardIInv, ClipboardTypeOK, ValuesOK
    <2> QED
      BY <2>1, <2>2 DEF FlagsOK, ValuesOK, ClipboardTypeOK
  <1>2. VersionInv'
    BY DEF ClipboardIInv, ClipboardTypeOK, VersionInv, LockInv
  <1>3. LockInv'
    BY DEF ClipboardIInv, ClipboardTypeOK, LockInv
  <1>4. PasteInv'
    BY DEF ClipboardIInv, ClipboardTypeOK, VersionInv, PasteInv, LockInv
  <1>5. ReportInv'
    BY DEF ClipboardIInv, ClipboardTypeOK, VersionInv, LockInv, ReportInv, NothingHeldSilently,
      Lost
  <1>6. StepKept
    BY DEF ClipboardIInv, ClipboardTypeOK, VersionInv, LockInv, StepKept
  <1> QED
    BY <1>1, <1>2, <1>3, <1>4, <1>5, <1>6 DEF ClipboardIInv

LEMMA OtherOpensInv ==
  ASSUME ClipboardIInv, OtherOpens
  PROVE  ClipboardIInv' /\ StepKept
  <1> USE CopyAssumption, BoundAssumption
      DEF OtherOpens, transaction
  <1>1. ClipboardTypeOK'
    <2>1. FlagsOK'
      BY Zenon DEF ClipboardIInv, ClipboardTypeOK, FlagsOK
    <2>2. ValuesOK'
      BY DEF ClipboardIInv, ClipboardTypeOK, ValuesOK
    <2> QED
      BY <2>1, <2>2 DEF FlagsOK, ValuesOK, ClipboardTypeOK
  <1>2. VersionInv'
    BY DEF ClipboardIInv, ClipboardTypeOK, VersionInv, LockInv
  <1>3. LockInv'
    BY DEF ClipboardIInv, ClipboardTypeOK, LockInv
  <1>4. PasteInv'
    BY DEF ClipboardIInv, ClipboardTypeOK, VersionInv, PasteInv, LockInv
  <1>5. ReportInv'
    BY DEF ClipboardIInv, ClipboardTypeOK, VersionInv, LockInv, ReportInv, NothingHeldSilently,
      Lost
  <1>6. StepKept
    BY DEF ClipboardIInv, ClipboardTypeOK, VersionInv, LockInv, StepKept
  <1> QED
    BY <1>1, <1>2, <1>3, <1>4, <1>5, <1>6 DEF ClipboardIInv

LEMMA OtherClosesInv ==
  ASSUME ClipboardIInv, OtherCloses
  PROVE  ClipboardIInv' /\ StepKept
  <1> USE CopyAssumption, BoundAssumption
      DEF OtherCloses, transaction
  <1>1. ClipboardTypeOK'
    <2>1. FlagsOK'
      BY Zenon DEF ClipboardIInv, ClipboardTypeOK, FlagsOK
    <2>2. ValuesOK'
      BY DEF ClipboardIInv, ClipboardTypeOK, ValuesOK
    <2> QED
      BY <2>1, <2>2 DEF FlagsOK, ValuesOK, ClipboardTypeOK
  <1>2. VersionInv'
    BY DEF ClipboardIInv, ClipboardTypeOK, VersionInv, LockInv
  <1>3. LockInv'
    BY DEF ClipboardIInv, ClipboardTypeOK, LockInv
  <1>4. PasteInv'
    BY DEF ClipboardIInv, ClipboardTypeOK, VersionInv, PasteInv, LockInv
  <1>5. ReportInv'
    BY DEF ClipboardIInv, ClipboardTypeOK, VersionInv, LockInv, ReportInv, NothingHeldSilently,
      Lost
  <1>6. StepKept
    BY DEF ClipboardIInv, ClipboardTypeOK, VersionInv, LockInv, StepKept
  <1> QED
    BY <1>1, <1>2, <1>3, <1>4, <1>5, <1>6 DEF ClipboardIInv

LEMMA FieldPastesInv ==
  ASSUME ClipboardIInv, FieldPastes
  PROVE  ClipboardIInv' /\ StepKept
  <1> USE CopyAssumption, BoundAssumption
      DEF FieldPastes, clipboard
  <1>1. ClipboardTypeOK'
    <2>1. FlagsOK'
      BY Zenon DEF ClipboardIInv, ClipboardTypeOK, FlagsOK
    <2>2. ValuesOK'
      BY DEF ClipboardIInv, ClipboardTypeOK, ValuesOK
    <2> QED
      BY <2>1, <2>2 DEF FlagsOK, ValuesOK, ClipboardTypeOK
  <1>2. VersionInv'
    BY DEF ClipboardIInv, ClipboardTypeOK, VersionInv, LockInv
  <1>3. LockInv'
    BY DEF ClipboardIInv, ClipboardTypeOK, LockInv
  <1>4. PasteInv'
    BY DEF ClipboardIInv, ClipboardTypeOK, VersionInv, PasteInv, LockInv
  <1>5. ReportInv'
    BY DEF ClipboardIInv, ClipboardTypeOK, VersionInv, LockInv, ReportInv, NothingHeldSilently,
      Lost
  <1>6. StepKept
    BY DEF ClipboardIInv, ClipboardTypeOK, VersionInv, LockInv, StepKept
  <1> QED
    BY <1>1, <1>2, <1>3, <1>4, <1>5, <1>6 DEF ClipboardIInv

LEMMA CaptureInv ==
  ASSUME ClipboardIInv, Capture
  PROVE  ClipboardIInv' /\ StepKept
  <1> USE CopyAssumption, BoundAssumption
      DEF Capture, CanOpen, Failing, Closes
  <1>1. ClipboardTypeOK'
    <2>1. FlagsOK'
      BY Zenon DEF ClipboardIInv, ClipboardTypeOK, FlagsOK
    <2>2. ValuesOK'
      BY DEF ClipboardIInv, ClipboardTypeOK, ValuesOK
    <2> QED
      BY <2>1, <2>2 DEF FlagsOK, ValuesOK, ClipboardTypeOK
  <1>2. VersionInv'
    BY DEF ClipboardIInv, ClipboardTypeOK, VersionInv, LockInv
  <1>3. LockInv'
    BY DEF ClipboardIInv, ClipboardTypeOK, LockInv
  <1>4. PasteInv'
    BY DEF ClipboardIInv, ClipboardTypeOK, VersionInv, PasteInv, LockInv
  <1>5. ReportInv'
    BY DEF ClipboardIInv, ClipboardTypeOK, VersionInv, LockInv, ReportInv, NothingHeldSilently,
      Lost
  <1>6. StepKept
    BY DEF ClipboardIInv, ClipboardTypeOK, VersionInv, LockInv, StepKept
  <1> QED
    BY <1>1, <1>2, <1>3, <1>4, <1>5, <1>6 DEF ClipboardIInv

LEMMA CaptureFailsInv ==
  ASSUME ClipboardIInv, CaptureFails
  PROVE  ClipboardIInv' /\ StepKept
  <1> USE CopyAssumption, BoundAssumption
      DEF CaptureFails, CanOpen, Failing, Closes, CloseFails, UnlockFailed,
          CannotOpen, clipboard
  <1>1. ClipboardTypeOK'
    <2>1. FlagsOK'
      BY Zenon DEF ClipboardIInv, ClipboardTypeOK, FlagsOK
    <2>2. ValuesOK'
      BY DEF ClipboardIInv, ClipboardTypeOK, ValuesOK
    <2> QED
      BY <2>1, <2>2 DEF FlagsOK, ValuesOK, ClipboardTypeOK
  <1>2. VersionInv'
    BY DEF ClipboardIInv, ClipboardTypeOK, VersionInv, LockInv
  <1>3. LockInv'
    BY DEF ClipboardIInv, ClipboardTypeOK, LockInv
  <1>4. PasteInv'
    BY DEF ClipboardIInv, ClipboardTypeOK, VersionInv, PasteInv, LockInv
  <1>5. ReportInv'
    BY DEF ClipboardIInv, ClipboardTypeOK, VersionInv, LockInv, ReportInv, NothingHeldSilently,
      Lost
  <1>6. StepKept
    BY DEF ClipboardIInv, ClipboardTypeOK, VersionInv, LockInv, StepKept
  <1> QED
    BY <1>1, <1>2, <1>3, <1>4, <1>5, <1>6 DEF ClipboardIInv

LEMMA ReplaceRefusedInv ==
  ASSUME ClipboardIInv, ReplaceRefused
  PROVE  ClipboardIInv' /\ StepKept
  <1> USE CopyAssumption, BoundAssumption
      DEF ReplaceRefused, CanOpen, Failing, Closes, CloseFails,
          UnlockFailed, CannotOpen, clipboard
  <1>1. ClipboardTypeOK'
    <2>1. FlagsOK'
      BY Zenon DEF ClipboardIInv, ClipboardTypeOK, FlagsOK
    <2>2. ValuesOK'
      BY DEF ClipboardIInv, ClipboardTypeOK, ValuesOK
    <2> QED
      BY <2>1, <2>2 DEF FlagsOK, ValuesOK, ClipboardTypeOK
  <1>2. VersionInv'
    BY DEF ClipboardIInv, ClipboardTypeOK, VersionInv, LockInv
  <1>3. LockInv'
    BY DEF ClipboardIInv, ClipboardTypeOK, LockInv
  <1>4. PasteInv'
    BY DEF ClipboardIInv, ClipboardTypeOK, VersionInv, PasteInv, LockInv
  <1>5. ReportInv'
    BY DEF ClipboardIInv, ClipboardTypeOK, VersionInv, LockInv, ReportInv, NothingHeldSilently,
      Lost
  <1>6. StepKept
    BY DEF ClipboardIInv, ClipboardTypeOK, VersionInv, LockInv, StepKept
  <1> QED
    BY <1>1, <1>2, <1>3, <1>4, <1>5, <1>6 DEF ClipboardIInv

LEMMA ReplaceInv ==
  ASSUME ClipboardIInv, Replace
  PROVE  ClipboardIInv' /\ StepKept
  <1> USE CopyAssumption, BoundAssumption
      DEF Replace, CanOpen, Failing, Closes, CloseFails, Unlock
  <1>1. ClipboardTypeOK'
    <2>1. FlagsOK'
      BY Zenon DEF ClipboardIInv, ClipboardTypeOK, FlagsOK
    <2>2. ValuesOK'
      BY DEF ClipboardIInv, ClipboardTypeOK, ValuesOK
    <2> QED
      BY <2>1, <2>2 DEF FlagsOK, ValuesOK, ClipboardTypeOK
  <1>2. VersionInv'
    BY DEF ClipboardIInv, ClipboardTypeOK, VersionInv, LockInv
  <1>3. LockInv'
    BY DEF ClipboardIInv, ClipboardTypeOK, LockInv
  <1>4. PasteInv'
    BY DEF ClipboardIInv, ClipboardTypeOK, VersionInv, PasteInv, LockInv
  <1>5. ReportInv'
    BY DEF ClipboardIInv, ClipboardTypeOK, VersionInv, LockInv, ReportInv, NothingHeldSilently,
      Lost
  <1>6. StepKept
    BY DEF ClipboardIInv, ClipboardTypeOK, VersionInv, LockInv, StepKept
  <1> QED
    BY <1>1, <1>2, <1>3, <1>4, <1>5, <1>6 DEF ClipboardIInv

LEMMA ReplaceRollsBackInv ==
  ASSUME ClipboardIInv, ReplaceRollsBack
  PROVE  ClipboardIInv' /\ StepKept
  <1> USE CopyAssumption, BoundAssumption
      DEF ReplaceRollsBack, CanOpen, Failing, Closes, CloseFails,
          UnlockFailed, Transferred, PutBack, PutBackFails, RollbackStatus
  <1>1. ClipboardTypeOK'
    <2>1. FlagsOK'
      BY Zenon DEF ClipboardIInv, ClipboardTypeOK, FlagsOK
    <2>2. ValuesOK'
      BY DEF ClipboardIInv, ClipboardTypeOK, ValuesOK
    <2> QED
      BY <2>1, <2>2 DEF FlagsOK, ValuesOK, ClipboardTypeOK
  <1>2. VersionInv'
    BY DEF ClipboardIInv, ClipboardTypeOK, VersionInv, LockInv
  <1>3. LockInv'
    BY DEF ClipboardIInv, ClipboardTypeOK, LockInv
  <1>4. PasteInv'
    BY DEF ClipboardIInv, ClipboardTypeOK, VersionInv, PasteInv, LockInv
  <1>5. ReportInv'
    BY DEF ClipboardIInv, ClipboardTypeOK, VersionInv, LockInv, ReportInv, NothingHeldSilently,
      Lost
  <1>6. StepKept
    BY DEF ClipboardIInv, ClipboardTypeOK, VersionInv, LockInv, StepKept
  <1> QED
    BY <1>1, <1>2, <1>3, <1>4, <1>5, <1>6 DEF ClipboardIInv

LEMMA CommitInv ==
  ASSUME ClipboardIInv, Commit
  PROVE  ClipboardIInv' /\ StepKept
  <1> USE CopyAssumption, BoundAssumption
      DEF Commit, CanOpen, Failing, Closes, CloseFails, Unlock
  <1>1. ClipboardTypeOK'
    <2>1. FlagsOK'
      BY Zenon DEF ClipboardIInv, ClipboardTypeOK, FlagsOK
    <2>2. ValuesOK'
      BY DEF ClipboardIInv, ClipboardTypeOK, ValuesOK
    <2> QED
      BY <2>1, <2>2 DEF FlagsOK, ValuesOK, ClipboardTypeOK
  <1>2. VersionInv'
    BY DEF ClipboardIInv, ClipboardTypeOK, VersionInv, LockInv
  <1>3. LockInv'
    BY DEF ClipboardIInv, ClipboardTypeOK, LockInv
  <1>4. PasteInv'
    BY DEF ClipboardIInv, ClipboardTypeOK, VersionInv, PasteInv, LockInv
  <1>5. ReportInv'
    BY DEF ClipboardIInv, ClipboardTypeOK, VersionInv, LockInv, ReportInv, NothingHeldSilently,
      Lost
  <1>6. StepKept
    BY DEF ClipboardIInv, ClipboardTypeOK, VersionInv, LockInv, StepKept
  <1> QED
    BY <1>1, <1>2, <1>3, <1>4, <1>5, <1>6 DEF ClipboardIInv

LEMMA CommitFailsInv ==
  ASSUME ClipboardIInv, CommitFails
  PROVE  ClipboardIInv' /\ StepKept
  <1> USE CopyAssumption, BoundAssumption
      DEF CommitFails, CanOpen, Failing, Closes, CloseFails, UnlockFailed,
          CannotOpen, clipboard
  <1>1. ClipboardTypeOK'
    <2>1. FlagsOK'
      BY Zenon DEF ClipboardIInv, ClipboardTypeOK, FlagsOK
    <2>2. ValuesOK'
      BY DEF ClipboardIInv, ClipboardTypeOK, ValuesOK
    <2> QED
      BY <2>1, <2>2 DEF FlagsOK, ValuesOK, ClipboardTypeOK
  <1>2. VersionInv'
    BY DEF ClipboardIInv, ClipboardTypeOK, VersionInv, LockInv
  <1>3. LockInv'
    BY DEF ClipboardIInv, ClipboardTypeOK, LockInv
  <1>4. PasteInv'
    BY DEF ClipboardIInv, ClipboardTypeOK, VersionInv, PasteInv, LockInv
  <1>5. ReportInv'
    BY DEF ClipboardIInv, ClipboardTypeOK, VersionInv, LockInv, ReportInv, NothingHeldSilently,
      Lost
  <1>6. StepKept
    BY DEF ClipboardIInv, ClipboardTypeOK, VersionInv, LockInv, StepKept
  <1> QED
    BY <1>1, <1>2, <1>3, <1>4, <1>5, <1>6 DEF ClipboardIInv

LEMMA VerifyInv ==
  ASSUME ClipboardIInv, Verify
  PROVE  ClipboardIInv' /\ StepKept
  <1> USE CopyAssumption, BoundAssumption
      DEF Verify, CanOpen, Failing, Closes, CloseFails, Unlock, StillOurs
  <1>1. ClipboardTypeOK'
    <2>1. FlagsOK'
      BY Zenon DEF ClipboardIInv, ClipboardTypeOK, FlagsOK
    <2>2. ValuesOK'
      BY DEF ClipboardIInv, ClipboardTypeOK, ValuesOK
    <2> QED
      BY <2>1, <2>2 DEF FlagsOK, ValuesOK, ClipboardTypeOK
  <1>2. VersionInv'
    BY DEF ClipboardIInv, ClipboardTypeOK, VersionInv, LockInv
  <1>3. LockInv'
    BY DEF ClipboardIInv, ClipboardTypeOK, LockInv
  <1>4. PasteInv'
    BY DEF ClipboardIInv, ClipboardTypeOK, VersionInv, PasteInv, LockInv
  <1>5. ReportInv'
    BY DEF ClipboardIInv, ClipboardTypeOK, VersionInv, LockInv, ReportInv, NothingHeldSilently,
      Lost
  <1>6. StepKept
    BY DEF ClipboardIInv, ClipboardTypeOK, VersionInv, LockInv, StepKept
  <1> QED
    BY <1>1, <1>2, <1>3, <1>4, <1>5, <1>6 DEF ClipboardIInv

LEMMA BodyRaisesInv ==
  ASSUME ClipboardIInv, BodyRaises
  PROVE  ClipboardIInv' /\ StepKept
  <1> USE CopyAssumption, BoundAssumption
      DEF BodyRaises, clipboard
  <1>1. ClipboardTypeOK'
    <2>1. FlagsOK'
      BY Zenon DEF ClipboardIInv, ClipboardTypeOK, FlagsOK
    <2>2. ValuesOK'
      BY DEF ClipboardIInv, ClipboardTypeOK, ValuesOK
    <2> QED
      BY <2>1, <2>2 DEF FlagsOK, ValuesOK, ClipboardTypeOK
  <1>2. VersionInv'
    BY DEF ClipboardIInv, ClipboardTypeOK, VersionInv, LockInv
  <1>3. LockInv'
    BY DEF ClipboardIInv, ClipboardTypeOK, LockInv
  <1>4. PasteInv'
    BY DEF ClipboardIInv, ClipboardTypeOK, VersionInv, PasteInv, LockInv
  <1>5. ReportInv'
    BY DEF ClipboardIInv, ClipboardTypeOK, VersionInv, LockInv, ReportInv, NothingHeldSilently,
      Lost
  <1>6. StepKept
    BY DEF ClipboardIInv, ClipboardTypeOK, VersionInv, LockInv, StepKept
  <1> QED
    BY <1>1, <1>2, <1>3, <1>4, <1>5, <1>6 DEF ClipboardIInv

LEMMA PressInv ==
  ASSUME ClipboardIInv, Press
  PROVE  ClipboardIInv' /\ StepKept
  <1> USE CopyAssumption, BoundAssumption
      DEF Press, clipboard
  <1>1. ClipboardTypeOK'
    <2>1. FlagsOK'
      BY Zenon DEF ClipboardIInv, ClipboardTypeOK, FlagsOK
    <2>2. ValuesOK'
      BY DEF ClipboardIInv, ClipboardTypeOK, ValuesOK
    <2> QED
      BY <2>1, <2>2 DEF FlagsOK, ValuesOK, ClipboardTypeOK
  <1>2. VersionInv'
    BY DEF ClipboardIInv, ClipboardTypeOK, VersionInv, LockInv
  <1>3. LockInv'
    BY DEF ClipboardIInv, ClipboardTypeOK, LockInv
  <1>4. PasteInv'
    BY DEF ClipboardIInv, ClipboardTypeOK, VersionInv, PasteInv, LockInv
  <1>5. ReportInv'
    BY DEF ClipboardIInv, ClipboardTypeOK, VersionInv, LockInv, ReportInv, NothingHeldSilently,
      Lost
  <1>6. StepKept
    BY DEF ClipboardIInv, ClipboardTypeOK, VersionInv, LockInv, StepKept
  <1> QED
    BY <1>1, <1>2, <1>3, <1>4, <1>5, <1>6 DEF ClipboardIInv

LEMMA SettleInv ==
  ASSUME ClipboardIInv, Settle
  PROVE  ClipboardIInv' /\ StepKept
  <1> USE CopyAssumption, BoundAssumption
      DEF Settle, clipboard
  <1>1. ClipboardTypeOK'
    <2>1. FlagsOK'
      BY Zenon DEF ClipboardIInv, ClipboardTypeOK, FlagsOK
    <2>2. ValuesOK'
      BY DEF ClipboardIInv, ClipboardTypeOK, ValuesOK
    <2> QED
      BY <2>1, <2>2 DEF FlagsOK, ValuesOK, ClipboardTypeOK
  <1>2. VersionInv'
    BY DEF ClipboardIInv, ClipboardTypeOK, VersionInv, LockInv
  <1>3. LockInv'
    BY DEF ClipboardIInv, ClipboardTypeOK, LockInv
  <1>4. PasteInv'
    BY DEF ClipboardIInv, ClipboardTypeOK, VersionInv, PasteInv, LockInv
  <1>5. ReportInv'
    BY DEF ClipboardIInv, ClipboardTypeOK, VersionInv, LockInv, ReportInv, NothingHeldSilently,
      Lost
  <1>6. StepKept
    BY DEF ClipboardIInv, ClipboardTypeOK, VersionInv, LockInv, StepKept
  <1> QED
    BY <1>1, <1>2, <1>3, <1>4, <1>5, <1>6 DEF ClipboardIInv

LEMMA RestoreNotRequestedInv ==
  ASSUME ClipboardIInv, RestoreNotRequested
  PROVE  ClipboardIInv' /\ StepKept
  <1> USE CopyAssumption, BoundAssumption
      DEF RestoreNotRequested, clipboard
  <1>1. ClipboardTypeOK'
    <2>1. FlagsOK'
      BY Zenon DEF ClipboardIInv, ClipboardTypeOK, FlagsOK
    <2>2. ValuesOK'
      BY DEF ClipboardIInv, ClipboardTypeOK, ValuesOK
    <2> QED
      BY <2>1, <2>2 DEF FlagsOK, ValuesOK, ClipboardTypeOK
  <1>2. VersionInv'
    BY DEF ClipboardIInv, ClipboardTypeOK, VersionInv, LockInv
  <1>3. LockInv'
    BY DEF ClipboardIInv, ClipboardTypeOK, LockInv
  <1>4. PasteInv'
    BY DEF ClipboardIInv, ClipboardTypeOK, VersionInv, PasteInv, LockInv
  <1>5. ReportInv'
    BY DEF ClipboardIInv, ClipboardTypeOK, VersionInv, LockInv, ReportInv, NothingHeldSilently,
      Lost
  <1>6. StepKept
    BY DEF ClipboardIInv, ClipboardTypeOK, VersionInv, LockInv, StepKept
  <1> QED
    BY <1>1, <1>2, <1>3, <1>4, <1>5, <1>6 DEF ClipboardIInv

LEMMA RestoreInv ==
  ASSUME ClipboardIInv, Restore
  PROVE  ClipboardIInv' /\ StepKept
  <1> USE CopyAssumption, BoundAssumption
      DEF Restore, CanOpen, Failing, Closes, CloseFails, Unlock,
          Transferred, PutBack, StillOurs
  <1>1. ClipboardTypeOK'
    <2>1. FlagsOK'
      BY Zenon DEF ClipboardIInv, ClipboardTypeOK, FlagsOK
    <2>2. ValuesOK'
      BY DEF ClipboardIInv, ClipboardTypeOK, ValuesOK
    <2> QED
      BY <2>1, <2>2 DEF FlagsOK, ValuesOK, ClipboardTypeOK
  <1>2. VersionInv'
    BY DEF ClipboardIInv, ClipboardTypeOK, VersionInv, LockInv
  <1>3. LockInv'
    BY DEF ClipboardIInv, ClipboardTypeOK, LockInv
  <1>4. PasteInv'
    BY DEF ClipboardIInv, ClipboardTypeOK, VersionInv, PasteInv, LockInv
  <1>5. ReportInv'
    BY DEF ClipboardIInv, ClipboardTypeOK, VersionInv, LockInv, ReportInv, NothingHeldSilently,
      Lost
  <1>6. StepKept
    BY DEF ClipboardIInv, ClipboardTypeOK, VersionInv, LockInv, StepKept
  <1> QED
    BY <1>1, <1>2, <1>3, <1>4, <1>5, <1>6 DEF ClipboardIInv

LEMMA RestoreFailsInv ==
  ASSUME ClipboardIInv, RestoreFails
  PROVE  ClipboardIInv' /\ StepKept
  <1> USE CopyAssumption, BoundAssumption
      DEF RestoreFails, CanOpen, Failing, Closes, CloseFails, UnlockFailed,
          CannotOpen, Transferred, PutBackFails, StillOurs, clipboard
  <1>1. ClipboardTypeOK'
    <2>1. FlagsOK'
      BY Zenon DEF ClipboardIInv, ClipboardTypeOK, FlagsOK
    <2>2. ValuesOK'
      BY DEF ClipboardIInv, ClipboardTypeOK, ValuesOK
    <2> QED
      BY <2>1, <2>2 DEF FlagsOK, ValuesOK, ClipboardTypeOK
  <1>2. VersionInv'
    BY DEF ClipboardIInv, ClipboardTypeOK, VersionInv, LockInv
  <1>3. LockInv'
    BY DEF ClipboardIInv, ClipboardTypeOK, LockInv
  <1>4. PasteInv'
    BY DEF ClipboardIInv, ClipboardTypeOK, VersionInv, PasteInv, LockInv
  <1>5. ReportInv'
    BY DEF ClipboardIInv, ClipboardTypeOK, VersionInv, LockInv, ReportInv, NothingHeldSilently,
      Lost
  <1>6. StepKept
    BY DEF ClipboardIInv, ClipboardTypeOK, VersionInv, LockInv, StepKept
  <1> QED
    BY <1>1, <1>2, <1>3, <1>4, <1>5, <1>6 DEF ClipboardIInv

LEMMA RestoreConflictsInv ==
  ASSUME ClipboardIInv, RestoreConflicts
  PROVE  ClipboardIInv' /\ StepKept
  <1> USE CopyAssumption, BoundAssumption
      DEF RestoreConflicts, CanOpen, Failing, Closes, CloseFails,
          UnlockFailed, StillOurs, ConflictStatus
  <1>1. ClipboardTypeOK'
    <2>1. FlagsOK'
      BY Zenon DEF ClipboardIInv, ClipboardTypeOK, FlagsOK
    <2>2. ValuesOK'
      BY DEF ClipboardIInv, ClipboardTypeOK, ValuesOK
    <2> QED
      BY <2>1, <2>2 DEF FlagsOK, ValuesOK, ClipboardTypeOK
  <1>2. VersionInv'
    BY DEF ClipboardIInv, ClipboardTypeOK, VersionInv, LockInv
  <1>3. LockInv'
    BY DEF ClipboardIInv, ClipboardTypeOK, LockInv
  <1>4. PasteInv'
    BY DEF ClipboardIInv, ClipboardTypeOK, VersionInv, PasteInv, LockInv
  <1>5. ReportInv'
    BY DEF ClipboardIInv, ClipboardTypeOK, VersionInv, LockInv, ReportInv, NothingHeldSilently,
      Lost
  <1>6. StepKept
    BY DEF ClipboardIInv, ClipboardTypeOK, VersionInv, LockInv, StepKept
  <1> QED
    BY <1>1, <1>2, <1>3, <1>4, <1>5, <1>6 DEF ClipboardIInv

LEMMA ReleaseInv ==
  ASSUME ClipboardIInv, Release
  PROVE  ClipboardIInv' /\ StepKept
  <1> USE CopyAssumption, BoundAssumption
      DEF Release, Failing, Closes, Delete, CleanupStatus
  <1>1. ClipboardTypeOK'
    <2>a. dirty' \in {dirty, FALSE} /\ window' \in {window, FALSE} /\ wanted' = wanted
      BY Zenon
    <2>1. FlagsOK'
      BY <2>a, Zenon DEF ClipboardIInv, ClipboardTypeOK, FlagsOK
    <2>b. seq' \in {seq, seq + 1} /\ holder' \in {holder, "none"}
      <3>1. seq \in Nat /\ seq + 0 = seq
        BY DEF ClipboardIInv, ClipboardTypeOK
      <3> QED
        BY <3>1, Zenon
    <2>c. \E k \in {0, 1, 2} : faults' = faults + k /\ faults' <= MaxFault
      <3>1. \A b \in BOOLEAN : (IF b THEN 1 ELSE 0) \in {0, 1}
        OBVIOUS
      <3> QED
        BY <3>1
    <2>d. status' \in {"restore_failed", status} /\ bitmap' \in {bitmap, "freed", "leaked"}
      OBVIOUS
    <2>2. ValuesOK'
      BY <2>b, <2>c, <2>d DEF ClipboardIInv, ClipboardTypeOK, ValuesOK
    <2> QED
      BY <2>1, <2>2 DEF FlagsOK, ValuesOK, ClipboardTypeOK
  <1>2. VersionInv'
    BY DEF ClipboardIInv, ClipboardTypeOK, VersionInv, LockInv
  <1>3. LockInv'
    BY DEF ClipboardIInv, ClipboardTypeOK, LockInv
  <1>4. PasteInv'
    BY DEF ClipboardIInv, ClipboardTypeOK, VersionInv, PasteInv, LockInv
  <1>5. ReportInv'
    BY DEF ClipboardIInv, ClipboardTypeOK, VersionInv, LockInv, ReportInv, NothingHeldSilently,
      Lost
  <1>6. StepKept
    BY DEF ClipboardIInv, ClipboardTypeOK, VersionInv, LockInv, StepKept
  <1> QED
    BY <1>1, <1>2, <1>3, <1>4, <1>5, <1>6 DEF ClipboardIInv

-----------------------------------------------------------------------------
LEMMA ClipboardStutterInv == ASSUME ClipboardIInv, UNCHANGED clipboardVars PROVE ClipboardIInv' /\ StepKept
  BY DEF clipboardVars, clipboard, transaction, ClipboardIInv, ClipboardTypeOK, VersionInv,
    LockInv, PasteInv, ReportInv,
         NothingHeldSilently, Lost, StepKept

LEMMA ClipboardNextInv == ASSUME ClipboardIInv, [ClipboardNext]_clipboardVars PROVE ClipboardIInv' /\ StepKept
  BY ClipboardStutterInv, OtherCopiesInv,
     OtherOpensInv, OtherClosesInv, FieldPastesInv, CaptureInv,
      CaptureFailsInv, ReplaceRefusedInv, ReplaceInv, ReplaceRollsBackInv,
      CommitInv, CommitFailsInv, VerifyInv, BodyRaisesInv, PressInv,
      SettleInv, RestoreNotRequestedInv, RestoreInv, RestoreFailsInv,
      RestoreConflictsInv, ReleaseInv
  DEF ClipboardNext

\* The strengthened invariant holds in every behaviour.
THEOREM ClipboardInvariance == ClipboardSpec => []ClipboardIInv
  <1>1. ClipboardInit => ClipboardIInv
    BY ClipboardInitInv
  <1>2. ClipboardIInv /\ [ClipboardNext]_clipboardVars => ClipboardIInv'
    BY ClipboardNextInv
  <1> QED
    BY <1>1, <1>2, PTL DEF ClipboardSpec

\* Types, and a status that is one of the documented ones (ClipboardTextTransaction).
THEOREM ClipboardTypeCorrect == ClipboardSpec => []ClipboardTypeOK
  <1>1. ClipboardIInv => ClipboardTypeOK
    BY DEF ClipboardIInv
  <1> QED
    BY <1>1, ClipboardInvariance, PTL

\* No copy made after the snapshot is overwritten, whatever fails
\* (replace_with_text, restore_if_owned).
THEOREM NewerCopyIsKept == ClipboardSpec => NewerCopyKept
  <1>1. ClipboardIInv /\ [ClipboardNext]_clipboardVars => [StepKept]_clipboardVars
    BY ClipboardNextInv
  <1> QED
    BY <1>1, ClipboardInvariance, PTL DEF ClipboardSpec, NewerCopyKept, StepKept

\* Content that is lost is never reported restored (_cleanup).
THEOREM LossIsToldHolds == ClipboardSpec => []LossIsTold
  <1>1. ClipboardIInv => LossIsTold
    BY DEF ClipboardIInv, ReportInv, LossIsTold
  <1> QED
    BY <1>1, ClipboardInvariance, PTL

\* A lock, a window or a bitmap left behind is reported (_cleanup).
THEOREM NothingHeldSilentlyHolds == ClipboardSpec => []NothingHeldSilently
  <1>1. ClipboardIInv => NothingHeldSilently
    BY DEF ClipboardIInv, ReportInv
  <1> QED
    BY <1>1, ClipboardInvariance, PTL

\* A field that took somebody else's copy is not a clean success (type_text).
THEOREM WrongPasteIsToldHolds == ClipboardSpec => []WrongPasteIsTold
  <1>1. ClipboardIInv => WrongPasteIsTold
    BY DEF ClipboardIInv, PasteInv, WrongPasteIsTold
  <1> QED
    BY <1>1, ClipboardInvariance, PTL

\* So no loss, nothing held and no wrong paste goes unreported (_cleanup).
THEOREM OutcomeIsToldHolds == ClipboardSpec => []OutcomeIsTold
  BY LossIsToldHolds, NothingHeldSilentlyHolds, WrongPasteIsToldHolds, PTL DEF OutcomeIsTold

-----------------------------------------------------------------------------
\* There is no clone before the capture, so that only the transaction's own
\* clone is ever freed.
BitmapInv == at = "capture" => bitmap = "none"

BitmapKept == bitmap = "windows" => bitmap' = "windows"

LEMMA BitmapStep == ASSUME BitmapInv, [ClipboardNext]_clipboardVars PROVE BitmapInv' /\ BitmapKept
  <1> USE DEF BitmapInv, BitmapKept, clipboard, transaction
  <1>0. CASE UNCHANGED clipboardVars
    BY <1>0 DEF clipboardVars
  <1>1. ASSUME NEW c \in Copy, OtherCopies(c) PROVE BitmapInv' /\ BitmapKept
    BY <1>1 DEF OtherCopies
  <1>2. CASE OtherOpens
    BY <1>2 DEF OtherOpens, Unlock, UnlockFailed, CannotOpen, PutBack, PutBackFails,
      Transferred, Delete
  <1>3. CASE OtherCloses
    BY <1>3 DEF OtherCloses, Unlock, UnlockFailed, CannotOpen, PutBack, PutBackFails,
      Transferred, Delete
  <1>4. CASE FieldPastes
    BY <1>4 DEF FieldPastes, Unlock, UnlockFailed, CannotOpen, PutBack, PutBackFails,
      Transferred, Delete
  <1>5. CASE Capture
    BY <1>5 DEF Capture, Unlock, UnlockFailed, CannotOpen, PutBack, PutBackFails, Transferred,
      Delete
  <1>6. CASE CaptureFails
    BY <1>6 DEF CaptureFails, Unlock, UnlockFailed, CannotOpen, PutBack, PutBackFails,
      Transferred, Delete
  <1>7. CASE ReplaceRefused
    BY <1>7 DEF ReplaceRefused, Unlock, UnlockFailed, CannotOpen, PutBack, PutBackFails,
      Transferred, Delete
  <1>8. CASE Replace
    BY <1>8 DEF Replace, Unlock, UnlockFailed, CannotOpen, PutBack, PutBackFails, Transferred,
      Delete
  <1>9. CASE ReplaceRollsBack
    BY <1>9 DEF ReplaceRollsBack, Unlock, UnlockFailed, CannotOpen, PutBack, PutBackFails,
      Transferred, Delete
  <1>10. CASE Commit
    BY <1>10 DEF Commit, Unlock, UnlockFailed, CannotOpen, PutBack, PutBackFails, Transferred,
      Delete
  <1>11. CASE CommitFails
    BY <1>11 DEF CommitFails, Unlock, UnlockFailed, CannotOpen, PutBack, PutBackFails,
      Transferred, Delete
  <1>12. CASE Verify
    BY <1>12 DEF Verify, Unlock, UnlockFailed, CannotOpen, PutBack, PutBackFails, Transferred,
      Delete
  <1>13. CASE BodyRaises
    BY <1>13 DEF BodyRaises, Unlock, UnlockFailed, CannotOpen, PutBack, PutBackFails,
      Transferred, Delete
  <1>14. CASE Press
    BY <1>14 DEF Press, Unlock, UnlockFailed, CannotOpen, PutBack, PutBackFails, Transferred,
      Delete
  <1>15. CASE Settle
    BY <1>15 DEF Settle, Unlock, UnlockFailed, CannotOpen, PutBack, PutBackFails, Transferred,
      Delete
  <1>16. CASE RestoreNotRequested
    BY <1>16 DEF RestoreNotRequested, Unlock, UnlockFailed, CannotOpen, PutBack, PutBackFails,
      Transferred, Delete
  <1>17. CASE Restore
    BY <1>17 DEF Restore, Unlock, UnlockFailed, CannotOpen, PutBack, PutBackFails, Transferred,
      Delete
  <1>18. CASE RestoreFails
    BY <1>18 DEF RestoreFails, Unlock, UnlockFailed, CannotOpen, PutBack, PutBackFails,
      Transferred, Delete
  <1>19. CASE RestoreConflicts
    BY <1>19 DEF RestoreConflicts, Unlock, UnlockFailed, CannotOpen, PutBack, PutBackFails,
      Transferred, Delete
  <1>20. CASE Release
    BY <1>20 DEF Release, Unlock, UnlockFailed, CannotOpen, PutBack, PutBackFails, Transferred,
      Delete
  <1> QED
    BY <1>0, <1>1, <1>2, <1>3, <1>4, <1>5, <1>6, <1>7, <1>8, <1>9, <1>10, <1>11, <1>12, <1>13,
      <1>14, <1>15, <1>16, <1>17, <1>18, <1>19, <1>20 DEF ClipboardNext

\* What belongs to others stays theirs (restore_if_owned, _restore_snapshot_locked).
THEOREM OthersKeepTheirsHolds == ClipboardSpec => OthersKeepTheirs
  <1>1. ClipboardInit => BitmapInv
    BY DEF ClipboardInit, BitmapInv
  <1>2. BitmapInv /\ [ClipboardNext]_clipboardVars => BitmapInv' /\ [BitmapKept]_clipboardVars
    BY BitmapStep
  <1>3. ClipboardSpec => SystemBitmapStays
    BY <1>1, <1>2, PTL DEF ClipboardSpec, SystemBitmapStays, BitmapKept
  <1> QED
    BY <1>3, NewerCopyIsKept, PTL DEF OthersKeepTheirs
=============================================================================
