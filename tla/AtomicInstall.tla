---------------------------- MODULE AtomicInstall ----------------------------
(***************************************************************************)
(* What an update promises to the processes that run from an installation. *)
(* The installation shows one release to them or is sealed.  It is sealed  *)
(* only while nobody reads it, with two possible outcomes fixed at that    *)
(* moment, and what it shows next is one of the two.                       *)
(***************************************************************************)
CONSTANTS Reader, Target, FirstTarget, Sealed

VARIABLES view,      \* the release shown, or Sealed
          outcomes,  \* the releases a sealed installation may show next
          readers    \* processes admitted to run from it

vars == <<view, outcomes, readers>>

Init == /\ view = FirstTarget
        /\ outcomes = {}
        /\ readers = {}

Enter(r) == /\ view # Sealed
            /\ readers' = readers \cup {r}
            /\ UNCHANGED <<view, outcomes>>

Depart(r) == /\ readers' = readers \ {r}
            /\ UNCHANGED <<view, outcomes>>

Seal(t) == /\ view # Sealed /\ readers = {}
           /\ view' = Sealed
           /\ outcomes' = {view, t}
           /\ UNCHANGED readers

Unseal(t) == /\ view = Sealed /\ t \in outcomes
             /\ view' = t
             /\ outcomes' = {}
             /\ UNCHANGED readers

Replace(t) == /\ view # Sealed /\ readers = {}
              /\ view' = t
              /\ UNCHANGED <<outcomes, readers>>

Next == \/ \E r \in Reader : Enter(r) \/ Depart(r)
        \/ \E t \in Target : Seal(t) \/ Unseal(t) \/ Replace(t)

Spec == Init /\ [][Next]_vars
=============================================================================
