---------------------------- MODULE SerialService ----------------------------
(***************************************************************************)
(* What a serial owner promises its callers: calls accepted while it is    *)
(* open are answered one at a time, in the order of acceptance, each       *)
(* exactly once; it is released only after the last of them; and unless    *)
(* its thread could never be started, every accepted call is answered.     *)
(***************************************************************************)
EXTENDS Sequences

CONSTANT Call

VARIABLES pending,   \* accepted and not answered, oldest first
          answered,  \* the calls that have their result
          phase,     \* "open", "shut" or "released"
          broken     \* the thread that should answer never came to life

vars == <<pending, answered, phase, broken>>

Init ==
  /\ pending = <<>>
  /\ answered = {}
  /\ phase = "open"
  /\ broken = FALSE

Waiting == {pending[i] : i \in DOMAIN pending}

Accept(c) ==
  /\ phase = "open"
  /\ c \notin answered /\ c \notin Waiting
  /\ pending' = Append(pending, c)
  /\ UNCHANGED <<answered, phase, broken>>

Answer ==
  /\ ~broken /\ pending # <<>>
  /\ answered' = answered \cup {Head(pending)}
  /\ pending' = Tail(pending)
  /\ UNCHANGED <<phase, broken>>

Break ==
  /\ phase = "open" /\ pending = <<>> /\ answered = {}
  /\ broken' = TRUE
  /\ UNCHANGED <<pending, answered, phase>>

Shut ==
  /\ phase = "open"
  /\ phase' = "shut"
  /\ UNCHANGED <<pending, answered, broken>>

Release ==
  /\ phase = "shut" /\ pending = <<>> /\ ~broken
  /\ phase' = "released"
  /\ UNCHANGED <<pending, answered, broken>>

Next ==
  \/ \E c \in Call : Accept(c)
  \/ Answer \/ Break \/ Shut \/ Release

Spec == Init /\ [][Next]_vars /\ WF_vars(Answer)

=============================================================================
