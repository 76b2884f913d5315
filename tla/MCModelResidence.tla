--------------------------- MODULE MCModelResidence ---------------------------
(***************************************************************************)
(* Instances of ModelResidence for TLC: one configuration, or two, on the  *)
(* port p1; p2 is a port of the same machine that only others use.  The    *)
(* configurations differ only where one of them can cancel a request.      *)
(***************************************************************************)
EXTENDS ModelResidence, TLC

CONSTANTS a1, a2, p1, p2, none

One == {a1}
Shared == {a1, a2}
Ports == {p1, p2}
OnePort == {p1}
PortsOf == [c \in Config |-> p1]
Alike == Permutations(Shared)

=============================================================================
