------------------------- MODULE MCControllerLease -------------------------
(* Two machines that share a project, small enough for TLC. *)
EXTENDS ControllerLease

CONSTANTS m1, m2, c1, t1

FastM2 == [m \in Machine |-> IF m = m2 THEN 1 ELSE 0]
TwoOne == [m \in Machine |-> IF m = m1 THEN 2 ELSE 1]
OneHome == [c \in Command |-> m1]
=============================================================================
