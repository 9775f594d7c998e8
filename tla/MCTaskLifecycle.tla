--------------------------- MODULE MCTaskLifecycle ---------------------------
(* One task, and few events from outside. *)
EXTENDS TaskLifecycle

Bound(kinds) == [k \in Outside |-> IF k \in kinds THEN 1 ELSE 0]
Few == {Bound(kinds) : kinds \in {{"push"}, {"answer"}, {"assign"}, {"guide", "end"}}}
=============================================================================
