----------------------------- MODULE MCCheckSlots -----------------------------
(* Two projects and two gates on a machine with one slot. *)
EXTENDS CheckSlots

FewJobs == {<<"p", "unit">>, <<"p", "e2e">>, <<"q", "unit">>, <<"q", "lint">>}
FewAsks == [p \in Projects |-> IF p = "p" THEN 2 ELSE 1]
=============================================================================
