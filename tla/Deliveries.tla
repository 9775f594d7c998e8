----------------------------- MODULE Deliveries -----------------------------
(***************************************************************************)
(* What the merge train promises: the change of a task reaches main once,  *)
(* alone or together with others, and only then the task is finished.      *)
(* The one excuse for a second time is a first time that was reported as a *)
(* failure.  MergeTrain is shown to implement this specification.          *)
(***************************************************************************)
EXTENDS Naturals

CONSTANT Task

VARIABLES
  landed,     \* how often main received the merge of a task
  missed,     \* how often that was reported as a failure
  finished    \* tasks that are DONE

vars == <<landed, missed, finished>>

Init ==
  /\ landed = [t \in Task |-> 0]
  /\ missed = [t \in Task |-> 0]
  /\ finished = {}

Counted(count, group) == [t \in Task |-> count[t] + (IF t \in group THEN 1 ELSE 0)]

(* A set of tasks reaches main in one transaction, reported or missed. *)
Deliver(group) ==
  /\ \A t \in group : landed[t] <= missed[t] /\ t \notin finished
  /\ landed' = Counted(landed, group)
  /\ missed' \in {missed, Counted(missed, group)}
  /\ UNCHANGED finished

Finish(t) ==
  /\ landed[t] > 0
  /\ t \notin finished
  /\ finished' = finished \union {t}
  /\ UNCHANGED <<landed, missed>>

Next ==
  \/ \E group \in (SUBSET Task) \ {{}} : Deliver(group)
  \/ \E t \in Task : Finish(t)

Spec == Init /\ [][Next]_vars
=============================================================================
