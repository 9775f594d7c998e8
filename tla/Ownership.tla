------------------------------ MODULE Ownership ------------------------------
(***************************************************************************)
(* Who may write what, and who waits for whom: the dependency and area     *)
(* rules of internal/model/model.go, internal/engine/area_ownership.go,    *)
(* native_failure_route.go, replan.go and scope_recovery.go, as operators  *)
(* on the tasks of one snapshot (a function from task IDs to records).     *)
(* Dispatch is the state machine that uses them.                           *)
(*                                                                         *)
(* A task's areas are the set of the files they cover once                 *)
(* ClassifyAreasAtRef has read them.  kind says what is known of them:     *)
(* "known" (assigned and classified), "unknown" (assigned by an old        *)
(* version, not classified) or "none" (never assigned).  What a replan     *)
(* asks for is compared before it is classified: request.spelled are the   *)
(* files of request.areas that a comparison of the bare paths finds.       *)
(***************************************************************************)
EXTENDS Integers, Sequences, FiniteSets

Finished == {"DONE", "SUPERSEDED"}

(* What S reaches along edges, S included. *)
Closure(edges, S) ==
  LET step[n \in Nat] ==
        IF n = 0 THEN S
        ELSE LET near == step[n - 1] IN near \union UNION {edges[t] : t \in near}
  IN step[Cardinality(DOMAIN edges)]

DepEdges(tasks) == [t \in DOMAIN tasks |-> tasks[t].deps]

(* The task that stands for t today. *)
Successors(tasks) ==
  [t \in DOMAIN tasks |-> IF tasks[t].state = "SUPERSEDED" THEN {tasks[t].by} ELSE {}]

DependencyDoneLenient(tasks, d) ==   \* mutant: a replaced task counts as done
  tasks[d].state \in Finished
DependencyDoneHere(tasks, d) ==   \* mutant: a replacement is not looked for
  tasks[d].state = "DONE"
(* An original that was superseded is never success itself. *)
DependencyDone(tasks, d) ==
  \/ tasks[d].state = "DONE"
  \/ tasks[d].state = "SUPERSEDED" /\ \E t \in Closure(Successors(tasks), {d}) : tasks[t].state = "DONE"

DependenciesComplete(tasks, t) ==
  \A d \in tasks[t].deps : DependencyDone(tasks, d)

-----------------------------------------------------------------------------
(* Areas. *)

ImmutableAreas(task) ==
  \/ task.kind # "none"
  \/ ~task.head /\ task.state \in {"PLANNED", "READY"}

(* immutableScope, findingInTaskScope: only classified areas own a path. *)
Owns(task, path) == task.kind = "known" /\ path \in task.areas

(* replanOwnershipAreas *)
OwnershipKnown(task) == ImmutableAreas(task) /\ task.kind # "unknown"

ProvablyUnstartedLegacy(task) == ~task.head /\ task.state \in {"PLANNED", "READY"}

-----------------------------------------------------------------------------
(* Routing of findings to the task that owns their path. *)

WritableOwner(task) == task.state \in {"READY", "FIX"}

Owners(tasks, origin, path) ==
  {t \in DOMAIN tasks \ {origin} : WritableOwner(tasks[t]) /\ Owns(tasks[t], path)}

NeverCyclic(tasks, origin, owner) == FALSE   \* mutant
IntroducesDependencyCycle(tasks, origin, owner) ==
  origin \in Closure(DepEdges(tasks), {owner})

(* findingScopeOwner and the cycle check: the one task a path is routed to. *)
RouteTo(tasks, origin, path) ==
  {t \in Owners(tasks, origin, path) :
     /\ Owners(tasks, origin, path) = {t}
     /\ ~IntroducesDependencyCycle(tasks, origin, t)}

Block(task, resume) == [task EXCEPT !.state = "BLOCKED_HUMAN", !.resume = resume]

(* applyCrossTaskFindings, for blocking findings at paths outside of the   *)
(* origin's areas: each makes the origin wait for the path's owner; one    *)
(* that nobody can take asks the operator.                                 *)
ApplyCrossTaskFindings(tasks, origin, paths) ==
  LET found == UNION {RouteTo(tasks, origin, p) : p \in paths}
      waits == [tasks[origin] EXCEPT !.deps = @ \union found, !.state = "SYNC_REQUIRED"]
  IN IF \E p \in paths : RouteTo(tasks, origin, p) = {}
     THEN Block(waits, "SYNC_REQUIRED")
     ELSE waits

(* applyNativeFailureRoute: one path, and otherwise an ordinary failure. *)
ApplyNativeFailureRoute(tasks, origin, path) ==
  [tasks[origin] EXCEPT !.deps = @ \union RouteTo(tasks, origin, path),
                        !.state = "SYNC_REQUIRED"]

-----------------------------------------------------------------------------
(* Replanning: idle originals are replaced by one successor. *)

(* replanEmptyCheckpoint: nothing was ever done on the task. *)
Unstarted(task) ==
  /\ task.state \in {"PLANNED", "READY"}
  /\ ~task.head /\ task.pre = "none" /\ task.work = 0

Replannable(task) ==
  /\ task.state \notin Finished
  /\ ~task.open
  /\ task.head \/ Unstarted(task)

(* replanTransferredAreas *)
TransferredAreas(tasks, originals) ==
  UNION {tasks[o].areas : o \in {p \in originals : ImmutableAreas(tasks[p])}}

(* mergeReplanContract: the contract of the originals is kept. *)
Replacement(tasks, originals, request) ==
  [state |-> "READY", obj |-> tasks[CHOOSE o \in originals : TRUE].obj,
   deps |-> request.deps \union ((UNION {tasks[o].deps : o \in originals}) \ originals),
   areas |-> request.areas \union TransferredAreas(tasks, originals),
   domains |-> request.domains, kind |-> "known", head |-> TRUE, pr |-> FALSE,
   pre |-> "none", work |-> 0, open |-> FALSE, by |-> "", resume |-> ""]

(* The same as areasOverlap reads it: a request's "dir/" or "dir/**" is no *)
(* prefix of "dir/x", though ClassifyAreasAtRef makes dir of it.           *)
AsSpelled(tasks, originals, request) ==
  Replacement(tasks, originals, [request EXCEPT !.areas = request.spelled])

(* prospectiveReplanSnapshot *)
Replaced(tasks, originals, id, successor) ==
  [t \in DOMAIN tasks \union {id} |->
     IF t = id THEN successor
     ELSE IF t \in originals THEN [tasks[t] EXCEPT !.state = "SUPERSEDED", !.by = id]
     ELSE tasks[t]]

(* What a task waits for, a replacement included. *)
ReplanEdges(tasks) ==
  [t \in DOMAIN tasks |-> tasks[t].deps \union Successors(tasks)[t]]

(* replanTaskDependsOn: a superseded task counts as its successor. *)
WaitEdges(tasks) ==
  [t \in DOMAIN tasks |->
     IF tasks[t].state = "SUPERSEDED" THEN {tasks[t].by} ELSE tasks[t].deps]

DependsOn(edges, t, target) == target \in Closure(edges, edges[t])

Cyclic(edges) == \E t \in DOMAIN edges : DependsOn(edges, t, t)

Serialized(edges, a, b) == DependsOn(edges, a, b) \/ DependsOn(edges, b, a)

Overlap(a, b) == a.areas \intersect b.areas # {} \/ a.domains \intersect b.domains # {}

ReplanUnchecked(tasks, originals, id, request) ==   \* mutant: overlaps are not looked for
  LET next == Replaced(tasks, originals, id, Replacement(tasks, originals, request))
  IN ~Cyclic(ReplanEdges(next))
(* applyReplan's checks on the snapshot. *)
ReplanAccepted(tasks, originals, id, request) ==
  LET next == Replaced(tasks, originals, id, Replacement(tasks, originals, request))
  IN /\ id \notin DOMAIN tasks
     /\ \A o \in originals : Replannable(tasks[o])
     /\ \E o \in originals : tasks[o].head
     /\ \A o, p \in originals : tasks[o].obj = tasks[p].obj
     /\ request.deps \subseteq DOMAIN tasks \ originals
     /\ ~Cyclic(ReplanEdges(next))
     /\ \A t \in DOMAIN tasks \ originals :
          tasks[t].state \notin Finished =>
            /\ OwnershipKnown(tasks[t])
            /\ Overlap(AsSpelled(tasks, originals, request), tasks[t]) =>
                 Serialized(WaitEdges(next), id, t)

-----------------------------------------------------------------------------
(* Scope recovery: new classified areas for a task of an old version. *)

Recovered(task, areas, deps) ==
  [task EXCEPT !.areas = areas, !.kind = "known", !.deps = @ \union deps, !.pre = "none",
               !.state = IF @ = "BLOCKED_HUMAN" THEN @ ELSE "READY"]

(* prepareScopeRecovery and validateScopeRecoveryOwnership *)
RecoveryAccepted(tasks, t, areas, deps) ==
  LET next == [tasks EXCEPT ![t] = Recovered(@, areas, deps)]
      edges == DepEdges(next)
  IN /\ tasks[t].kind # "known"
     /\ tasks[t].state \notin Finished
     /\ ~tasks[t].open
     /\ tasks[t].head \/ Unstarted(tasks[t])
     /\ deps \subseteq DOMAIN tasks \ ({t} \union tasks[t].deps)
     /\ \A o \in DOMAIN tasks \ {t} :
          tasks[o].state # "DONE" =>
            \/ /\ tasks[o].kind = "known" \/ ProvablyUnstartedLegacy(tasks[o])
               /\ areas \intersect tasks[o].areas = {}
            \/ Serialized(edges, t, o)
     /\ ~Cyclic(edges)

-----------------------------------------------------------------------------
(* What is true of the tasks of a snapshot between any two operations.     *)

(* Nothing names a task that is not there. *)
Linked(tasks) ==
  /\ IsFiniteSet(DOMAIN tasks)
  /\ \A t \in DOMAIN tasks :
       /\ tasks[t].deps \subseteq DOMAIN tasks
       /\ tasks[t].state = "SUPERSEDED" => tasks[t].by \in DOMAIN tasks

(* What is written, merged or done has all that it waits for. *)
Grounded(tasks) ==
  \A t \in DOMAIN tasks :
    tasks[t].state \in {"RUNNING", "MERGE_TRAIN", "DONE"} => DependenciesComplete(tasks, t)

(* A replacement waits for all that its originals waited for. *)
Transferred(tasks) ==
  \A t \in DOMAIN tasks : tasks[t].state = "SUPERSEDED" =>
    \A d \in tasks[t].deps :
      \/ d \in tasks[tasks[t].by].deps
      \/ tasks[d].state = "SUPERSEDED" /\ tasks[d].by = tasks[t].by
=============================================================================
