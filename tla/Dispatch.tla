------------------------------- MODULE Dispatch -------------------------------
(***************************************************************************)
(* The supervisor's scheduler over several objectives and tasks: planning  *)
(* and provisioning, capacity and the backlog, preflight and writer slots, *)
(* conflict domains and dependencies, the routing of findings to other     *)
(* tasks, and the two offline operations on the same tasks, replanning and *)
(* scope recovery.  internal/engine/controller.go (Serve), capacity.go,    *)
(* preflight.go, workflow.go, replan.go and scope_recovery.go.             *)
(*                                                                         *)
(* What happens inside of one task's job is TaskLifecycle; here a job ends *)
(* in the state it leaves its task in.  How a merge is published is        *)
(* MergeTrain; here it is one step.  The lease is ControllerLease.         *)
(* A job's end and the receipt of its ID on the done channel are one step. *)
(***************************************************************************)
EXTENDS Ownership, SequencesExt

CONSTANTS
  Order,          \* every task ID, in the order of sort.Slice
  Plan,           \* for each objective, the tasks of its valid plan
  Guided,         \* the tasks that need a pre-implementation reader
  MaxWriters, TargetWriters, MaxReaders,
  PlanRetries,    \* policy: implementation_retries
  Replans,        \* the requests: [id, originals, deps, areas, spelled, domains]
  Recoveries,     \* the manifests: [task, areas, deps]
  Paths,          \* sets of paths that a review's findings may name
  Files, Domains, \* what areas and conflict domains consist of
  Scenarios,      \* bound: [tasks, objectives, left] to begin with
  WorkLimit,      \* bound: how often a task's jobs end without progress (TaskLifecycle: WorkRests)
  AfterReplan     \* bound: findings are routed and scopes recovered once a task has been replaced

Ids == Range(Order)
Objectives == DOMAIN Plan
Outside == {"run", "end", "answer", "route", "replan", "recover"}

States == {"PLANNED", "READY", "RUNNING", "IMPLEMENTED", "SYNC_REQUIRED", "FIX",
           "MERGE_READY", "MERGE_TRAIN", "DONE", "BLOCKED_HUMAN", "SUPERSEDED"}
Jobs == {"none", "preflight", "write", "verify", "merge"}

Task ==
  [state : States, obj : Objectives, deps : SUBSET Ids, areas : SUBSET Files,
   domains : SUBSET Domains, kind : {"known", "unknown", "none"}, head : BOOLEAN, pr : BOOLEAN,
   pre : {"none", "queued", "ready", "writing"}, work : Nat, open : BOOLEAN, by : Ids \union {""},
   resume : {"", "READY", "FIX", "SYNC_REQUIRED"}]
Objective == [planned : BOOLEAN, attempts : Nat, blocked : BOOLEAN]
Contract(tasks) == [deps : SUBSET tasks, areas : SUBSET Files, domains : SUBSET Domains]

ASSUME DispatchAssumption ==
  /\ Order \in Seq(Ids) /\ IsFiniteSet(Objectives)
  /\ MaxWriters \in Nat \ {0} /\ MaxReaders \in Nat \ {0}
  /\ TargetWriters \in 1..MaxWriters
  /\ PlanRetries \in Nat /\ WorkLimit \in Nat
  /\ Guided \subseteq Ids
  /\ "" \notin Ids /\ "" \notin Objectives
  /\ AfterReplan \in BOOLEAN

(* Plans that ValidatePlan accepts; their IDs begin with the objective's. *)
ASSUME PlanAssumption ==
  \A o \in Objectives :
    /\ DOMAIN Plan[o] \subseteq Ids
    /\ Plan[o] \in [DOMAIN Plan[o] -> Contract(DOMAIN Plan[o])]
    /\ ~Cyclic(DepEdges(Plan[o]))
    /\ \A p \in Objectives \ {o} : DOMAIN Plan[o] \intersect DOMAIN Plan[p] = {}

ASSUME RequestAssumption ==
  /\ \A r \in Replans :
       /\ r.id \in Ids /\ \A o \in Objectives : r.id \notin DOMAIN Plan[o]
       /\ r.originals # {} /\ r.deps \subseteq Ids
       /\ r.areas \subseteq Files /\ r.spelled \subseteq r.areas /\ r.domains \subseteq Domains
  /\ \A r \in Recoveries : r.task \in Ids /\ r.deps \subseteq Ids /\ r.areas \subseteq Files

(* It begins with a snapshot that earlier operations may have left. *)
ASSUME ScenarioAssumption ==
  \A s \in Scenarios :
    /\ DOMAIN s.tasks \subseteq Ids /\ s.tasks \in [DOMAIN s.tasks -> Task]
    /\ DOMAIN s.objectives \subseteq Objectives
    /\ s.objectives \in [DOMAIN s.objectives -> Objective]
    /\ s.left \in [Outside -> Nat]
    /\ Linked(s.tasks) /\ Grounded(s.tasks) /\ Transferred(s.tasks)
    /\ ~Cyclic(WaitEdges(s.tasks))
    /\ \A t \in DOMAIN s.tasks :
         /\ s.tasks[t].state = "BLOCKED_HUMAN" => s.tasks[t].resume # ""
         /\ \A o \in Objectives : t \in DOMAIN Plan[o] =>
              o \in DOMAIN s.objectives /\ s.objectives[o].planned

VARIABLES
  tasks,       \* Snapshot.Tasks
  job,         \* Serve's active map: the job that holds each task
  objectives,  \* Snapshot.Objectives, absent until the operator runs them
  backlog,     \* Snapshot.Backlog
  cursor,      \* Capacity.BacklogCursor
  planning,    \* Serve: the objective being planned, or ""
  queue,       \* capacity.writers: what is left of the tick's list to admit
  up,          \* a supervisor serves
  left,        \* how often each kind of outside event may still happen
  apart,       \* history: the pairs that overlap after a replan or a recovery
  unseen       \* history: those of them that the replan did not see

vars == <<tasks, job, objectives, backlog, cursor, planning, queue, up, left, apart, unseen>>

Fresh == [planned |-> FALSE, attempts |-> 0, blocked |-> FALSE]
Planned(o, t) ==
  [state |-> "PLANNED", obj |-> o, deps |-> Plan[o][t].deps, areas |-> Plan[o][t].areas,
   domains |-> Plan[o][t].domains, kind |-> "known", head |-> FALSE, pr |-> FALSE,
   pre |-> "none", work |-> 0, open |-> FALSE, by |-> "", resume |-> ""]

Init ==
  \E s \in Scenarios :
    /\ tasks = s.tasks /\ left = s.left
    /\ objectives = s.objectives /\ backlog = SetToSeq(DOMAIN s.objectives)
    /\ job = [t \in Ids |-> "none"]
    /\ cursor = 0 /\ planning = "" /\ queue = <<>> /\ up = FALSE
    /\ apart = {} /\ unseen = {}

-----------------------------------------------------------------------------
(* Admission. *)

Active(t) == job[t] # "none"
Writing(t) == job[t] \notin {"none", "preflight"} /\ tasks[t].state = "RUNNING"
Writers == {t \in DOMAIN tasks : Writing(t)}

ConflictNothing(t, others) == FALSE   \* mutant
Conflict(t, others) ==
  \E o \in others : tasks[o].domains \intersect tasks[t].domains # {}

Dispatchable(t) ==
  /\ t \in DOMAIN tasks
  /\ tasks[t].state \in {"READY", "FIX"}
  /\ ~Active(t)
  /\ DependenciesComplete(tasks, t)

Admissible(t, writers) ==
  /\ Dispatchable(t)
  /\ tasks[t].pre = "ready"
  /\ Cardinality(writers) < MaxWriters
  /\ ~Conflict(t, writers)

Priority(t) ==
  IF t \notin DOMAIN tasks \/ ~tasks[t].pr \/ tasks[t].state \notin {"READY", "FIX"} THEN 0
  ELSE IF \E w \in DOMAIN tasks :
            tasks[w].state \in {"PLANNED", "READY", "FIX"} /\ t \in tasks[w].deps
       THEN 2 ELSE 1

(* runnableWhereOrdered *)
InOrder(order) ==
  FoldLeft(LAMBDA picked, t : IF Admissible(t, Writers \union Range(picked))
                              THEN Append(picked, t) ELSE picked,
           <<>>, order)

(* Work with a pull request first, unless that would admit fewer. *)
Runnable ==
  LET at(p) == SelectSeq(Order, LAMBDA t : Priority(t) = p)
      prioritized == InOrder(at(2) \o at(1) \o at(0))
      baseline == InOrder(Order)
  IN IF Len(prioritized) < Len(baseline) THEN baseline ELSE prioritized

Held(t, kind) == job' = [job EXCEPT ![t] = kind]
Released(t) == Held(t, "none")
Set(t, task) == tasks' = [tasks EXCEPT ![t] = task]

OnlyTasks == UNCHANGED <<objectives, backlog, cursor, planning, queue, up, left, apart, unseen>>

(* Serve's goroutine, when it is not in the midst of a tick's admissions. *)
Scheduling == up /\ queue = <<>>

Spent(task) == [task EXCEPT !.work = @ + 1, !.open = FALSE]
CanSpend(t) == tasks[t].work < WorkLimit

(* One task of the list after the other.  Meanwhile jobs end, and main or  *)
(* the policy may have moved from under the advice, which is then dropped. *)
AdmitWriter(t) ==
  /\ up /\ queue # <<>> /\ Head(queue) = t
  /\ queue' = Tail(queue)
  /\ \/ IF Admissible(t, Writers)
        THEN /\ Set(t, [tasks[t] EXCEPT !.state = "RUNNING", !.pre = "writing", !.open = TRUE])
             /\ Held(t, "write")
        ELSE UNCHANGED <<tasks, job>>
     \/ /\ t \in DOMAIN tasks /\ tasks[t].state \in {"READY", "FIX"} /\ tasks[t].pre = "ready"
        /\ CanSpend(t)
        /\ Set(t, [Spent(tasks[t]) EXCEPT !.pre = "none"])
        /\ UNCHANGED job
  /\ UNCHANGED <<objectives, backlog, cursor, planning, up, left, apart, unseen>>

(* Main cannot be fetched, for one: Serve forgets the error and the list. *)
AdmissionFails ==
  /\ up /\ queue # <<>>
  /\ queue' = <<>>
  /\ UNCHANGED <<tasks, job, objectives, backlog, cursor, planning, up, left, apart, unseen>>

-----------------------------------------------------------------------------
(* Preflights. *)

Preflights(guided) ==
  {t \in DOMAIN tasks : job[t] = "preflight" /\ (t \in Guided <=> guided)}

Waiting(t) == Dispatchable(t) /\ tasks[t].pre # "ready"

Slots(guided) == IF guided THEN MaxReaders + 1 ELSE MaxWriters

(* t is the first of S. *)
IsFirst(t, S) ==
  /\ t \in S
  /\ \E i \in DOMAIN Order : Order[i] = t /\ \A k \in 1..(i - 1) : Order[k] \notin S

(* selectPreflights takes them in order. *)
StartPreflight(t) ==
  /\ Scheduling
  /\ IsFirst(t, {o \in Ids : Waiting(o) /\ (o \in Guided <=> t \in Guided)})
  /\ Cardinality(Preflights(t \in Guided)) < Slots(t \in Guided)
  /\ Held(t, "preflight")
  /\ UNCHANGED tasks /\ OnlyTasks

(* ensureWorktree publishes the task's branch, the guidance starts over. *)
EnsureWorktree(t) ==
  /\ up /\ job[t] = "preflight" /\ tasks[t].pre # "queued"
  /\ Set(t, [tasks[t] EXCEPT !.pre = "queued", !.head = TRUE, !.open = t \in Guided])
  /\ UNCHANGED job /\ OnlyTasks

(* It may fail before the worktree is there, and as Git or a reader does. *)
PreflightEnds(t) ==
  /\ up /\ job[t] = "preflight"
  /\ \/ tasks[t].pre = "queued" /\ Set(t, [tasks[t] EXCEPT !.pre = "ready", !.open = FALSE])
     \/ tasks[t].pre = "queued" /\ CanSpend(t) /\ Set(t, Spent(tasks[t]))
     \/ \E resume \in {"READY", "FIX"} :
          Set(t, [Block(tasks[t], resume) EXCEPT !.open = FALSE])
  /\ Released(t)
  /\ OnlyTasks

-----------------------------------------------------------------------------
(* A writer's job: implement, and the verification of what it completed. *)

(* An unknown area, a lost login, a question or a limit asks the operator. *)
WriterEnds(t) ==
  /\ up /\ job[t] = "write"
  /\ \/ \E resume \in IF tasks[t].kind = "known" THEN {"READY", "FIX"} ELSE {"READY"} :
          Set(t, [Block(tasks[t], resume) EXCEPT !.open = FALSE])
     \/ /\ tasks[t].kind = "known" /\ CanSpend(t)
        /\ \/ \E pre \in {"ready", "writing"} :
                Set(t, [Spent(tasks[t]) EXCEPT !.state = "READY", !.pre = pre])
           \/ Set(t, [Spent(tasks[t]) EXCEPT !.state = "FIX"])
  /\ Released(t)
  /\ OnlyTasks

Implemented(t) ==
  /\ up /\ job[t] = "write" /\ tasks[t].kind = "known"
  /\ Set(t, [tasks[t] EXCEPT !.state = "IMPLEMENTED"])
  /\ Held(t, "verify")
  /\ OnlyTasks

LaunchVerification(t) ==
  /\ Scheduling /\ t \in DOMAIN tasks /\ ~Active(t)
  /\ tasks[t].state \in {"IMPLEMENTED", "SYNC_REQUIRED"}
  /\ DependenciesComplete(tasks, t)
  /\ Held(t, "verify")
  /\ Set(t, [tasks[t] EXCEPT !.open = TRUE])
  /\ OnlyTasks

VerificationEnds(t) ==
  LET closed == [tasks[t] EXCEPT !.open = FALSE, !.pr = TRUE]
  IN /\ up /\ job[t] = "verify"
     /\ \/ /\ CanSpend(t)
           /\ Set(t, [Spent(closed) EXCEPT !.state = "FIX"])
        \/ Set(t, [closed EXCEPT !.state =
                     IF DependenciesComplete(tasks, t) THEN "MERGE_READY" ELSE "SYNC_REQUIRED"])
     /\ Released(t)
     /\ OnlyTasks

(* An obstacle that only the operator removes; the answer resumes the sync. *)
VerificationBlocks(t) ==
  /\ up /\ job[t] = "verify"
  /\ Set(t, [Block(tasks[t], "SYNC_REQUIRED") EXCEPT !.open = FALSE])
  /\ Released(t)
  /\ OnlyTasks

Unreplaced == AfterReplan \/ \A t \in DOMAIN tasks : tasks[t].state # "SUPERSEDED"
Routable == left["route"] > 0 /\ Unreplaced

(* Blocking findings of the reviewers at paths outside of the task's areas. *)
FindingsRouted(t) ==
  /\ up /\ job[t] = "verify" /\ Routable
  /\ \E found \in Paths :
       LET outside == {p \in found : ~Owns(tasks[t], p)}
       IN /\ outside # {}
          /\ Set(t, [ApplyCrossTaskFindings(tasks, t, outside) EXCEPT !.open = FALSE, !.pr = TRUE])
  /\ Released(t)
  /\ left' = [left EXCEPT !["route"] = @ - 1]
  /\ UNCHANGED <<objectives, backlog, cursor, planning, queue, up, apart, unseen>>

(* A native failure that main reproduces; unrouted it is an ordinary one. *)
FailureRouted(t) ==
  /\ up /\ job[t] = "verify" /\ Routable
  /\ \E path \in UNION Paths :
       /\ RouteTo(tasks, t, path) # {} /\ ~Owns(tasks[t], path)
       /\ Set(t, [ApplyNativeFailureRoute(tasks, t, path) EXCEPT !.open = FALSE, !.pr = TRUE])
  /\ Released(t)
  /\ left' = [left EXCEPT !["route"] = @ - 1]
  /\ UNCHANGED <<objectives, backlog, cursor, planning, queue, up, apart, unseen>>

StartMerge(t) ==
  /\ Scheduling /\ \A m \in DOMAIN tasks : job[m] # "merge"
  /\ t \in DOMAIN tasks /\ ~Active(t) /\ tasks[t].state = "MERGE_READY"
  /\ Held(t, "merge")
  /\ Set(t, [tasks[t] EXCEPT !.state = IF DependenciesComplete(tasks, t)
                                       THEN "MERGE_TRAIN" ELSE "SYNC_REQUIRED"])
  /\ OnlyTasks

MergeEnds(t) ==
  /\ up /\ job[t] = "merge"
  /\ \/ tasks[t].state = "SYNC_REQUIRED" /\ UNCHANGED tasks
     \/ /\ tasks[t].state = "MERGE_TRAIN"
        /\ \/ Set(t, [tasks[t] EXCEPT !.state = "DONE"])
           \/ CanSpend(t) /\ Set(t, [Spent(tasks[t]) EXCEPT !.state = "SYNC_REQUIRED"])
  /\ Released(t)
  /\ OnlyTasks

-----------------------------------------------------------------------------
(* Planning. *)

NeedsProvision(o) == \E t \in DOMAIN tasks : tasks[t].obj = o /\ tasks[t].state = "PLANNED"

NeedsPlanning(o) ==
  /\ ~objectives[o].blocked
  /\ ~objectives[o].planned \/ NeedsProvision(o)

(* nextBacklogObjective: the first from the cursor on, and round again. *)
Rotated == LET from == IF cursor >= Len(backlog) THEN 0 ELSE cursor
           IN [i \in DOMAIN backlog |-> ((from + i - 1) % Len(backlog)) + 1]
FirstWaiting(i) == /\ NeedsPlanning(backlog[Rotated[i]])
            /\ \A k \in 1..(i - 1) : ~NeedsPlanning(backlog[Rotated[k]])

Backfill ==
  /\ planning = ""
  /\ Cardinality(Writers) + Len(Runnable) < TargetWriters
  /\ \E i \in DOMAIN backlog :
       /\ FirstWaiting(i)
       /\ cursor' = Rotated[i] /\ planning' = backlog[Rotated[i]]

(* decideCapacity: what the tick admits, and what is planned, once the     *)
(* grace period is over, as that leaves writers idle.                      *)
Decide ==
  /\ Scheduling
  /\ UNCHANGED <<tasks, job, objectives, backlog, up, left, apart, unseen>>
  /\ queue' = Runnable
  /\ \/ Backfill
     \/ queue' # <<>> /\ UNCHANGED <<cursor, planning>>

PlanEnds(objective) ==
  /\ planning' = ""
  /\ objectives' = [objectives EXCEPT ![planning] = objective]
  /\ UNCHANGED <<job, backlog, cursor, queue, up, left, apart, unseen>>

(* The plan is valid: its tasks appear at once. *)
PlanAccepted ==
  /\ up /\ planning # "" /\ ~objectives[planning].planned
  /\ tasks' = [t \in DOMAIN tasks \union DOMAIN Plan[planning] |->
                 IF t \in DOMAIN Plan[planning] THEN Planned(planning, t) ELSE tasks[t]]
  /\ objectives' = [objectives EXCEPT ![planning].planned = TRUE]
  /\ UNCHANGED <<job, backlog, cursor, planning, queue, up, left, apart, unseen>>

(* provision: an issue and a branch name for one task after the other. *)
Provision ==
  /\ up /\ planning # "" /\ objectives[planning].planned
  /\ LET next == {t \in DOMAIN tasks : tasks[t].obj = planning /\ tasks[t].state = "PLANNED"}
     IN \/ next = {} /\ planning' = "" /\ UNCHANGED tasks
        \/ \E t \in next : /\ IsFirst(t, next) /\ Set(t, [tasks[t] EXCEPT !.state = "READY"])
                          /\ UNCHANGED planning
  /\ UNCHANGED <<job, objectives, backlog, cursor, queue, up, left, apart, unseen>>

PlanFailsUncounted ==   \* mutant: a failed plan is simply tried again
  /\ up /\ planning # "" /\ PlanEnds(objectives[planning]) /\ UNCHANGED tasks
(* planFailure: an invalid plan, or a provider or an issue that fails. *)
PlanFails ==
  /\ up /\ planning # ""
  /\ PlanEnds([objectives[planning] EXCEPT !.attempts = @ + 1,
                                           !.blocked = @ \/ objectives[planning].attempts >= PlanRetries])
  /\ UNCHANGED tasks

PlanAsks ==
  /\ up /\ planning # "" /\ ~objectives[planning].planned
  /\ PlanEnds([objectives[planning] EXCEPT !.blocked = TRUE])
  /\ UNCHANGED tasks

-----------------------------------------------------------------------------
(* The operator. *)

Use(kind) == left[kind] > 0 /\ left' = [left EXCEPT ![kind] = @ - 1]

Run(o) ==
  /\ Scheduling /\ o \notin DOMAIN objectives
  /\ Use("run")
  /\ objectives' = [p \in DOMAIN objectives \union {o} |->
                      IF p = o THEN Fresh ELSE objectives[p]]
  /\ backlog' = Append(backlog, o)
  /\ UNCHANGED <<tasks, job, cursor, planning, queue, up, apart, unseen>>

AnswerObjective(o) ==
  /\ Scheduling /\ o \in DOMAIN objectives /\ objectives[o].blocked
  /\ Use("answer")
  /\ objectives' = [objectives EXCEPT ![o].blocked = FALSE, ![o].attempts = 0]
  /\ UNCHANGED <<tasks, job, backlog, cursor, planning, queue, up, apart, unseen>>

Answer(t) ==
  /\ Scheduling /\ t \in DOMAIN tasks /\ tasks[t].state = "BLOCKED_HUMAN"
  /\ Use("answer")
  /\ Set(t, [tasks[t] EXCEPT !.state = tasks[t].resume, !.resume = "", !.pre = "none"])
  /\ UNCHANGED <<job, objectives, backlog, cursor, planning, queue, up, apart, unseen>>

-----------------------------------------------------------------------------
(* The supervisor's life. *)

Ended ==
  /\ up /\ Use("end")
  /\ up' = FALSE /\ planning' = "" /\ queue' = <<>>
  /\ job' = [t \in Ids |-> "none"]
  /\ UNCHANGED <<objectives, backlog, cursor, apart, unseen>>

(* Serve's end: jobs have ended, interrupted runs are final. *)
Stop ==
  /\ Scheduling /\ Ended
  /\ tasks' = [t \in DOMAIN tasks |->
                 [tasks[t] EXCEPT !.open = FALSE,
                                  !.state = IF @ = "RUNNING" THEN "READY" ELSE @]]

Crash == Ended /\ UNCHANGED tasks

(* hydrateQueuedLegacyOwnership *)
Hydrated(task) ==
  IF task.kind = "unknown" /\ ProvablyUnstartedLegacy(task)
  THEN [task EXCEPT !.kind = "known"] ELSE task

ResumedInPlace(task) ==   \* mutant: a task that was RUNNING still is
  [task EXCEPT !.state = IF @ \in {"IMPLEMENTED", "MERGE_TRAIN"} THEN "SYNC_REQUIRED" ELSE @]
(* recoverSnapshot *)
Resumed(task) ==
  IF task.state = "RUNNING"
  THEN IF ImmutableAreas(task) THEN [task EXCEPT !.state = "READY"] ELSE Block(task, "READY")
  ELSE IF task.state \in {"IMPLEMENTED", "MERGE_TRAIN"}
  THEN [task EXCEPT !.state = "SYNC_REQUIRED"]
  ELSE task

Start ==
  /\ ~up /\ up' = TRUE
  /\ tasks' = [t \in DOMAIN tasks |-> [Resumed(Hydrated(tasks[t])) EXCEPT !.open = FALSE]]
  /\ UNCHANGED <<job, objectives, backlog, cursor, planning, queue, left, apart, unseen>>

-----------------------------------------------------------------------------
(* Offline operations, each bound to one remote state by its precondition. *)

Overlaps(task, id, others) == {{id, o} : o \in {x \in others : Overlap(task, tasks[x])}}

Pending == {t \in DOMAIN tasks : tasks[t].state \notin Finished}

Replan(r) ==
  /\ ~up /\ r.originals \subseteq DOMAIN tasks
  /\ Use("replan")
  /\ ReplanAccepted(tasks, r.originals, r.id, r)
  /\ LET others == Pending \ r.originals
         there == Overlaps(Replacement(tasks, r.originals, r), r.id, others)
         seen == Overlaps(AsSpelled(tasks, r.originals, r), r.id, others)
     IN apart' = apart \union there /\ unseen' = unseen \union (there \ seen)
  /\ tasks' = Replaced(tasks, r.originals, r.id, Replacement(tasks, r.originals, r))
  /\ UNCHANGED <<job, objectives, backlog, cursor, planning, queue, up>>

RecoverScope(r) ==
  /\ ~up /\ r.task \in DOMAIN tasks /\ Unreplaced
  /\ Use("recover")
  /\ RecoveryAccepted(tasks, r.task, r.areas, r.deps)
  /\ Set(r.task, Recovered(tasks[r.task], r.areas, r.deps))
  /\ LET there == {{r.task, t} : t \in {x \in Pending \ {r.task} : r.areas \intersect tasks[x].areas # {}}}
     IN apart' = apart \union there /\ unseen' = unseen \ there
  /\ UNCHANGED <<job, objectives, backlog, cursor, planning, queue, up>>

-----------------------------------------------------------------------------
TaskStep(t) ==
  \/ AdmitWriter(t) \/ StartPreflight(t) \/ EnsureWorktree(t) \/ PreflightEnds(t)
  \/ WriterEnds(t) \/ Implemented(t) \/ LaunchVerification(t) \/ VerificationEnds(t)
  \/ VerificationBlocks(t) \/ FailureRouted(t) \/ FindingsRouted(t)
  \/ StartMerge(t) \/ MergeEnds(t)

Planner == PlanAccepted \/ Provision \/ PlanFails \/ PlanAsks

Supervisor == Start \/ Planner \/ (\E t \in Ids : TaskStep(t)) \/ AdmissionFails \/ Decide

Operator ==
  \/ \E o \in Objectives : Run(o) \/ AnswerObjective(o)
  \/ \E t \in Ids : Answer(t)
  \/ Stop \/ Crash
  \/ \E r \in Replans : Replan(r)
  \/ \E r \in Recoveries : RecoverScope(r)

Next == Supervisor \/ Operator

Spec == Init /\ [][Next]_vars

(* The supervisor's loop and its jobs go on; nothing is asked of the operator. *)
FairSpec == Spec /\ WF_vars(Supervisor)

-----------------------------------------------------------------------------
TypeOK ==
  /\ DOMAIN tasks \subseteq Ids /\ tasks \in [DOMAIN tasks -> Task] /\ Linked(tasks)
  /\ \A t \in DOMAIN tasks :
       /\ tasks[t].state = "RUNNING" /\ up => job[t] = "write"
       /\ tasks[t].state = "BLOCKED_HUMAN" => tasks[t].resume # ""
  /\ job \in [Ids -> Jobs]
  /\ \A t \in Ids : Active(t) => up /\ t \in DOMAIN tasks
  /\ planning \in DOMAIN objectives \union {""}
  /\ queue # <<>> => up
  /\ IsInjective(backlog) /\ Range(backlog) = DOMAIN objectives
  /\ cursor \in 0..Len(backlog)

(* What a tick admits is listed first and checked once more, one by one,   *)
(* while jobs end: the list keeps its members apart from each other, the   *)
(* check keeps each from what runs by then; as one goroutine does both,    *)
(* either would be enough.  Writers never exceed their slots and no two    *)
(* share a conflict domain (model.go:1564-1606, controller.go:549-565,     *)
(* preflight.go:806-829).                                                  *)
WritersApart ==
  /\ Cardinality(Writers) <= MaxWriters
  /\ \A t, o \in Writers : t # o => tasks[t].domains \intersect tasks[o].domains = {}

(* Dependencies come from plans, from routed findings, from replans and    *)
(* from recoveries, each with a cycle check of its own.  Together they     *)
(* must never make a task wait for itself, a replaced task counting as its *)
(* replacement, as it does for the scheduler (model.go:1311).              *)
NoCircularWait == ~Cyclic(WaitEdges(tasks))

(* Tasks whose areas overlap after a replan or a recovery are let through  *)
(* only if one waits for the other: they are never written at the same     *)
(* time, whatever happens to them later (replan.go:524-550,                *)
(* scope_recovery.go:416-460).  Not so the pairs that a replan does not    *)
(* see, because it compares its request's areas before they are classified.*)
OverlapApart ==
  \A pair \in apart \ unseen : ~\A t \in pair : tasks[t].state = "RUNNING"

(* A task lands only on what it was planned on: when it becomes DONE, all  *)
(* that it waits for, however indirectly, has landed itself; a task that   *)
(* was only replaced has not (model.go:1300-1329).                         *)
Beneath(t) == Closure(ReplanEdges(tasks), tasks[t].deps)
DependenciesFirst ==
  [][\A t \in DOMAIN tasks :
       tasks'[t].state = "DONE" /\ tasks[t].state # "DONE" =>
         \A d \in Beneath(t) : tasks[d].state \in Finished /\ DependencyDone(tasks, d)]_vars

(* Once the outside is quiet, every task ends, or waits for a person:      *)
(* itself, through what it depends on, or through its objective.  A lost   *)
(* error of an admission (controller.go:563) costs a tick; only one that   *)
(* comes back tick after tick stops the rest of the list for ever, and the *)
(* backlog with it, as what is listed counts as dispatched.                *)
WaitsForPerson(t) ==
  \/ \E d \in Closure(WaitEdges(tasks), {t}) : tasks[d].state = "BLOCKED_HUMAN"
  \/ \E d \in Closure(WaitEdges(tasks), {t}) :
       tasks[d].state = "PLANNED" /\ objectives[tasks[d].obj].blocked
NobodyWaitsForever ==
  \/ <>[](\A t \in DOMAIN tasks : tasks[t].state \in Finished \/ WaitsForPerson(t))
  \/ []<><<AdmissionFails>>_vars

(* The backlog drains: in the end each objective has all of its tasks      *)
(* provisioned or asks the operator, although failures of one objective    *)
(* use the same planner and the supervisor may end in between              *)
(* (capacity.go:276-294, workflow.go:1109-1161).                           *)
ObjectivesPlanned ==
  \/ <>[](\A o \in Range(backlog) :
            objectives[o].blocked \/ (objectives[o].planned /\ ~NeedsProvision(o)))
  \/ []<><<AdmissionFails>>_vars
=============================================================================
