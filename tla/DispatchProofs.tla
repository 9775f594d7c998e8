--------------------------- MODULE DispatchProofs ---------------------------
(***************************************************************************)
(* Dispatch, for any plans, requests and snapshots to begin with: types    *)
(* and the kinds of steps; then what it keeps safe: writers stay apart, a  *)
(* task lands after all it waits for, nothing waits for itself, and areas  *)
(* that overlap are never written at the same time.                        *)
(***************************************************************************)
EXTENDS Dispatch, OwnershipProofs, SequenceTheorems

(* The states in which a job finds its task. *)
Fits(kind, state) ==
  /\ kind = "preflight" => state \in {"READY", "FIX"}
  /\ kind = "write" => state = "RUNNING"
  /\ kind = "verify" => state \in {"IMPLEMENTED", "SYNC_REQUIRED"}
  /\ kind = "merge" => state \in {"MERGE_TRAIN", "SYNC_REQUIRED"}

(* What is wrong with no task of a snapshot, jobs apart. *)
TasksOK(s) ==
  /\ DOMAIN s \subseteq Ids /\ s \in [DOMAIN s -> Task] /\ Linked(s)
  /\ \A t \in DOMAIN s : s[t].state = "BLOCKED_HUMAN" => s[t].resume # ""

JobsOK ==
  /\ job \in [Ids -> Jobs]
  /\ \A t \in Ids : Active(t) => up /\ t \in DOMAIN tasks /\ Fits(job[t], tasks[t].state)
  /\ \A t \in DOMAIN tasks : tasks[t].state = "RUNNING" /\ up => job[t] = "write"

(* A plan's tasks are there only when it was accepted. *)
PlansOK ==
  \A t \in DOMAIN tasks, o \in Objectives : t \in DOMAIN Plan[o] =>
    o \in DOMAIN objectives /\ objectives[o].planned

PlanningOK ==
  /\ DOMAIN objectives \subseteq Objectives
  /\ objectives \in [DOMAIN objectives -> Objective]
  /\ backlog \in Seq(Objectives) /\ IsInjective(backlog) /\ Range(backlog) = DOMAIN objectives
  /\ cursor \in 0..Len(backlog)
  /\ planning \in DOMAIN objectives \union {""}

Types == /\ TasksOK(tasks) /\ JobsOK /\ PlansOK /\ PlanningOK
         /\ left \in [Outside -> Nat] /\ up \in BOOLEAN /\ (queue # <<>> => up)

LEMMA FiniteIds == IsFiniteSet(Ids)
<1>1. Order \in Seq(Ids)
  BY DispatchAssumption
<1>2. Len(Order) \in Nat /\ Order \in [1..Len(Order) -> Ids]
  BY <1>1
<1>3. IsFiniteSet(1..Len(Order))
  BY <1>2, FS_Interval
<1>4. Order \in Surjection(1..Len(Order), Ids)
  BY <1>2 DEF Surjection, Ids, Range
<1> QED BY <1>3, <1>4, FS_Surjection

-----------------------------------------------------------------------------
(* Steps of one task. *)

LEMMA Updated ==
  ASSUME NEW s, s \in [DOMAIN s -> Task], NEW t \in DOMAIN s, NEW r \in Task,
         NEW s2, s2 = [s EXCEPT ![t] = r]
  PROVE  /\ DOMAIN s2 = DOMAIN s /\ s2 \in [DOMAIN s2 -> Task]
         /\ s2[t] = r /\ \A u \in DOMAIN s \ {t} : s2[u] = s[u]
OBVIOUS

Unfinished == States \ {"DONE", "SUPERSEDED"}
Begun == {"RUNNING", "MERGE_TRAIN", "DONE"}

(* What t waits for is what it waited for before, or the owners to which   *)
(* findings were routed as well.                                           *)
Routed(t, deps) ==
  /\ Unreplaced
  /\ \E F \in SUBSET DOMAIN tasks :
       /\ deps = tasks[t].deps \union F
       /\ \A f \in F : t \notin Closure(DepEdges(tasks), {f})

(* The record r that a step may leave t in. *)
Becomes(t, r) ==
  /\ r \in Task
  /\ tasks[t].state \in Unfinished /\ r.state # "SUPERSEDED"
  /\ r.state = "BLOCKED_HUMAN" => r.resume # ""
  /\ r.domains = tasks[t].domains
  /\ r.deps = tasks[t].deps \/ (Routed(t, r.deps) /\ r.state \notin Begun)
  /\ r.state \in Begun => tasks[t].state \in Begun \/ DependenciesComplete(tasks, t)
  /\ r.state = "RUNNING" => tasks[t].state = "RUNNING" \/ Admissible(t, Writers)

(* One task and its job take a step. *)
Moves(t, r, kind) ==
  /\ t \in DOMAIN tasks /\ up /\ up' = up
  /\ Becomes(t, r)
  /\ tasks' = [tasks EXCEPT ![t] = r]
  /\ kind \in Jobs /\ job' = [job EXCEPT ![t] = kind]
  /\ Fits(kind, r.state) /\ (r.state = "RUNNING" => kind = "write")
  /\ UNCHANGED <<objectives, backlog, cursor, apart, unseen>>
  /\ planning' \in {planning, ""}
  /\ left' \in [Outside -> Nat]

LEMMA MovesTypes ==
  ASSUME Types, NEW t, NEW r, NEW kind, Moves(t, r, kind)
  PROVE  Types'
<1> USE DEF Types, Moves, Becomes
<1>1. t \in DOMAIN tasks /\ t \in Ids /\ r \in Task /\ kind \in Jobs
  BY DEF TasksOK
<1>2. /\ DOMAIN tasks' = DOMAIN tasks /\ tasks' \in [DOMAIN tasks' -> Task]
      /\ tasks'[t] = r /\ \A u \in DOMAIN tasks \ {t} : tasks'[u] = tasks[u]
  BY <1>1, Updated DEF TasksOK
<1>3. /\ job' \in [Ids -> Jobs] /\ job'[t] = kind
      /\ \A u \in Ids \ {t} : job'[u] = job[u]
  BY <1>1 DEF JobsOK
<1>4. r.deps \in SUBSET DOMAIN tasks
  BY <1>1 DEF TasksOK, Linked, Routed
<1>5. TasksOK(tasks')
  <2>1. Linked(tasks')
    BY <1>1, <1>2, <1>4 DEF TasksOK, Linked
  <2>2. \A u \in DOMAIN tasks' : tasks'[u].state = "BLOCKED_HUMAN" => tasks'[u].resume # ""
    BY <1>1, <1>2 DEF TasksOK
  <2> QED BY <1>2, <2>1, <2>2 DEF TasksOK
<1>6. JobsOK'
  <2>1. ASSUME NEW u \in Ids, job'[u] # "none"
        PROVE  up' /\ u \in DOMAIN tasks' /\ Fits(job'[u], tasks'[u].state)
    <3>1. CASE u = t
      BY <1>1, <1>2, <1>3, <3>1
    <3>2. CASE u # t
      BY <1>2, <1>3, <2>1, <3>2 DEF JobsOK, Active
    <3> QED BY <3>1, <3>2
  <2>2. ASSUME NEW u \in DOMAIN tasks', tasks'[u].state = "RUNNING" PROVE job'[u] = "write"
    <3>0. u \in Ids
      BY <1>2 DEF TasksOK
    <3> QED BY <1>2, <1>3, <2>2, <3>0 DEF JobsOK
  <2> HIDE DEF Types, Moves, Becomes
  <2> QED BY <1>3, <2>1, <2>2 DEF JobsOK, Active
<1>7. PlansOK'
  BY <1>2 DEF PlansOK
<1>8. PlanningOK'
  BY DEF PlanningOK
<1> QED BY <1>5, <1>6, <1>7, <1>8


(* The records that steps leave behind. *)
Kept(q, r) == /\ r \in Task /\ r.domains = q.domains /\ r.deps = q.deps

LEMMA BlockedRecord ==
  ASSUME NEW q \in Task, NEW resume \in {"READY", "FIX", "SYNC_REQUIRED"}
  PROVE  LET r == [Block(q, resume) EXCEPT !.open = FALSE]
         IN /\ Kept(q, r) /\ r.state = "BLOCKED_HUMAN" /\ r.resume = resume
BY DEF Block, Kept, Task, States

LEMMA SpentRecord ==
  ASSUME NEW q \in Task
  PROVE  Kept(q, Spent(q))
<1>0. q.work \in Nat
  BY DEF Task
<1>1. PICK w \in Nat : w = q.work + 1
  BY <1>0
<1>2. PICK s : s = [q EXCEPT !.work = w, !.open = FALSE]
  OBVIOUS
<1>3. Spent(q) = s
  BY <1>1, <1>2 DEF Spent
<1>4. Kept(q, s)
  BY <1>1, <1>2 DEF Kept, Task
<1> QED BY <1>3, <1>4

LEMMA RestatedRecord ==
  ASSUME NEW q \in Task, NEW s, Kept(q, s), NEW state \in States, NEW r, r = [s EXCEPT !.state = state]
  PROVE  Kept(q, r) /\ r.state = state
BY DEF Kept, Task

(* What a step of one task leaves alone, the queue apart. *)
OthersStay == UNCHANGED <<objectives, backlog, cursor, planning, up, left, apart, unseen>>

(* A step of t that keeps what it waits for, from and to these states. *)
LEMMA StepMovesOn ==
  ASSUME Types, NEW t \in DOMAIN tasks, up, NEW r, NEW kind \in Jobs,
         Kept(tasks[t], r), Set(t, r), Held(t, kind), OthersStay,
         tasks[t].state \in Unfinished,
         r.state \in Begun => tasks[t].state \in Begun \/ DependenciesComplete(tasks, t),
         r.state = "RUNNING" => tasks[t].state = "RUNNING" \/ Admissible(t, Writers),
         r.state # "SUPERSEDED", r.state = "BLOCKED_HUMAN" => r.resume # "",
         Fits(kind, r.state), r.state = "RUNNING" => kind = "write"
  PROVE  \E r2, k2 : Moves(t, r2, k2)
<1>1. Becomes(t, r)
  BY DEF Becomes, Kept
<1>2. Moves(t, r, kind)
  BY <1>1 DEF Moves, Set, Held, OthersStay, Types
<1> QED BY <1>2

LEMMA StepMoves ==
  ASSUME Types, NEW t \in DOMAIN tasks, up, NEW r, NEW kind \in Jobs,
         Kept(tasks[t], r), Set(t, r), Held(t, kind), OnlyTasks,
         tasks[t].state \in Unfinished,
         r.state \in Begun => tasks[t].state \in Begun \/ DependenciesComplete(tasks, t),
         r.state = "RUNNING" => tasks[t].state = "RUNNING" \/ Admissible(t, Writers),
         r.state # "SUPERSEDED", r.state = "BLOCKED_HUMAN" => r.resume # "",
         Fits(kind, r.state), r.state = "RUNNING" => kind = "write"
  PROVE  \E r2, k2 : Moves(t, r2, k2)
<1>1. OthersStay
  BY DEF OnlyTasks, OthersStay
<1> QED BY <1>1, StepMovesOn

(* A step that leaves the tasks and their jobs alone. *)
Bystands ==
  /\ UNCHANGED <<tasks, job, up, apart, unseen>>
  /\ PlanningOK' /\ left' \in [Outside -> Nat] /\ (queue' # <<>> => up)
  /\ \A o \in DOMAIN objectives :
       o \in DOMAIN objectives' /\ (objectives[o].planned => objectives'[o].planned)

(* A list's task is admitted, or passed over, or its advice is dropped. *)
LEMMA AdmitMoves ==
  ASSUME Types, NEW t \in Ids, AdmitWriter(t)
  PROVE  (\E r, kind : Moves(t, r, kind)) \/ Bystands
<1>0. t \in DOMAIN tasks => tasks[t] \in Task
  BY DEF Types, TasksOK
<1>u. up /\ OthersStay
  BY DEF AdmitWriter, OthersStay
<1>1. CASE /\ Admissible(t, Writers) /\ Held(t, "write")
           /\ Set(t, [tasks[t] EXCEPT !.state = "RUNNING", !.pre = "writing", !.open = TRUE])
  <2>1. t \in DOMAIN tasks /\ tasks[t].state \in {"READY", "FIX"} /\ DependenciesComplete(tasks, t)
    BY <1>1 DEF Admissible, Dispatchable
  <2>2. PICK r : r = [tasks[t] EXCEPT !.state = "RUNNING", !.pre = "writing", !.open = TRUE]
    OBVIOUS
  <2>3. Kept(tasks[t], r) /\ r.state = "RUNNING"
    BY <1>0, <2>1, <2>2 DEF Kept, Task, States
  <2>4. Set(t, r)
    BY <1>1, <2>2
  <2>5. Fits("write", r.state) /\ tasks[t].state \in Unfinished /\ "write" \in Jobs
    BY <2>1, <2>3 DEF Fits, Unfinished, States, Jobs
  <2> QED BY <1>1, <1>u, <2>1, <2>3, <2>4, <2>5, StepMovesOn
<1>2. CASE UNCHANGED <<tasks, job>>
  <2>1. PlanningOK'
    BY <1>u DEF OthersStay, PlanningOK, Types
  <2> QED BY <1>2, <1>u, <2>1 DEF Bystands, OthersStay, Types
<1>3. CASE /\ t \in DOMAIN tasks /\ tasks[t].state \in {"READY", "FIX"} /\ UNCHANGED job
           /\ Set(t, [Spent(tasks[t]) EXCEPT !.pre = "none"]) /\ job[t] = "none"
  <2>0. PICK x \in Task : x = tasks[t]
    BY <1>0, <1>3
  <2>z. Kept(x, Spent(x))
    BY SpentRecord
  <2>y. Spent(x).state = x.state
    BY DEF Spent, Task
  <2>1. PICK s : s = Spent(tasks[t]) /\ Kept(tasks[t], s) /\ s.state = tasks[t].state
    BY <2>0, <2>z, <2>y
  <2>2. PICK r : r = [s EXCEPT !.pre = "none"]
    OBVIOUS
  <2>3. Kept(tasks[t], r) /\ r.state = tasks[t].state
    BY <2>1, <2>2 DEF Kept, Task
  <2>4. Set(t, r) /\ Held(t, "none")
    BY <1>3, <2>1, <2>2 DEF Held, Types, JobsOK
  <2>5. /\ Fits("none", r.state) /\ tasks[t].state \in Unfinished /\ "none" \in Jobs
        /\ r.state \notin {"RUNNING", "BLOCKED_HUMAN", "SUPERSEDED", "DONE", "MERGE_TRAIN"}
    BY <1>3, <2>3 DEF Fits, Unfinished, States, Jobs
  <2> QED BY <1>3, <1>u, <2>3, <2>4, <2>5, StepMovesOn DEF Begun
<1>4. ASSUME t \in DOMAIN tasks, tasks[t].state \in {"READY", "FIX"}, job[t] # "none",
             Set(t, [Spent(tasks[t]) EXCEPT !.pre = "none"]), UNCHANGED job
      PROVE  \E r, kind : Moves(t, r, kind)
  <2>0. PICK x \in Task : x = tasks[t]
    BY <1>0, <1>4
  <2>z. Kept(x, Spent(x))
    BY SpentRecord
  <2>y. Spent(x).state = x.state
    BY DEF Spent, Task
  <2>1. PICK s : s = Spent(tasks[t]) /\ Kept(tasks[t], s) /\ s.state = tasks[t].state
    BY <2>0, <2>z, <2>y
  <2>2. PICK r : r = [s EXCEPT !.pre = "none"]
    OBVIOUS
  <2>3. Kept(tasks[t], r) /\ r.state = tasks[t].state
    BY <2>1, <2>2 DEF Kept, Task
  <2>4. Set(t, r) /\ Held(t, job[t])
    BY <1>4, <2>1, <2>2 DEF Held, Types, JobsOK
  <2>5. /\ Fits(job[t], r.state) /\ tasks[t].state \in Unfinished /\ job[t] \in Jobs
        /\ r.state \notin {"RUNNING", "BLOCKED_HUMAN", "SUPERSEDED", "DONE", "MERGE_TRAIN"}
    BY <1>4, <2>3 DEF Types, JobsOK, Active, Unfinished, States
  <2> QED BY <1>4, <1>u, <2>3, <2>4, <2>5, StepMovesOn DEF Begun
<1>5. \/ /\ Admissible(t, Writers) /\ Held(t, "write")
         /\ Set(t, [tasks[t] EXCEPT !.state = "RUNNING", !.pre = "writing", !.open = TRUE])
      \/ UNCHANGED <<tasks, job>>
      \/ /\ t \in DOMAIN tasks /\ tasks[t].state \in {"READY", "FIX"} /\ UNCHANGED job
         /\ Set(t, [Spent(tasks[t]) EXCEPT !.pre = "none"])
  BY DEF AdmitWriter
<1> QED BY <1>1, <1>2, <1>3, <1>4, <1>5

(* Preflights. *)
LEMMA PreflightMoves ==
  ASSUME Types, NEW t \in Ids, StartPreflight(t) \/ EnsureWorktree(t) \/ PreflightEnds(t)
  PROVE  \E r, kind : Moves(t, r, kind)
<1>0. t \in DOMAIN tasks => tasks[t] \in Task
  BY DEF Types, TasksOK
<1>2. CASE StartPreflight(t)
  <2>1. Waiting(t)
    BY <1>2 DEF StartPreflight, IsFirst
  <2>2. t \in DOMAIN tasks /\ tasks[t].state \in {"READY", "FIX"}
    BY <2>1 DEF Waiting, Dispatchable
  <2>3. Kept(tasks[t], tasks[t]) /\ Set(t, tasks[t])
    BY <1>0, <1>2, <2>2 DEF Kept, StartPreflight, Set, Types, TasksOK
  <2>4. up /\ Held(t, "preflight") /\ OnlyTasks
    BY <1>2 DEF StartPreflight, Scheduling
  <2>5. /\ Fits("preflight", tasks[t].state) /\ tasks[t].state \in Unfinished /\ "preflight" \in Jobs
        /\ tasks[t].state # "RUNNING" /\ tasks[t].state # "BLOCKED_HUMAN" /\ tasks[t].state # "SUPERSEDED"
    BY <2>2 DEF Fits, Unfinished, States, Jobs
  <2> QED BY <2>2, <2>3, <2>4, <2>5, StepMoves
<1>3. CASE EnsureWorktree(t) \/ PreflightEnds(t)
  <2>1. /\ t \in DOMAIN tasks /\ tasks[t].state \in {"READY", "FIX"} /\ up /\ OnlyTasks
        /\ job[t] = "preflight"
    BY <1>3 DEF EnsureWorktree, PreflightEnds, Types, JobsOK, Active, Fits
  <2>2. CASE EnsureWorktree(t)
    <3>g. PICK g \in BOOLEAN : g = (t \in Guided)
      <4>1. CASE t \in Guided
        <5>1. TRUE = (t \in Guided)
          BY <4>1
        <5> QED BY <5>1
      <4>2. CASE t \notin Guided
        <5>1. FALSE = (t \in Guided)
          BY <4>2
        <5> QED BY <5>1
      <4> QED BY <4>1, <4>2
    <3>1. PICK r : r = [tasks[t] EXCEPT !.pre = "queued", !.head = TRUE, !.open = g]
      OBVIOUS
    <3>2. Kept(tasks[t], r) /\ r.state = tasks[t].state
      BY <1>0, <2>1, <3>1 DEF Kept, Task
    <3>3. Set(t, r) /\ Held(t, "preflight")
      BY <2>1, <2>2, <3>1, <3>g DEF EnsureWorktree, Held, Types, JobsOK
    <3>4. /\ Fits("preflight", r.state) /\ tasks[t].state \in Unfinished /\ "preflight" \in Jobs
          /\ r.state \notin {"RUNNING", "BLOCKED_HUMAN", "SUPERSEDED", "DONE", "MERGE_TRAIN"}
      BY <2>1, <3>2 DEF Fits, Unfinished, States, Jobs
    <3> QED BY <2>1, <3>2, <3>3, <3>4, StepMoves DEF Begun
  <2>3. CASE PreflightEnds(t)
    <3>1. PICK r : /\ Set(t, r)
                   /\ \/ r = [tasks[t] EXCEPT !.pre = "ready", !.open = FALSE]
                      \/ r = Spent(tasks[t])
                      \/ \E resume \in {"READY", "FIX"} : r = [Block(tasks[t], resume) EXCEPT !.open = FALSE]
      BY <2>3 DEF PreflightEnds
    <3>2. /\ Kept(tasks[t], r) /\ r.state \in {tasks[t].state, "BLOCKED_HUMAN"}
          /\ r.state = "BLOCKED_HUMAN" => r.resume # ""
      <4>1. CASE r = [tasks[t] EXCEPT !.pre = "ready", !.open = FALSE]
        BY <1>0, <2>1, <4>1 DEF Kept, Task
      <4>2. ASSUME NEW resume \in {"READY", "FIX"}, r = [Block(tasks[t], resume) EXCEPT !.open = FALSE]
            PROVE  Kept(tasks[t], r) /\ r.state = "BLOCKED_HUMAN" /\ r.resume # ""
        <5>1. resume \in {"READY", "FIX", "SYNC_REQUIRED"} /\ resume # "" /\ tasks[t] \in Task
          BY <1>0, <2>1, <4>2
        <5> QED BY <4>2, <5>1, BlockedRecord
      <4>3. CASE r = Spent(tasks[t])
        <5>1. Kept(tasks[t], Spent(tasks[t])) /\ tasks[t] \in Task
          BY <1>0, <2>1, SpentRecord
        <5>2. Spent(tasks[t]).state = tasks[t].state
          BY <5>1 DEF Spent, Task
        <5> QED BY <2>1, <4>3, <5>1, <5>2
      <4> QED BY <3>1, <4>1, <4>2, <4>3
    <3>3. Held(t, "none")
      BY <2>3 DEF PreflightEnds, Released
    <3>4. /\ Fits("none", r.state) /\ tasks[t].state \in Unfinished /\ "none" \in Jobs
          /\ r.state \notin {"RUNNING", "SUPERSEDED", "DONE", "MERGE_TRAIN"}
      BY <2>1, <3>2 DEF Fits, Unfinished, States, Jobs
    <3> QED BY <2>1, <3>1, <3>2, <3>3, <3>4, StepMoves DEF Begun
  <2> QED BY <1>3, <2>2, <2>3
<1> QED BY <1>2, <1>3


(* What a writer's job leaves. *)
LEMMA WritingMoves ==
  ASSUME Types, NEW t \in Ids, WriterEnds(t) \/ Implemented(t)
  PROVE  \E r, kind : Moves(t, r, kind)
<1>0. /\ t \in DOMAIN tasks /\ tasks[t].state = "RUNNING" /\ up /\ OnlyTasks /\ tasks[t] \in Task
      /\ tasks[t].state \in Unfinished /\ tasks[t].state \in Begun
  BY DEF WriterEnds, Implemented, Types, TasksOK, JobsOK, Active, Fits, Unfinished, States, Begun
<1>1. CASE WriterEnds(t)
  <2>1. PICK r : /\ Set(t, r)
                 /\ \/ \E resume \in {"READY", "FIX"} : r = [Block(tasks[t], resume) EXCEPT !.open = FALSE]
                    \/ \E pre \in {"ready", "writing"} :
                         r = [Spent(tasks[t]) EXCEPT !.state = "READY", !.pre = pre]
                    \/ r = [Spent(tasks[t]) EXCEPT !.state = "FIX"]
    BY <1>1 DEF WriterEnds
  <2>2. /\ Kept(tasks[t], r) /\ r.state \in {"BLOCKED_HUMAN", "READY", "FIX"}
        /\ r.state = "BLOCKED_HUMAN" => r.resume # ""
    <3>1. ASSUME NEW resume \in {"READY", "FIX"}, r = [Block(tasks[t], resume) EXCEPT !.open = FALSE]
          PROVE  Kept(tasks[t], r) /\ r.state = "BLOCKED_HUMAN" /\ r.resume # ""
      <4>1. resume \in {"READY", "FIX", "SYNC_REQUIRED"} /\ resume # ""
        BY <3>1
      <4> QED BY <1>0, <3>1, <4>1, BlockedRecord
    <3>0. PICK s : s = Spent(tasks[t]) /\ Kept(tasks[t], s)
      BY <1>0, SpentRecord
    <3>2. CASE \E pre \in {"ready", "writing"} :
                 r = [Spent(tasks[t]) EXCEPT !.state = "READY", !.pre = pre]
      <4>1. "READY" \in States
        BY DEF States
      <4>2. PICK pre \in {"ready", "writing"} : r = [s EXCEPT !.state = "READY", !.pre = pre]
        BY <3>0, <3>2
      <4>3. PICK m : m = [s EXCEPT !.state = "READY"]
        OBVIOUS
      <4>4. Kept(tasks[t], m) /\ m.state = "READY"
        BY <1>0, <3>0, <4>1, <4>3, RestatedRecord
      <4>5. r = [m EXCEPT !.pre = pre]
        BY <4>2, <4>3
      <4>6. Kept(tasks[t], r) /\ r.state = "READY"
        BY <4>4, <4>5 DEF Kept, Task
      <4> QED BY <4>6
    <3>3. CASE r = [Spent(tasks[t]) EXCEPT !.state = "FIX"]
      <4>1. "FIX" \in States /\ r = [s EXCEPT !.state = "FIX"]
        BY <3>0, <3>3 DEF States
      <4> QED BY <1>0, <3>0, <4>1, RestatedRecord
    <3> QED BY <2>1, <3>1, <3>2, <3>3
  <2>3. Held(t, "none") /\ "none" \in Jobs /\ Fits("none", r.state)
    BY <1>1 DEF WriterEnds, Released, Jobs, Fits
  <2> QED BY <1>0, <2>1, <2>2, <2>3, StepMoves
<1>2. CASE Implemented(t)
  <2>1. PICK r : r = [tasks[t] EXCEPT !.state = "IMPLEMENTED"]
    OBVIOUS
  <2>2. Kept(tasks[t], r) /\ r.state = "IMPLEMENTED"
    BY <1>0, <2>1 DEF Kept, Task, States
  <2>3. Set(t, r) /\ Held(t, "verify") /\ "verify" \in Jobs /\ Fits("verify", r.state)
    BY <1>2, <2>1, <2>2 DEF Implemented, Jobs, Fits
  <2> QED BY <1>0, <2>2, <2>3, StepMoves
<1> QED BY <1>1, <1>2

(* Verification, from its start to its end. *)
LEMMA VerificationMoves ==
  ASSUME Types, NEW t \in Ids, LaunchVerification(t) \/ VerificationEnds(t) \/ VerificationBlocks(t)
  PROVE  \E r, kind : Moves(t, r, kind)
<1>0. /\ t \in DOMAIN tasks /\ up /\ OnlyTasks /\ tasks[t] \in Task
      /\ tasks[t].state \in {"IMPLEMENTED", "SYNC_REQUIRED"} /\ tasks[t].state \in Unfinished
  BY DEF LaunchVerification, VerificationEnds, VerificationBlocks, Scheduling, Types, TasksOK, JobsOK, Active, Fits,
         Unfinished, States
<1>1. CASE LaunchVerification(t)
  <2>1. PICK r : r = [tasks[t] EXCEPT !.open = TRUE]
    OBVIOUS
  <2>2. Kept(tasks[t], r) /\ r.state = tasks[t].state
    BY <1>0, <2>1 DEF Kept, Task
  <2>3. Set(t, r) /\ Held(t, "verify") /\ "verify" \in Jobs /\ Fits("verify", r.state)
    BY <1>0, <1>1, <2>1, <2>2 DEF LaunchVerification, Jobs, Fits
  <2>4. r.state \notin Begun \union {"SUPERSEDED", "BLOCKED_HUMAN"}
    BY <1>0, <2>2 DEF Begun
  <2> QED BY <1>0, <2>2, <2>3, <2>4, StepMoves DEF Begun
<1>2. CASE VerificationEnds(t)
  <2> DEFINE closed == [tasks[t] EXCEPT !.open = FALSE, !.pr = TRUE]
  <2>1. PICK r : /\ Set(t, r)
                 /\ \/ r = [Spent(closed) EXCEPT !.state = "FIX"]
                    \/ r = [closed EXCEPT !.state = "MERGE_READY"]
                    \/ r = [closed EXCEPT !.state = "SYNC_REQUIRED"]
    BY <1>2 DEF VerificationEnds
  <2>2. closed \in Task /\ closed.domains = tasks[t].domains /\ closed.deps = tasks[t].deps
    BY <1>0 DEF Task
  <2> HIDE DEF closed
  <2>3. Kept(tasks[t], r) /\ r.state \in {"FIX", "MERGE_READY", "SYNC_REQUIRED"}
    <3>0. PICK s : s = Spent(closed) /\ Kept(closed, s)
      BY <2>2, SpentRecord
    <3>1. CASE r = [Spent(closed) EXCEPT !.state = "FIX"]
      <4>1. Kept(closed, r) /\ r.state = "FIX"
        <5>1. "FIX" \in States /\ r = [s EXCEPT !.state = "FIX"]
          BY <3>0, <3>1 DEF States
        <5> QED BY <2>2, <3>0, <5>1, RestatedRecord
      <4> QED BY <2>2, <4>1 DEF Kept
    <3>2. CASE r = [closed EXCEPT !.state = "MERGE_READY"] \/ r = [closed EXCEPT !.state = "SYNC_REQUIRED"]
      BY <2>2, <3>2 DEF States, Kept, Task
    <3> QED BY <2>1, <3>1, <3>2
  <2>4. Held(t, "none") /\ "none" \in Jobs /\ Fits("none", r.state)
    BY <1>2 DEF VerificationEnds, Released, Jobs, Fits
  <2>5. r.state \notin Begun \union {"SUPERSEDED", "BLOCKED_HUMAN"}
    BY <2>3 DEF Begun
  <2> QED BY <1>0, <2>1, <2>3, <2>4, <2>5, StepMoves DEF Begun
<1>3. CASE VerificationBlocks(t)
  <2>1. PICK r : r = [Block(tasks[t], "SYNC_REQUIRED") EXCEPT !.open = FALSE]
    OBVIOUS
  <2>2. Kept(tasks[t], r) /\ r.state = "BLOCKED_HUMAN" /\ r.resume = "SYNC_REQUIRED"
    BY <1>0, <2>1, BlockedRecord
  <2>3. Set(t, r) /\ Held(t, "none") /\ "none" \in Jobs /\ Fits("none", r.state)
    BY <1>3, <2>1 DEF VerificationBlocks, Released, Jobs, Fits
  <2> QED BY <1>0, <2>2, <2>3, StepMoves DEF Begun
<1> QED BY <1>1, <1>2, <1>3

(* Verification that ends in a route. *)
LEMMA RoutingMoves ==
  ASSUME Types, NEW t \in Ids, FindingsRouted(t) \/ FailureRouted(t)
  PROVE  \E r, kind : Moves(t, r, kind)
<1>0. /\ t \in DOMAIN tasks /\ up /\ tasks[t] \in Task /\ Unreplaced
      /\ tasks[t].state \in {"IMPLEMENTED", "SYNC_REQUIRED"} /\ tasks[t].state \in Unfinished
      /\ Held(t, "none") /\ UNCHANGED <<objectives, backlog, cursor, planning, up, apart, unseen>>
      /\ left["route"] > 0 /\ left' = [left EXCEPT !["route"] = @ - 1]
  BY DEF FindingsRouted, FailureRouted, Routable, Types, TasksOK, JobsOK, Active, Fits, Unfinished, States,
         Released
<1>1. left' \in [Outside -> Nat]
  BY <1>0 DEF Types, Outside
<1>2. ASSUME NEW F \in SUBSET DOMAIN tasks, \A f \in F : t \notin Closure(DepEdges(tasks), {f}),
             NEW r, Set(t, r), r \in Task, r.domains = tasks[t].domains, r.deps = tasks[t].deps \union F,
             r.state \in {"SYNC_REQUIRED", "BLOCKED_HUMAN"}, r.state = "BLOCKED_HUMAN" => r.resume # ""
      PROVE  \E r2, kind : Moves(t, r2, kind)
  <2>1. r.state \notin Begun /\ r.state # "SUPERSEDED" /\ r.state # "RUNNING"
    BY <1>2 DEF Begun
  <2>2. Routed(t, r.deps)
    BY <1>0, <1>2 DEF Routed
  <2>3. Becomes(t, r)
    BY <1>0, <1>2, <2>1, <2>2 DEF Becomes
  <2>4. "none" \in Jobs /\ Fits("none", r.state)
    BY DEF Jobs, Fits
  <2>5. Moves(t, r, "none")
    BY <1>0, <1>1, <1>2, <2>1, <2>3, <2>4 DEF Moves, Set, Held
  <2> QED BY <2>5
<1>3. CASE FindingsRouted(t)
  <2>1. PICK outside :
               Set(t, [ApplyCrossTaskFindings(tasks, t, outside) EXCEPT !.open = FALSE, !.pr = TRUE])
    BY <1>3 DEF FindingsRouted
  <2> DEFINE F == UNION {RouteTo(tasks, t, p) : p \in outside}
  <2>2. F \in SUBSET DOMAIN tasks /\ \A f \in F : t \notin Closure(DepEdges(tasks), {f})
    BY RouteFacts
  <2>3. PICK D : D = tasks[t].deps \union F
    OBVIOUS
  <2>4. D \in SUBSET Ids
    BY <1>0, <2>2, <2>3 DEF Task, Types, TasksOK
  <2>5. PICK w : w = [tasks[t] EXCEPT !.deps = D, !.state = "SYNC_REQUIRED"]
    OBVIOUS
  <2>6. PICK a : a = ApplyCrossTaskFindings(tasks, t, outside)
    OBVIOUS
  <2>7. a = w \/ a = Block(w, "SYNC_REQUIRED")
    BY <2>3, <2>5, <2>6 DEF ApplyCrossTaskFindings
  <2>8. /\ w \in Task /\ w.deps = D /\ w.domains = tasks[t].domains /\ w.state = "SYNC_REQUIRED"
    BY <1>0, <2>4, <2>5 DEF Task, States
  <2>9. /\ a \in Task /\ a.deps = D /\ a.domains = tasks[t].domains
        /\ a.state \in {"SYNC_REQUIRED", "BLOCKED_HUMAN"} /\ (a.state = "BLOCKED_HUMAN" => a.resume # "")
    BY <2>7, <2>8 DEF Block, Task, States
  <2>10. PICK r : r = [a EXCEPT !.open = FALSE, !.pr = TRUE]
    OBVIOUS
  <2>11. /\ r \in Task /\ r.deps = D /\ r.domains = tasks[t].domains /\ r.state = a.state /\ r.resume = a.resume
    BY <2>9, <2>10 DEF Task
  <2>12. Set(t, r)
    BY <2>1, <2>6, <2>10
  <2> HIDE DEF F
  <2> QED BY <1>2, <2>2, <2>3, <2>9, <2>11, <2>12
<1>4. CASE FailureRouted(t)
  <2>1. PICK path : Set(t, [ApplyNativeFailureRoute(tasks, t, path) EXCEPT !.open = FALSE, !.pr = TRUE])
    BY <1>4 DEF FailureRouted
  <2> DEFINE F == RouteTo(tasks, t, path)
  <2>2. F \in SUBSET DOMAIN tasks /\ \A f \in F : t \notin Closure(DepEdges(tasks), {f})
    BY RouteFacts
  <2>3. PICK D : D = tasks[t].deps \union F
    OBVIOUS
  <2>4. D \in SUBSET Ids
    BY <1>0, <2>2, <2>3 DEF Task, Types, TasksOK
  <2>5. PICK a : a = [tasks[t] EXCEPT !.deps = D, !.state = "SYNC_REQUIRED"]
    OBVIOUS
  <2>6. a = ApplyNativeFailureRoute(tasks, t, path)
    BY <2>3, <2>5 DEF ApplyNativeFailureRoute
  <2>7. a \in Task /\ a.deps = D /\ a.domains = tasks[t].domains /\ a.state = "SYNC_REQUIRED"
    BY <1>0, <2>4, <2>5 DEF Task, States
  <2>8. PICK r : r = [a EXCEPT !.open = FALSE, !.pr = TRUE]
    OBVIOUS
  <2>9. /\ r \in Task /\ r.deps = D /\ r.domains = tasks[t].domains /\ r.state = "SYNC_REQUIRED"
    BY <2>7, <2>8 DEF Task
  <2>10. Set(t, r)
    BY <2>1, <2>6, <2>8
  <2> HIDE DEF F
  <2> QED BY <1>2, <2>2, <2>3, <2>9, <2>10
<1> QED BY <1>3, <1>4

(* A merge. *)
LEMMA MergeMoves ==
  ASSUME Types, NEW t \in Ids, StartMerge(t) \/ MergeEnds(t)
  PROVE  \E r, kind : Moves(t, r, kind)
<1>0. /\ t \in DOMAIN tasks /\ up /\ OnlyTasks /\ tasks[t] \in Task
      /\ tasks[t].state \in {"MERGE_READY", "MERGE_TRAIN", "SYNC_REQUIRED"} /\ tasks[t].state \in Unfinished
  BY DEF StartMerge, MergeEnds, Scheduling, Types, TasksOK, JobsOK, Active, Fits, Unfinished, States
<1>1. CASE StartMerge(t)
  <2>1. PICK state : state = IF DependenciesComplete(tasks, t) THEN "MERGE_TRAIN" ELSE "SYNC_REQUIRED"
    OBVIOUS
  <2>2. PICK r : r = [tasks[t] EXCEPT !.state = state]
    OBVIOUS
  <2>3. Kept(tasks[t], r) /\ r.state = state
    BY <1>0, <2>1, <2>2 DEF Kept, Task, States
  <2>4. Set(t, r) /\ Held(t, "merge") /\ "merge" \in Jobs /\ Fits("merge", r.state)
    BY <1>1, <2>1, <2>2, <2>3 DEF StartMerge, Jobs, Fits
  <2>5. /\ r.state \notin {"SUPERSEDED", "BLOCKED_HUMAN", "RUNNING", "DONE"}
        /\ r.state = "MERGE_TRAIN" => DependenciesComplete(tasks, t)
    BY <2>1, <2>3
  <2> QED BY <1>0, <2>3, <2>4, <2>5, StepMoves DEF Begun
<1>2. CASE MergeEnds(t)
  <2>1. PICK r : /\ Set(t, r)
                 /\ \/ r = tasks[t] /\ tasks[t].state = "SYNC_REQUIRED"
                    \/ r = [tasks[t] EXCEPT !.state = "DONE"] /\ tasks[t].state = "MERGE_TRAIN"
                    \/ r = [Spent(tasks[t]) EXCEPT !.state = "SYNC_REQUIRED"]
    <3>1. CASE tasks[t].state = "SYNC_REQUIRED" /\ UNCHANGED tasks
      <4>1. Set(t, tasks[t])
        BY <3>1 DEF Set, Types, TasksOK
      <4> QED BY <3>1, <4>1
    <3> QED BY <1>2, <3>1 DEF MergeEnds
  <2>2. /\ Kept(tasks[t], r) /\ r.state \in {"SYNC_REQUIRED", "DONE"}
        /\ r.state = "DONE" => tasks[t].state = "MERGE_TRAIN"
    <3>1. CASE r = tasks[t] /\ tasks[t].state = "SYNC_REQUIRED"
      BY <1>0, <3>1 DEF Kept
    <3>2. CASE r = [tasks[t] EXCEPT !.state = "DONE"] /\ tasks[t].state = "MERGE_TRAIN"
      BY <1>0, <3>2 DEF Kept, Task, States
    <3>0. PICK s : s = Spent(tasks[t]) /\ Kept(tasks[t], s)
      BY <1>0, SpentRecord
    <3>3. CASE r = [Spent(tasks[t]) EXCEPT !.state = "SYNC_REQUIRED"]
      <4>1. "SYNC_REQUIRED" \in States /\ r = [s EXCEPT !.state = "SYNC_REQUIRED"]
        BY <3>0, <3>3 DEF States
      <4> QED BY <1>0, <3>0, <4>1, RestatedRecord
    <3> QED BY <2>1, <3>1, <3>2, <3>3
  <2>3. Held(t, "none") /\ "none" \in Jobs /\ Fits("none", r.state)
    BY <1>2 DEF MergeEnds, Released, Jobs, Fits
  <2> QED BY <1>0, <2>1, <2>2, <2>3, StepMoves DEF Begun
<1> QED BY <1>1, <1>2

LEMMA TaskStepMoves ==
  ASSUME Types, NEW t \in Ids, TaskStep(t)
  PROVE  (\E r, kind : Moves(t, r, kind)) \/ Bystands
BY AdmitMoves, PreflightMoves, WritingMoves, VerificationMoves, RoutingMoves, MergeMoves DEF TaskStep


(* Provisioning and answers move a task without a job. *)
LEMMA ProvisionMoves ==
  ASSUME Types, Provision
  PROVE  \/ \E t, r, kind : Moves(t, r, kind)
         \/ UNCHANGED <<tasks, job, objectives, backlog, cursor, queue, up, left, apart, unseen>> /\ planning' = ""
<1> DEFINE next == {t \in DOMAIN tasks : tasks[t].obj = planning /\ tasks[t].state = "PLANNED"}
<1>1. CASE planning' = "" /\ UNCHANGED tasks
  BY <1>1 DEF Provision
<1>2. CASE \E t \in next : Set(t, [tasks[t] EXCEPT !.state = "READY"]) /\ UNCHANGED planning
  <2>1. PICK t \in next : Set(t, [tasks[t] EXCEPT !.state = "READY"]) /\ UNCHANGED planning
    BY <1>2
  <2>2. t \in DOMAIN tasks /\ t \in Ids /\ tasks[t] \in Task /\ tasks[t].state = "PLANNED" /\ up
    BY DEF Types, TasksOK, Provision
  <2>3. PICK r : r = [tasks[t] EXCEPT !.state = "READY"]
    OBVIOUS
  <2>4. Kept(tasks[t], r) /\ r.state = "READY"
    BY <2>2, <2>3 DEF Kept, Task, States
  <2>5. Becomes(t, r)
    BY <2>2, <2>4 DEF Becomes, Kept, Unfinished, States, Begun
  <2>6. job[t] = "none" /\ "none" \in Jobs /\ Fits("none", r.state)
    BY <2>2 DEF Types, JobsOK, Active, Fits, Jobs
  <2>7. job' = [job EXCEPT ![t] = "none"]
    BY <2>2, <2>6 DEF Provision, Types, JobsOK
  <2>8. Moves(t, r, "none")
    BY <2>1, <2>2, <2>3, <2>4, <2>5, <2>6, <2>7 DEF Moves, Set, Provision, Types
  <2> QED BY <2>8
<1>3. \/ planning' = "" /\ UNCHANGED tasks
      \/ \E t \in next : Set(t, [tasks[t] EXCEPT !.state = "READY"]) /\ UNCHANGED planning
  BY DEF Provision
<1> QED BY <1>1, <1>2, <1>3

LEMMA AnswerMoves ==
  ASSUME Types, NEW t \in Ids, Answer(t)
  PROVE  \E r, kind : Moves(t, r, kind)
<1>1. /\ t \in DOMAIN tasks /\ tasks[t] \in Task /\ tasks[t].state = "BLOCKED_HUMAN" /\ up
      /\ tasks[t].resume \in {"READY", "FIX", "SYNC_REQUIRED"}
  BY DEF Types, TasksOK, Answer, Scheduling, Task
<1>2. PICK r : r = [tasks[t] EXCEPT !.state = tasks[t].resume, !.resume = "", !.pre = "none"]
  OBVIOUS
<1>3. Kept(tasks[t], r) /\ r.state \in {"READY", "FIX", "SYNC_REQUIRED"}
  BY <1>1, <1>2 DEF Kept, Task, States
<1>4. Becomes(t, r)
  BY <1>1, <1>3 DEF Becomes, Kept, Unfinished, States, Begun
<1>5. job[t] = "none" /\ "none" \in Jobs /\ Fits("none", r.state)
  BY <1>1 DEF Types, JobsOK, Active, Fits, Jobs
<1>6. job' = [job EXCEPT ![t] = "none"]
  BY <1>1, <1>5 DEF Answer, Types, JobsOK
<1>7. left' \in [Outside -> Nat]
  BY DEF Answer, Use, Types, Outside
<1>8. Moves(t, r, "none")
  BY <1>1, <1>2, <1>3, <1>4, <1>5, <1>6, <1>7 DEF Moves, Set, Answer
<1> QED BY <1>8

-----------------------------------------------------------------------------
(* Steps of all tasks at once: a supervisor begins or ends. *)

(* What begins or ends changes no more than states. *)
Restates(s, s2) ==
  /\ DOMAIN s2 = DOMAIN s /\ s2 \in [DOMAIN s -> Task]
  /\ \A t \in DOMAIN s :
       /\ s2[t].deps = s[t].deps /\ s2[t].domains = s[t].domains /\ s2[t].by = s[t].by
       /\ s2[t].state = "SUPERSEDED" <=> s[t].state = "SUPERSEDED"
       /\ s[t].state = "DONE" => s2[t].state = "DONE"
       /\ s2[t].state \in Begun => s[t].state \in Begun
       /\ s2[t].state = "BLOCKED_HUMAN" => s2[t].resume # ""

LEMMA RestatesOK ==
  ASSUME NEW s, TasksOK(s), NEW s2, Restates(s, s2)
  PROVE  TasksOK(s2)
BY DEF TasksOK, Restates, Linked

LEMMA ResumedRecord ==
  ASSUME NEW q \in Task, q.state = "BLOCKED_HUMAN" => q.resume # "",
         NEW r, r = [Resumed(Hydrated(q)) EXCEPT !.open = FALSE]
  PROVE  /\ r \in Task /\ r.deps = q.deps /\ r.domains = q.domains /\ r.by = q.by
         /\ r.state = "SUPERSEDED" <=> q.state = "SUPERSEDED"
         /\ q.state = "DONE" => r.state = "DONE"
         /\ r.state \in Begun => q.state \in Begun
         /\ r.state # "RUNNING"
         /\ r.state = "BLOCKED_HUMAN" => r.resume # ""
<1>1. PICK h : h = Hydrated(q)
  OBVIOUS
<1>2. h = q \/ h = [q EXCEPT !.kind = "known"]
  BY <1>1 DEF Hydrated
<1>3. /\ h \in Task /\ h.deps = q.deps /\ h.domains = q.domains /\ h.by = q.by
      /\ h.state = q.state /\ h.resume = q.resume
  BY <1>2 DEF Task
<1>4. PICK m : m = Resumed(h)
  OBVIOUS
<1>5. \/ m = h /\ h.state # "RUNNING"
      \/ m = [h EXCEPT !.state = "READY"] /\ h.state = "RUNNING"
      \/ m = [h EXCEPT !.state = "BLOCKED_HUMAN", !.resume = "READY"] /\ h.state = "RUNNING"
      \/ m = [h EXCEPT !.state = "SYNC_REQUIRED"] /\ h.state \in {"IMPLEMENTED", "MERGE_TRAIN"}
  BY <1>4 DEF Resumed, Block
<1>6. /\ m \in Task /\ m.deps = q.deps /\ m.domains = q.domains /\ m.by = q.by
      /\ m.state = "SUPERSEDED" <=> q.state = "SUPERSEDED"
      /\ q.state = "DONE" => m.state = "DONE"
      /\ m.state \in Begun => q.state \in Begun
      /\ m.state # "RUNNING"
      /\ m.state = "BLOCKED_HUMAN" => m.resume # ""
  <2>1. CASE m = h /\ h.state # "RUNNING"
    BY <1>3, <2>1
  <2>2. CASE m = [h EXCEPT !.state = "READY"] /\ h.state = "RUNNING"
    BY <1>3, <2>2 DEF Task, States, Begun
  <2>3. CASE m = [h EXCEPT !.state = "BLOCKED_HUMAN", !.resume = "READY"] /\ h.state = "RUNNING"
    BY <1>3, <2>3 DEF Task, States, Begun
  <2>4. CASE m = [h EXCEPT !.state = "SYNC_REQUIRED"] /\ h.state \in {"IMPLEMENTED", "MERGE_TRAIN"}
    BY <1>3, <2>4 DEF Task, States, Begun
  <2> QED BY <1>5, <2>1, <2>2, <2>3, <2>4
<1>7. r = [m EXCEPT !.open = FALSE]
  BY <1>1, <1>4
<1> QED BY <1>6, <1>7 DEF Task

LEMMA StartRestates ==
  ASSUME Types, Start
  PROVE  Restates(tasks, tasks') /\ \A t \in DOMAIN tasks : tasks'[t].state # "RUNNING"
<1>1. ASSUME NEW t \in DOMAIN tasks
      PROVE  /\ tasks'[t] \in Task /\ tasks'[t].deps = tasks[t].deps
             /\ tasks'[t].domains = tasks[t].domains /\ tasks'[t].by = tasks[t].by
             /\ tasks'[t].state = "SUPERSEDED" <=> tasks[t].state = "SUPERSEDED"
             /\ tasks[t].state = "DONE" => tasks'[t].state = "DONE"
             /\ tasks'[t].state \in Begun => tasks[t].state \in Begun
             /\ tasks'[t].state # "RUNNING"
             /\ tasks'[t].state = "BLOCKED_HUMAN" => tasks'[t].resume # ""
  <2>1. tasks'[t] = [Resumed(Hydrated(tasks[t])) EXCEPT !.open = FALSE]
    BY DEF Start
  <2>2. tasks[t] \in Task /\ (tasks[t].state = "BLOCKED_HUMAN" => tasks[t].resume # "")
    BY DEF Types, TasksOK
  <2>3. PICK r : r = [Resumed(Hydrated(tasks[t])) EXCEPT !.open = FALSE]
    OBVIOUS
  <2>4. tasks'[t] = r
    BY <2>1, <2>3
  <2> QED BY <2>2, <2>3, <2>4, ResumedRecord
<1>2. DOMAIN tasks' = DOMAIN tasks /\ tasks' = [t \in DOMAIN tasks |-> tasks'[t]]
  BY DEF Start
<1>3. tasks' \in [DOMAIN tasks -> Task]
  BY <1>1, <1>2
<1> QED BY <1>1, <1>2, <1>3 DEF Restates

LEMMA StopRestates ==
  ASSUME Types, Stop
  PROVE  Restates(tasks, tasks')
<1>1. ASSUME NEW t \in DOMAIN tasks
      PROVE  /\ tasks'[t] \in Task /\ tasks'[t].deps = tasks[t].deps
             /\ tasks'[t].domains = tasks[t].domains /\ tasks'[t].by = tasks[t].by
             /\ tasks'[t].state = "SUPERSEDED" <=> tasks[t].state = "SUPERSEDED"
             /\ tasks[t].state = "DONE" => tasks'[t].state = "DONE"
             /\ tasks'[t].state \in Begun => tasks[t].state \in Begun
             /\ tasks'[t].state = "BLOCKED_HUMAN" => tasks'[t].resume # ""
  <2>1. PICK state : state = IF tasks[t].state = "RUNNING" THEN "READY" ELSE tasks[t].state
    OBVIOUS
  <2>2. tasks'[t] = [tasks[t] EXCEPT !.open = FALSE, !.state = state]
    BY <2>1 DEF Stop, Types, TasksOK, Task
  <2>3. tasks[t] \in Task /\ (tasks[t].state = "BLOCKED_HUMAN" => tasks[t].resume # "")
    BY DEF Types, TasksOK
  <2> QED BY <2>1, <2>2, <2>3 DEF Task, States, Begun
<1>2. DOMAIN tasks' = DOMAIN tasks /\ tasks' = [t \in DOMAIN tasks |-> tasks'[t]]
  BY DEF Stop
<1>3. tasks' \in [DOMAIN tasks -> Task]
  BY <1>1, <1>2
<1> QED BY <1>1, <1>2, <1>3 DEF Restates

LEMMA UseLeaves ==
  ASSUME Types, NEW kind \in Outside, Use(kind)
  PROVE  left' \in [Outside -> Nat]
<1>1. left[kind] \in Nat /\ left[kind] > 0 /\ left \in [Outside -> Nat]
  BY DEF Types, Use
<1>2. PICK n \in Nat : n = left[kind] - 1
  BY <1>1
<1>3. left' = [left EXCEPT ![kind] = n]
  BY <1>2 DEF Use
<1> QED BY <1>1, <1>3

LEMMA LifeTypes ==
  ASSUME Types, Start \/ Stop \/ Crash
  PROVE  Types' /\ Restates(tasks, tasks') /\ (up' => \A t \in DOMAIN tasks : tasks'[t].state # "RUNNING")
<1>1. Restates(tasks, tasks') /\ (up' => \A t \in DOMAIN tasks : tasks'[t].state # "RUNNING")
  <2>1. CASE Start
    BY <2>1, StartRestates
  <2>2. CASE Stop
    BY <2>2, StopRestates DEF Stop, Ended
  <2>3. CASE Crash
    BY <2>3 DEF Crash, Ended, Restates, Types, TasksOK
  <2> QED BY <2>1, <2>2, <2>3
<1>2. TasksOK(tasks') /\ DOMAIN tasks' = DOMAIN tasks
  BY <1>1, RestatesOK DEF Types, Restates
<1>3. job' = [t \in Ids |-> "none"]
  <2>1. CASE Start
    BY <2>1 DEF Start, Types, JobsOK, Active
  <2> QED BY <2>1 DEF Stop, Crash, Ended
<1>4. JobsOK'
  BY <1>1, <1>2, <1>3 DEF JobsOK, Active, Jobs
<1>5. UNCHANGED <<objectives, backlog, cursor>> /\ planning' \in {planning, ""} /\ up' \in BOOLEAN
  BY DEF Start, Stop, Crash, Ended
<1>6. PlansOK' /\ PlanningOK'
  BY <1>2, <1>5 DEF PlansOK, PlanningOK, Types
<1>7. left' \in [Outside -> Nat]
  <2>1. CASE Start
    BY <2>1 DEF Start, Types
  <2>2. CASE Use("end")
    <3>1. "end" \in Outside
      BY DEF Outside
    <3> QED BY <2>2, <3>1, UseLeaves
  <2> QED BY <2>1, <2>2 DEF Stop, Crash, Ended
<1>8. queue' # <<>> => up'
  BY DEF Start, Stop, Crash, Ended
<1> QED BY <1>1, <1>2, <1>4, <1>5, <1>6, <1>7, <1>8 DEF Types

-----------------------------------------------------------------------------
(* Steps of the planner. *)

LEMMA BystandsTypes ==
  ASSUME Types, Bystands
  PROVE  Types'
<1>1. TasksOK(tasks') /\ JobsOK' /\ up' \in BOOLEAN
  BY DEF Types, Bystands, JobsOK, Active
<1>2. PlansOK'
  BY DEF Types, Bystands, PlansOK
<1> QED BY <1>1, <1>2 DEF Types, Bystands

(* The objective that is being planned gets a new record. *)
LEMMA PlanEndsBystands ==
  ASSUME Types, planning # "", NEW q \in Objective, q.planned = objectives[planning].planned,
         PlanEnds(q), UNCHANGED tasks
  PROVE  Bystands
<1>1. planning \in DOMAIN objectives
  BY DEF Types, PlanningOK
<1>2. DOMAIN objectives' = DOMAIN objectives /\ objectives' \in [DOMAIN objectives' -> Objective]
  BY <1>1 DEF PlanEnds, Types, PlanningOK
<1>3. PlanningOK'
  BY <1>2 DEF PlanningOK, PlanEnds, Types
<1>4. \A o \in DOMAIN objectives : objectives'[o].planned = objectives[o].planned
  BY <1>1 DEF PlanEnds
<1> QED BY <1>2, <1>3, <1>4 DEF Bystands, PlanEnds, Types

LEMMA PlanFailsBystands ==
  ASSUME Types, PlanFails \/ PlanAsks
  PROVE  Bystands
<1>1. planning # "" /\ planning \in DOMAIN objectives /\ UNCHANGED tasks
  BY DEF PlanFails, PlanAsks, Types, PlanningOK
<1> DEFINE q == objectives[planning]
<1>2. q \in Objective /\ q.attempts \in Nat /\ q.blocked \in BOOLEAN
  BY <1>1 DEF Types, PlanningOK, Objective
<1>3. CASE PlanFails
  <2>1. PICK n \in Nat : n = q.attempts + 1
    BY <1>2
  <2>2. PICK b \in BOOLEAN : b = (q.blocked \/ q.attempts >= PlanRetries)
    <3>1. CASE q.blocked \/ q.attempts >= PlanRetries
      <4>1. TRUE = (q.blocked \/ q.attempts >= PlanRetries)
        BY <3>1
      <4> QED BY <4>1
    <3>2. CASE ~(q.blocked \/ q.attempts >= PlanRetries)
      <4>1. FALSE = (q.blocked \/ q.attempts >= PlanRetries)
        BY <3>2
      <4> QED BY <4>1
    <3> QED BY <3>1, <3>2
  <2>3. PICK r : r = [q EXCEPT !.attempts = n, !.blocked = b]
    OBVIOUS
  <2>4. r \in Objective /\ r.planned = q.planned
    BY <1>2, <2>3 DEF Objective
  <2>5. PlanEnds(r)
    BY <1>3, <2>1, <2>2, <2>3 DEF PlanFails
  <2> QED BY <1>1, <2>4, <2>5, PlanEndsBystands
<1>4. CASE PlanAsks
  <2>1. PICK r : r = [q EXCEPT !.blocked = TRUE]
    OBVIOUS
  <2>2. r \in Objective /\ r.planned = q.planned
    BY <1>2, <2>1 DEF Objective
  <2>3. PlanEnds(r)
    BY <1>4, <2>1 DEF PlanAsks
  <2> QED BY <1>1, <2>2, <2>3, PlanEndsBystands
<1> QED BY <1>3, <1>4

LEMMA BackfillPlans ==
  ASSUME Types, Backfill, UNCHANGED <<objectives, backlog>>
  PROVE  PlanningOK'
<1>1. PICK i \in DOMAIN backlog : cursor' = Rotated[i] /\ planning' = backlog[Rotated[i]]
  BY DEF Backfill
<1>2. /\ DOMAIN backlog = 1..Len(backlog) /\ Len(backlog) \in Nat /\ cursor \in Nat
      /\ i \in Nat /\ Len(backlog) > 0
  <2>1. backlog \in Seq(Objectives) /\ cursor \in 0..Len(backlog)
    BY DEF Types, PlanningOK
  <2>2. Len(backlog) \in Nat /\ DOMAIN backlog = 1..Len(backlog)
    BY <2>1
  <2>3. i \in 1..Len(backlog)
    BY <1>1, <2>2
  <2> QED BY <2>1, <2>2, <2>3
<1>3. PICK from \in Nat : from = IF cursor >= Len(backlog) THEN 0 ELSE cursor
  BY <1>2
<1>4. Rotated[i] = ((from + i - 1) % Len(backlog)) + 1
  BY <1>1, <1>3 DEF Rotated
<1>5. PICK m \in Nat : m = from + i - 1
  BY <1>2
<1>6. (m % Len(backlog)) \in 0..(Len(backlog) - 1)
  BY <1>2, <1>5
<1>7. Rotated[i] \in 1..Len(backlog)
  BY <1>2, <1>4, <1>5, <1>6
<1>8. backlog[Rotated[i]] \in DOMAIN objectives
  BY <1>2, <1>7 DEF Types, PlanningOK, Range
<1>9. cursor' \in 0..Len(backlog)
  BY <1>1, <1>2, <1>7
<1>10. planning' \in DOMAIN objectives
  BY <1>1, <1>8
<1> QED BY <1>9, <1>10 DEF Types, PlanningOK

LEMMA DecideBystands ==
  ASSUME Types, Decide \/ AdmissionFails
  PROVE  Bystands
<1>1. PlanningOK'
  <2>1. CASE Decide /\ Backfill
    BY <2>1, BackfillPlans DEF Decide
  <2>2. CASE UNCHANGED <<objectives, backlog, cursor, planning>>
    BY <2>2 DEF Types, PlanningOK
  <2> QED BY <2>1, <2>2 DEF Decide, AdmissionFails
<1> QED BY <1>1 DEF Decide, AdmissionFails, Scheduling, Bystands, Types

LEMMA ProvisionedBystands ==
  ASSUME Types, UNCHANGED <<tasks, job, objectives, backlog, cursor, queue, up, left, apart, unseen>>, planning' = ""
  PROVE  Bystands
BY DEF Bystands, Types, PlanningOK

LEMMA AnswerObjectiveBystands ==
  ASSUME Types, NEW o \in Objectives, AnswerObjective(o)
  PROVE  Bystands
<1>1. o \in DOMAIN objectives /\ objectives[o] \in Objective
  BY DEF AnswerObjective, Types, PlanningOK
<1>2. PICK r : r = [objectives[o] EXCEPT !.blocked = FALSE, !.attempts = 0]
  OBVIOUS
<1>3. r \in Objective /\ r.planned = objectives[o].planned
  BY <1>1, <1>2 DEF Objective
<1>4. objectives' = [objectives EXCEPT ![o] = r]
  BY <1>1, <1>2 DEF AnswerObjective, Types, PlanningOK
<1>5. DOMAIN objectives' = DOMAIN objectives /\ objectives' \in [DOMAIN objectives' -> Objective]
  BY <1>1, <1>3, <1>4 DEF Types, PlanningOK
<1>6. PlanningOK'
  BY <1>5 DEF PlanningOK, AnswerObjective, Types
<1>7. \A p \in DOMAIN objectives : objectives'[p].planned = objectives[p].planned
  BY <1>1, <1>3, <1>4
<1>8. "answer" \in Outside /\ Use("answer")
  BY DEF AnswerObjective, Outside
<1>9. left' \in [Outside -> Nat]
  BY <1>8, UseLeaves
<1> QED BY <1>5, <1>6, <1>7, <1>9 DEF Bystands, AnswerObjective, Scheduling, Types

LEMMA RunBystands ==
  ASSUME Types, NEW o \in Objectives, Run(o)
  PROVE  Bystands
<1>1. o \notin DOMAIN objectives /\ backlog \in Seq(Objectives) /\ backlog' = Append(backlog, o)
  BY DEF Run, Types, PlanningOK
<1>2. Fresh \in Objective
  BY DEF Fresh, Objective
<1>3. /\ DOMAIN objectives' = DOMAIN objectives \union {o}
      /\ objectives' \in [DOMAIN objectives' -> Objective]
      /\ \A p \in DOMAIN objectives : objectives'[p] = objectives[p]
  BY <1>1, <1>2 DEF Run, Types, PlanningOK
<1>4. PICK n \in Nat : n = Len(backlog)
  BY <1>1
<1>5. /\ backlog' \in Seq(Objectives) /\ Len(backlog') = n + 1
      /\ \A i \in 1..n : backlog'[i] = backlog[i]
      /\ backlog'[n + 1] = o
  BY <1>1, <1>4, AppendProperties
<1>6. DOMAIN backlog = 1..n /\ DOMAIN backlog' = 1..(n + 1)
  BY <1>1, <1>4, <1>5
<1>7. Range(backlog) = DOMAIN objectives /\ IsInjective(backlog)
  BY DEF Types, PlanningOK
<1>8. \A i \in 1..n : backlog[i] \in DOMAIN objectives
  BY <1>6, <1>7 DEF Range
<1>9. \A i \in 1..(n + 1) : i \in 1..n \/ i = n + 1
  BY <1>4
<1>10. 1..n \subseteq 1..(n + 1) /\ n + 1 \in 1..(n + 1)
  BY <1>4
<1>11. Range(backlog') = DOMAIN objectives'
  <2>1. ASSUME NEW x \in Range(backlog') PROVE x \in DOMAIN objectives'
    <3>1. PICK i \in 1..(n + 1) : x = backlog'[i]
      BY <1>6, <2>1 DEF Range
    <3> QED BY <1>3, <1>5, <1>8, <1>9, <3>1
  <2>2. ASSUME NEW x \in DOMAIN objectives' PROVE x \in Range(backlog')
    <3>1. CASE x = o
      BY <1>5, <1>6, <1>10, <3>1 DEF Range
    <3>2. CASE x \in DOMAIN objectives
      <4>1. PICK i \in 1..n : x = backlog[i]
        BY <1>6, <1>7, <3>2 DEF Range
      <4> QED BY <1>5, <1>6, <1>10, <4>1 DEF Range
    <3> QED BY <1>3, <2>2, <3>1, <3>2
  <2> QED BY <2>1, <2>2
<1>12. IsInjective(backlog')
  <2> SUFFICES ASSUME NEW i \in 1..(n + 1), NEW j \in 1..(n + 1), backlog'[i] = backlog'[j] PROVE i = j
    BY <1>6 DEF IsInjective
  <2>1. CASE i \in 1..n /\ j \in 1..n
    BY <1>5, <1>6, <1>7, <2>1 DEF IsInjective
  <2>2. CASE i \in 1..n /\ j = n + 1
    BY <1>1, <1>5, <1>8, <2>2
  <2>3. CASE i = n + 1 /\ j \in 1..n
    BY <1>1, <1>5, <1>8, <2>3
  <2> QED BY <1>9, <2>1, <2>2, <2>3
<1>13. cursor' \in 0..Len(backlog')
  <2>1. cursor \in 0..n /\ cursor' = cursor
    BY <1>4 DEF Run, Types, PlanningOK
  <2>2. cursor \in Nat /\ cursor <= n + 1 /\ 0 <= cursor
    BY <1>4, <2>1
  <2> QED BY <1>5, <2>1, <2>2
<1>14. PlanningOK'
  BY <1>3, <1>5, <1>11, <1>12, <1>13 DEF PlanningOK, Run, Types
<1>15. "run" \in Outside /\ Use("run")
  BY DEF Run, Outside
<1>16. left' \in [Outside -> Nat]
  BY <1>15, UseLeaves
<1> QED BY <1>3, <1>14, <1>16 DEF Bystands, Run, Scheduling, Types

(* An accepted plan adds its tasks. *)
Plans(o) ==
  /\ o \in Objectives
  /\ DOMAIN Plan[o] \intersect DOMAIN tasks = {}
  /\ DOMAIN tasks' = DOMAIN tasks \union DOMAIN Plan[o]
  /\ \A t \in DOMAIN tasks : tasks'[t] = tasks[t]
  /\ \A t \in DOMAIN Plan[o] : tasks'[t] \in Task /\ tasks'[t] = Planned(o, t)
  /\ UNCHANGED <<job, backlog, cursor, planning, queue, up, left, apart, unseen>>

LEMMA PlannedTask ==
  ASSUME NEW o \in Objectives, NEW t \in DOMAIN Plan[o]
  PROVE  /\ Planned(o, t) \in Task /\ Planned(o, t).state = "PLANNED"
         /\ Planned(o, t).deps = Plan[o][t].deps /\ Planned(o, t).deps \subseteq DOMAIN Plan[o]
<1>1. Plan[o][t] \in Contract(DOMAIN Plan[o]) /\ DOMAIN Plan[o] \subseteq Ids
  BY PlanAssumption
<1>2. /\ Plan[o][t].deps \subseteq DOMAIN Plan[o] /\ Plan[o][t].areas \in SUBSET Files
      /\ Plan[o][t].domains \in SUBSET Domains
  BY <1>1 DEF Contract
<1>3. Plan[o][t].deps \in SUBSET Ids
  BY <1>1, <1>2
<1> QED BY <1>2, <1>3 DEF Planned, Task, States

LEMMA PlanAcceptedPlans ==
  ASSUME Types, PlanAccepted
  PROVE  Types' /\ Plans(planning)
<1> DEFINE o == planning
           P == DOMAIN Plan[planning]
<1>1. o \in DOMAIN objectives /\ o \in Objectives /\ ~objectives[o].planned /\ objectives[o] \in Objective
  BY DEF PlanAccepted, Types, PlanningOK
<1>2. P \intersect DOMAIN tasks = {}
  BY <1>1 DEF Types, PlansOK
<1>3. /\ tasks' = [t \in DOMAIN tasks \union P |-> IF t \in P THEN Planned(o, t) ELSE tasks[t]]
      /\ objectives' = [objectives EXCEPT ![o].planned = TRUE]
      /\ UNCHANGED <<job, backlog, cursor, planning, queue, up, left, apart, unseen>>
  BY DEF PlanAccepted
<1>4. P \subseteq Ids /\ IsFiniteSet(P)
  BY <1>1, FiniteIds, FS_Subset, PlanAssumption
<1>5. \A t \in P : /\ Planned(o, t) \in Task /\ Planned(o, t).state = "PLANNED"
                   /\ Planned(o, t).deps \subseteq P
  BY <1>1, PlannedTask
<1> HIDE DEF o, P
<1>6. /\ DOMAIN tasks' = DOMAIN tasks \union P
      /\ \A t \in DOMAIN tasks : tasks'[t] = tasks[t]
      /\ \A t \in P : tasks'[t] = Planned(o, t)
  BY <1>2, <1>3
<1>7. Plans(o)
  BY <1>1, <1>2, <1>3, <1>5, <1>6 DEF Plans, P, o
<1>8. TasksOK(tasks')
  <2>1. tasks' \in [DOMAIN tasks' -> Task]
    BY <1>3, <1>5, <1>6 DEF Types, TasksOK
  <2>2. IsFiniteSet(DOMAIN tasks')
    <3>1. IsFiniteSet(DOMAIN tasks)
      BY DEF Types, TasksOK, Linked
    <3>2. IsFiniteSet(DOMAIN tasks \union P)
      BY <1>4, <3>1, FS_Union
    <3> QED BY <1>6, <3>2
  <2>3. Linked(tasks')
    BY <1>5, <1>6, <2>2 DEF Types, TasksOK, Linked
  <2>4. DOMAIN tasks' \subseteq Ids
    BY <1>4, <1>6 DEF Types, TasksOK
  <2> QED BY <1>5, <1>6, <2>1, <2>3, <2>4 DEF Types, TasksOK
<1>9. JobsOK'
  <2>1. \A t \in Ids : job[t] # "none" => up /\ t \in DOMAIN tasks /\ Fits(job[t], tasks[t].state)
    BY DEF Types, JobsOK, Active
  <2>2. \A t \in DOMAIN tasks : tasks[t].state = "RUNNING" /\ up => job[t] = "write"
    BY DEF Types, JobsOK
  <2>3. \A t \in DOMAIN tasks' : tasks'[t].state = "RUNNING" /\ up => job[t] = "write"
    BY <1>5, <1>6, <2>2
  <2>4. \A t \in Ids : job[t] # "none" => up /\ t \in DOMAIN tasks' /\ Fits(job[t], tasks'[t].state)
    BY <1>6, <2>1
  <2> QED BY <1>3, <2>3, <2>4 DEF JobsOK, Active, Types
<1>10. PICK q : q = [objectives[o] EXCEPT !.planned = TRUE]
  OBVIOUS
<1>11. q \in Objective /\ q.planned
  BY <1>1, <1>10 DEF Objective
<1>12. objectives' = [objectives EXCEPT ![o] = q]
  BY <1>1, <1>3, <1>10
<1>13. /\ DOMAIN objectives' = DOMAIN objectives /\ objectives' \in [DOMAIN objectives' -> Objective]
       /\ objectives'[o].planned
       /\ \A p \in DOMAIN objectives : objectives[p].planned => objectives'[p].planned
  BY <1>1, <1>11, <1>12 DEF Types, PlanningOK
<1>14. PlanningOK'
  BY <1>3, <1>13 DEF Types, PlanningOK
<1>15. PlansOK'
  <2> SUFFICES ASSUME NEW t \in DOMAIN tasks', NEW p \in Objectives, t \in DOMAIN Plan[p]
               PROVE  p \in DOMAIN objectives' /\ objectives'[p].planned
    BY DEF PlansOK
  <2>1. CASE t \in DOMAIN tasks
    BY <1>13, <2>1 DEF Types, PlansOK
  <2>2. CASE t \in P
    <3>1. p = o
      BY <1>1, <2>2, PlanAssumption DEF P, o
    <3> QED BY <1>1, <1>13, <3>1
  <2> QED BY <1>6, <2>1, <2>2
<1> QED BY <1>3, <1>7, <1>8, <1>9, <1>14, <1>15 DEF Types, o

-----------------------------------------------------------------------------
(* The offline operations. *)

(* A replan: its originals are replaced by r.id. *)
Replaces(r) ==
  /\ r \in Replans /\ ~up /\ up' = up
  /\ r.originals \subseteq DOMAIN tasks /\ r.id \notin DOMAIN tasks
  /\ \A o \in r.originals : tasks[o].state \in Unfinished
  /\ DOMAIN tasks' = DOMAIN tasks \union {r.id} /\ tasks' \in [DOMAIN tasks' -> Task]
  /\ tasks'[r.id].state = "READY"
  /\ tasks'[r.id].deps = r.deps \union ((UNION {tasks[o].deps : o \in r.originals}) \ r.originals)
  /\ r.deps \subseteq DOMAIN tasks \ r.originals
  /\ \A o \in r.originals :
       /\ tasks'[o].state = "SUPERSEDED" /\ tasks'[o].by = r.id
       /\ tasks'[o].deps = tasks[o].deps /\ tasks'[o].domains = tasks[o].domains
  /\ \A t \in DOMAIN tasks \ r.originals : tasks'[t] = tasks[t]
  /\ ~Cyclic(ReplanEdges(tasks'))
  /\ \A t \in DOMAIN tasks \ r.originals :
       tasks[t].state \notin Finished /\ Overlap(AsSpelled(tasks, r.originals, r), tasks[t]) =>
         Serialized(WaitEdges(tasks'), r.id, t)
  /\ apart' \ unseen' \subseteq (apart \ unseen) \union
       Overlaps(AsSpelled(tasks, r.originals, r), r.id, Pending \ r.originals)
  /\ UNCHANGED <<job, objectives, backlog, cursor, planning, queue>>

LEMMA NewTask ==
  ASSUME NEW obj \in Objectives, NEW deps \in SUBSET Ids, NEW areas \in SUBSET Files,
         NEW domains \in SUBSET Domains, NEW n,
         n = [state |-> "READY", obj |-> obj, deps |-> deps, areas |-> areas,
              domains |-> domains, kind |-> "known", head |-> TRUE, pr |-> FALSE,
              pre |-> "none", work |-> 0, open |-> FALSE, by |-> "", resume |-> ""]
  PROVE  n \in Task /\ n.state = "READY" /\ n.deps = deps
BY DEF Task, States

LEMMA ReplacementTask ==
  ASSUME Types, NEW r \in Replans, r.originals \subseteq DOMAIN tasks,
         NEW n, n = Replacement(tasks, r.originals, r)
  PROVE  /\ n \in Task /\ n.state = "READY"
         /\ n.deps = r.deps \union ((UNION {tasks[o].deps : o \in r.originals}) \ r.originals)
<1>1. /\ r.originals # {} /\ r.deps \subseteq Ids /\ r.areas \subseteq Files /\ r.domains \subseteq Domains
  BY RequestAssumption
<1>2. \A o \in r.originals : /\ tasks[o] \in Task /\ tasks[o].deps \in SUBSET Ids
                             /\ tasks[o].areas \in SUBSET Files /\ tasks[o].obj \in Objectives
  BY DEF Types, TasksOK, Task
<1>3. PICK obj \in Objectives : obj = tasks[CHOOSE o \in r.originals : TRUE].obj
  BY <1>1, <1>2
<1>4. PICK deps : deps = r.deps \union ((UNION {tasks[o].deps : o \in r.originals}) \ r.originals)
  OBVIOUS
<1>5. deps \in SUBSET Ids
  BY <1>1, <1>2, <1>4
<1>6. PICK areas : areas = r.areas \union
                     UNION {tasks[o].areas : o \in {p \in r.originals : ImmutableAreas(tasks[p])}}
  OBVIOUS
<1>7. areas \in SUBSET Files
  BY <1>1, <1>2, <1>6
<1>d. PICK domains \in SUBSET Domains : domains = r.domains
  BY <1>1
<1>8. n = [state |-> "READY", obj |-> obj, deps |-> deps, areas |-> areas,
           domains |-> domains, kind |-> "known", head |-> TRUE, pr |-> FALSE,
           pre |-> "none", work |-> 0, open |-> FALSE, by |-> "", resume |-> ""]
  BY <1>d, <1>3, <1>4, <1>6 DEF Replacement, TransferredAreas
<1>9. n \in Task /\ n.state = "READY" /\ n.deps = deps
  BY ONLY <1>3, <1>5, <1>7, <1>8, NewTask
<1> QED BY <1>4, <1>9

LEMMA ReplanReplaces ==
  ASSUME Types, NEW r \in Replans, Replan(r)
  PROVE  Replaces(r)
<1>1. /\ ~up /\ up' = up /\ r.originals \subseteq DOMAIN tasks
      /\ ReplanAccepted(tasks, r.originals, r.id, r)
      /\ UNCHANGED <<job, objectives, backlog, cursor, planning, queue>>
  BY DEF Replan
<1>a. apart' \ unseen' \subseteq (apart \ unseen) \union
        Overlaps(AsSpelled(tasks, r.originals, r), r.id, Pending \ r.originals)
  <2>1. PICK there, seen : /\ seen = Overlaps(AsSpelled(tasks, r.originals, r), r.id, Pending \ r.originals)
                           /\ apart' = apart \union there /\ unseen' = unseen \union (there \ seen)
    BY DEF Replan
  <2> QED BY <2>1
<1>2. PICK n : n = Replacement(tasks, r.originals, r)
  OBVIOUS
<1>3. tasks' = Replaced(tasks, r.originals, r.id, n)
  BY <1>2 DEF Replan
<1>4. /\ r.id \notin DOMAIN tasks /\ \A o \in r.originals : Replannable(tasks[o])
      /\ r.deps \subseteq DOMAIN tasks \ r.originals
      /\ ~Cyclic(ReplanEdges(tasks'))
      /\ \A t \in DOMAIN tasks \ r.originals :
           tasks[t].state \notin Finished =>
             (Overlap(AsSpelled(tasks, r.originals, r), tasks[t]) =>
                Serialized(WaitEdges(tasks'), r.id, t))
  BY <1>1, <1>2, <1>3 DEF ReplanAccepted
<1>5. /\ n \in Task /\ n.state = "READY"
      /\ n.deps = r.deps \union ((UNION {tasks[o].deps : o \in r.originals}) \ r.originals)
  BY <1>1, <1>2, ReplacementTask
<1>6. /\ DOMAIN tasks' = DOMAIN tasks \union {r.id} /\ tasks'[r.id] = n
      /\ \A o \in r.originals : tasks'[o] = [tasks[o] EXCEPT !.state = "SUPERSEDED", !.by = r.id]
      /\ \A t \in DOMAIN tasks \ r.originals : tasks'[t] = tasks[t]
  BY <1>1, <1>3, <1>4 DEF Replaced
<1>7. ASSUME NEW o \in r.originals
      PROVE  /\ tasks[o].state \in Unfinished
             /\ tasks'[o] \in Task /\ tasks'[o].state = "SUPERSEDED" /\ tasks'[o].by = r.id
             /\ tasks'[o].deps = tasks[o].deps /\ tasks'[o].domains = tasks[o].domains
  <2>1. tasks[o] \in Task
    BY <1>1 DEF Types, TasksOK
  <2>2. tasks[o].state \in Unfinished
    BY <1>4, <2>1 DEF Replannable, Finished, Unfinished, Task
  <2>3. r.id \in Ids
    BY RequestAssumption
  <2>4. PICK q : q = [tasks[o] EXCEPT !.state = "SUPERSEDED", !.by = r.id]
    OBVIOUS
  <2>5. /\ q \in Task /\ q.state = "SUPERSEDED" /\ q.by = r.id
        /\ q.deps = tasks[o].deps /\ q.domains = tasks[o].domains
    BY <2>1, <2>3, <2>4 DEF Task, States
  <2> QED BY <1>6, <2>2, <2>4, <2>5
<1>8. tasks' \in [DOMAIN tasks' -> Task]
  <2>1. tasks' = [t \in DOMAIN tasks' |-> tasks'[t]]
    BY <1>3 DEF Replaced
  <2>2. \A t \in DOMAIN tasks' : tasks'[t] \in Task
    BY <1>5, <1>6, <1>7 DEF Types, TasksOK
  <2> QED BY <2>1, <2>2
<1> QED BY <1>1, <1>a, <1>4, <1>5, <1>6, <1>7, <1>8 DEF Replaces

LEMMA ReplacesTasks ==
  ASSUME Types, NEW r, Replaces(r)
  PROVE  TasksOK(tasks')
<1>1. /\ r.originals \subseteq DOMAIN tasks /\ r.id \in Ids
      /\ DOMAIN tasks' = DOMAIN tasks \union {r.id}
  BY RequestAssumption DEF Replaces
<1>2. \A t \in DOMAIN tasks : t \in Ids /\ tasks[t] \in Task /\ tasks[t].deps \subseteq DOMAIN tasks
  BY DEF Types, TasksOK, Linked
<1>3. tasks'[r.id].deps \subseteq DOMAIN tasks /\ tasks'[r.id].state = "READY"
  BY <1>1, <1>2 DEF Replaces
<1>r. \A o \in r.originals : /\ tasks'[o].state = "SUPERSEDED" /\ tasks'[o].by = r.id
                            /\ tasks'[o].deps = tasks[o].deps
  BY DEF Replaces
<1>t. \A t \in DOMAIN tasks \ r.originals : tasks'[t] = tasks[t]
  BY DEF Replaces
<1>4. ASSUME NEW t \in DOMAIN tasks'
      PROVE  /\ t \in Ids
             /\ tasks'[t].deps \subseteq DOMAIN tasks'
             /\ tasks'[t].state = "SUPERSEDED" => tasks'[t].by \in DOMAIN tasks'
             /\ tasks'[t].state = "BLOCKED_HUMAN" => tasks'[t].resume # ""
  <2>1. CASE t = r.id
    BY <1>1, <1>3, <2>1
  <2>2. CASE t \in r.originals
    BY <1>1, <1>2, <1>r, <2>2
  <2>3. CASE t \in DOMAIN tasks \ r.originals
    <3>1. tasks[t].state = "SUPERSEDED" => tasks[t].by \in DOMAIN tasks
      BY <2>3 DEF Types, TasksOK, Linked
    <3>2. tasks[t].state = "BLOCKED_HUMAN" => tasks[t].resume # ""
      BY <2>3 DEF Types, TasksOK
    <3> QED BY <1>1, <1>2, <1>t, <2>3, <3>1, <3>2
  <2> QED BY <1>1, <1>4, <2>1, <2>2, <2>3
<1>5. IsFiniteSet(DOMAIN tasks')
  <2>1. IsFiniteSet(DOMAIN tasks)
    BY DEF Types, TasksOK, Linked
  <2> QED BY <1>1, <2>1, FS_AddElement
<1> QED BY <1>4, <1>5 DEF TasksOK, Linked, Replaces


LEMMA ReplanTypes ==
  ASSUME Types, NEW r \in Replans, Replan(r)
  PROVE  Types' /\ Replaces(r)
<1>1. Replaces(r)
  BY ReplanReplaces
<1>2. TasksOK(tasks')
  BY <1>1, ReplacesTasks
<1>3. /\ ~up /\ up' = up /\ DOMAIN tasks' = DOMAIN tasks \union {r.id}
      /\ UNCHANGED <<job, objectives, backlog, cursor, planning, queue>>
  BY <1>1 DEF Replaces
<1>4. JobsOK'
  BY <1>3 DEF JobsOK, Active, Types
<1>5. PlansOK'
  <2>1. \A o \in Objectives : r.id \notin DOMAIN Plan[o]
    BY RequestAssumption
  <2> QED BY <1>3, <2>1 DEF PlansOK, Types
<1>6. PlanningOK'
  BY <1>3 DEF PlanningOK, Types
<1>7. "replan" \in Outside /\ Use("replan")
  BY DEF Replan, Outside
<1>8. left' \in [Outside -> Nat]
  BY <1>7, UseLeaves
<1> QED BY <1>1, <1>2, <1>3, <1>4, <1>5, <1>6, <1>8 DEF Types

(* A recovery: one task gets its areas, and waits for more. *)
Recovers(r) ==
  /\ r \in Recoveries /\ ~up /\ up' = up /\ Unreplaced
  /\ r.task \in DOMAIN tasks /\ tasks[r.task].state \in Unfinished
  /\ r.deps \subseteq DOMAIN tasks
  /\ tasks'[r.task] \in Task /\ tasks'[r.task].deps = tasks[r.task].deps \union r.deps
  /\ tasks'[r.task].state \in {"READY", "BLOCKED_HUMAN"}
  /\ tasks'[r.task].domains = tasks[r.task].domains
  /\ tasks' = [tasks EXCEPT ![r.task] = tasks'[r.task]]
  /\ ~Cyclic(DepEdges(tasks'))
  /\ \A t \in DOMAIN tasks \ {r.task} :
       tasks[t].state # "DONE" =>
         \/ r.areas \intersect tasks[t].areas = {}
         \/ Serialized(DepEdges(tasks'), r.task, t)
  /\ apart' \ unseen' \subseteq (apart \ unseen) \union
       {{r.task, t} : t \in {x \in Pending \ {r.task} : r.areas \intersect tasks[x].areas # {}}}
  /\ UNCHANGED <<job, objectives, backlog, cursor, planning, queue>>

LEMMA RecoverRecovers ==
  ASSUME Types, NEW r \in Recoveries, RecoverScope(r)
  PROVE  Recovers(r) /\ TasksOK(tasks')
<1>1. /\ ~up /\ up' = up /\ Unreplaced /\ r.task \in DOMAIN tasks
      /\ RecoveryAccepted(tasks, r.task, r.areas, r.deps)
      /\ UNCHANGED <<job, objectives, backlog, cursor, planning, queue>>
  BY DEF RecoverScope
<1>a. apart' \ unseen' \subseteq (apart \ unseen) \union
        {{r.task, t} : t \in {x \in Pending \ {r.task} : r.areas \intersect tasks[x].areas # {}}}
  <2>1. PICK there :
          /\ there = {{r.task, t} : t \in {x \in Pending \ {r.task} : r.areas \intersect tasks[x].areas # {}}}
          /\ apart' = apart \union there /\ unseen' = unseen \ there
    BY DEF RecoverScope
  <2> QED BY <2>1
<1> DEFINE q == tasks[r.task]
<1>2. PICK n : n = Recovered(q, r.areas, r.deps)
  OBVIOUS
<1>3. q \in Task /\ q.deps \subseteq DOMAIN tasks /\ (q.state = "BLOCKED_HUMAN" => q.resume # "")
  BY <1>1 DEF Types, TasksOK, Linked
<1>4. q.state \notin Finished /\ r.deps \subseteq DOMAIN tasks
  BY <1>1 DEF RecoveryAccepted
<1>5. r.deps \subseteq Ids /\ r.areas \subseteq Files
  BY RequestAssumption
<1>6. PICK state : state = IF q.state = "BLOCKED_HUMAN" THEN q.state ELSE "READY"
  OBVIOUS
<1>7. PICK deps : deps = q.deps \union r.deps
  OBVIOUS
<1>8. PICK areas \in SUBSET Files : areas = r.areas
  BY <1>5
<1>9. n = [q EXCEPT !.areas = areas, !.kind = "known", !.deps = deps, !.pre = "none", !.state = state]
  BY <1>2, <1>3, <1>6, <1>7, <1>8 DEF Recovered, Task
<1>10. deps \in SUBSET Ids /\ state \in {"READY", "BLOCKED_HUMAN"}
  BY <1>3, <1>5, <1>6, <1>7 DEF Task
<1> HIDE DEF q
<1>11. /\ n \in Task /\ n.deps = deps /\ n.state = state /\ n.domains = q.domains /\ n.resume = q.resume
  BY ONLY <1>3, <1>9, <1>10, <1>8 DEF Task, States
<1>12. tasks' = [tasks EXCEPT ![r.task] = n]
  BY <1>2 DEF RecoverScope, Set, q
<1>13. /\ DOMAIN tasks' = DOMAIN tasks /\ tasks' \in [DOMAIN tasks' -> Task]
       /\ tasks'[r.task] = n /\ \A u \in DOMAIN tasks \ {r.task} : tasks'[u] = tasks[u]
  BY <1>1, <1>11, <1>12, Updated DEF Types, TasksOK
<1>14. /\ ~Cyclic(DepEdges(tasks'))
       /\ \A t \in DOMAIN tasks \ {r.task} :
            tasks[t].state # "DONE" =>
              \/ r.areas \intersect tasks[t].areas = {}
              \/ Serialized(DepEdges(tasks'), r.task, t)
  <2>1. tasks' = [tasks EXCEPT ![r.task] = Recovered(@, r.areas, r.deps)]
    BY <1>1, <1>2, <1>12 DEF q
  <2> QED BY <1>1, <2>1 DEF RecoveryAccepted
<1>15. q.state \in Unfinished
  BY <1>3, <1>4 DEF Task, Unfinished, Finished
<1>16. Recovers(r)
  BY <1>1, <1>a, <1>4, <1>7, <1>10, <1>11, <1>12, <1>13, <1>14, <1>15 DEF Recovers, q
<1>17. Linked(tasks')
  <2>1. deps \subseteq DOMAIN tasks
    BY <1>3, <1>4, <1>7
  <2>2. Linked(tasks) /\ n.state # "SUPERSEDED"
    BY <1>10, <1>11 DEF Types, TasksOK
  <2> QED BY <1>1, <1>11, <1>13, <2>1, <2>2 DEF Linked
<1>18. \A t \in DOMAIN tasks' : tasks'[t].state = "BLOCKED_HUMAN" => tasks'[t].resume # ""
  <2>1. n.state = "BLOCKED_HUMAN" => n.resume # ""
    BY <1>3, <1>6, <1>11
  <2> QED BY <1>1, <1>13, <2>1 DEF Types, TasksOK
<1> QED BY <1>13, <1>16, <1>17, <1>18 DEF TasksOK, Types

LEMMA RecoverTypes ==
  ASSUME Types, NEW r \in Recoveries, RecoverScope(r)
  PROVE  Types' /\ Recovers(r)
<1>1. Recovers(r) /\ TasksOK(tasks')
  BY RecoverRecovers
<1>2. /\ ~up /\ up' = up /\ DOMAIN tasks' = DOMAIN tasks
      /\ UNCHANGED <<job, objectives, backlog, cursor, planning, queue>>
  BY <1>1 DEF Recovers
<1>3. JobsOK'
  BY <1>2 DEF JobsOK, Active, Types
<1>4. PlansOK' /\ PlanningOK'
  BY <1>2 DEF PlansOK, PlanningOK, Types
<1>5. "recover" \in Outside /\ Use("recover")
  BY DEF RecoverScope, Outside
<1>6. left' \in [Outside -> Nat]
  BY <1>5, UseLeaves
<1> QED BY <1>1, <1>2, <1>3, <1>4, <1>6 DEF Types

-----------------------------------------------------------------------------
(* Types. *)

LEMMA ListOfSet ==
  ASSUME NEW S, IsFiniteSet(S)
  PROVE  /\ SetToSeq(S) \in Seq(S) /\ IsInjective(SetToSeq(S)) /\ Range(SetToSeq(S)) = S
<1> DEFINE n == Cardinality(S)
           q == SetToSeq(S)
<1>1. n \in Nat /\ Bijection(1..n, S) # {}
  BY FS_CardinalityType DEF ExistsBijection
<1>2. \E f \in [1..n -> S] : IsInjective(f)
  BY <1>1 DEF Bijection, Injection
<1>3. q \in [1..n -> S] /\ IsInjective(q)
  BY <1>2 DEF SetToSeq
<1> HIDE DEF q
<1>4. q \in Injection(1..n, S)
  BY <1>3 DEF Injection
<1>5. Cardinality(1..n) = n
  BY <1>1, FS_Interval
<1>6. q \in Surjection(1..n, S)
  BY <1>4, <1>5, FS_Injection
<1>7. Range(q) = S
  BY <1>3, <1>6 DEF Surjection, Range
<1>8. q \in Seq(S)
  BY <1>1, <1>3
<1> QED BY <1>3, <1>7, <1>8 DEF q

LEMMA InitTypes == Init => Types
<1> SUFFICES ASSUME Init PROVE Types
  OBVIOUS
<1>1. PICK s \in Scenarios :
        /\ tasks = s.tasks /\ left = s.left
        /\ objectives = s.objectives /\ backlog = SetToSeq(DOMAIN s.objectives)
        /\ job = [t \in Ids |-> "none"]
        /\ cursor = 0 /\ planning = "" /\ queue = <<>> /\ up = FALSE
  BY DEF Init
<1>2. /\ DOMAIN s.tasks \subseteq Ids /\ s.tasks \in [DOMAIN s.tasks -> Task]
      /\ DOMAIN s.objectives \subseteq Objectives
      /\ s.objectives \in [DOMAIN s.objectives -> Objective]
      /\ s.left \in [Outside -> Nat] /\ Linked(s.tasks)
      /\ \A t \in DOMAIN s.tasks :
           /\ s.tasks[t].state = "BLOCKED_HUMAN" => s.tasks[t].resume # ""
           /\ \A o \in Objectives : t \in DOMAIN Plan[o] =>
                o \in DOMAIN s.objectives /\ s.objectives[o].planned
  BY ScenarioAssumption
<1>3. TasksOK(tasks)
  BY <1>1, <1>2 DEF TasksOK
<1>4. JobsOK
  BY <1>1 DEF JobsOK, Active, Jobs
<1>5. PlansOK
  BY <1>1, <1>2 DEF PlansOK
<1>6. PlanningOK
  <2>1. IsFiniteSet(DOMAIN objectives)
    BY <1>1, <1>2, FS_Subset, DispatchAssumption
  <2>2. backlog \in Seq(DOMAIN objectives) /\ IsInjective(backlog) /\ Range(backlog) = DOMAIN objectives
    BY <1>1, <2>1, ListOfSet
  <2>3. Len(backlog) \in Nat /\ backlog \in Seq(Objectives)
    <3>1. PICK D : D = DOMAIN objectives
      OBVIOUS
    <3>2. backlog \in Seq(D) /\ D \subseteq Objectives
      BY <1>1, <1>2, <2>2, <3>1
    <3> QED BY ONLY <3>2
  <2>4. cursor \in 0..Len(backlog)
    <3>1. cursor = 0
      BY <1>1
    <3> QED BY ONLY <2>3, <3>1
  <2> QED BY <1>1, <1>2, <2>2, <2>3, <2>4 DEF PlanningOK
<1> QED BY <1>1, <1>2, <1>3, <1>4, <1>5, <1>6 DEF Types

(* The kinds of steps that there are. *)
Step ==
  \/ \E t, r, kind : Moves(t, r, kind)
  \/ Start \/ Stop \/ Crash
  \/ PlanAccepted
  \/ Bystands
  \/ \E r \in Replans : Replan(r)
  \/ \E r \in Recoveries : RecoverScope(r)

LEMMA NextSteps ==
  ASSUME Types, Next
  PROVE  Step
<1>1. ASSUME Planner PROVE Step
  BY <1>1, PlanFailsBystands, ProvisionMoves, ProvisionedBystands DEF Planner, Step
<1>2. ASSUME Operator PROVE Step
  BY <1>2, RunBystands, AnswerObjectiveBystands, AnswerMoves DEF Operator, Step
<1> QED BY <1>1, <1>2, TaskStepMoves, DecideBystands DEF Next, Supervisor, Step

LEMMA StepTypes ==
  ASSUME Types, Step
  PROVE  Types'
BY MovesTypes, LifeTypes, PlanAcceptedPlans, BystandsTypes, ReplanTypes, RecoverTypes DEF Step

LEMMA TypesStay == Types /\ [Next]_vars => Types'
<1>1. ASSUME Types, Next PROVE Types'
  BY <1>1, NextSteps, StepTypes
<1>2. ASSUME Types, UNCHANGED vars PROVE Types'
  BY <1>2 DEF vars, Types, JobsOK, Active, PlansOK, PlanningOK
<1> QED BY <1>1, <1>2

LEMMA TypesGiven == Types => TypeOK
BY DEF Types, TypeOK, TasksOK, JobsOK, PlanningOK

(* A job that is active finds its task there, a task that is written while *)
(* a supervisor serves has its writer, and what waits for a person knows   *)
(* where an answer leads it (controller.go:549-565, capacity.go:276-294).  *)
THEOREM TypeCorrect == Spec => []TypeOK
<1>1. Spec => []Types
  BY InitTypes, TypesStay, PTL DEF Spec
<1> QED BY <1>1, TypesGiven, PTL

-----------------------------------------------------------------------------
(* Writers stay apart. *)

LEMMA SlotsType == MaxWriters \in Nat /\ 0 <= MaxWriters
<1>1. MaxWriters \in Nat \ {0}
  BY DispatchAssumption, Zenon
<1> QED BY ONLY <1>1

LEMMA WritersAre ==
  ASSUME Types
  PROVE  /\ up => Writers = {t \in DOMAIN tasks : tasks[t].state = "RUNNING"}
         /\ ~up => Writers = {}
         /\ Writers \subseteq DOMAIN tasks /\ IsFiniteSet(Writers)
<1>1. ~up => Writers = {}
  BY DEF Types, TasksOK, JobsOK, Active, Writers, Writing
<1>2. up => Writers = {t \in DOMAIN tasks : tasks[t].state = "RUNNING"}
  BY DEF Types, TasksOK, JobsOK, Writers, Writing
<1>3. Writers \subseteq DOMAIN tasks /\ IsFiniteSet(DOMAIN tasks)
  BY DEF Writers, Types, TasksOK, Linked
<1> QED BY <1>1, <1>2, <1>3, FS_Subset

(* Fewer writers of the same domains. *)
LEMMA WritersFewer ==
  ASSUME Types, Types', WritersApart, Writers' \subseteq Writers,
         \A t \in Writers' : tasks'[t].domains = tasks[t].domains
  PROVE  WritersApart'
<1>1. IsFiniteSet(Writers) /\ IsFiniteSet(Writers')
  BY WritersAre, FS_Subset
<1>2. /\ Cardinality(Writers) \in Nat /\ Cardinality(Writers') \in Nat
      /\ Cardinality(Writers') <= Cardinality(Writers)
  BY <1>1, FS_Subset, FS_CardinalityType
<1>3. Cardinality(Writers') <= MaxWriters
  <2>1. Cardinality(Writers) <= MaxWriters
    BY DEF WritersApart
  <2> QED BY ONLY <1>2, <2>1, SlotsType
<1>4. \A t, o \in Writers' : t # o => tasks'[t].domains \intersect tasks'[o].domains = {}
  BY DEF WritersApart
<1> QED BY <1>3, <1>4 DEF WritersApart

LEMMA WritersMove ==
  ASSUME Types, WritersApart, NEW t, NEW r, NEW kind, Moves(t, r, kind)
  PROVE  WritersApart'
<1>1. Types' /\ up /\ up' /\ t \in DOMAIN tasks /\ Becomes(t, r)
  BY MovesTypes DEF Moves
<1>2. /\ DOMAIN tasks' = DOMAIN tasks
      /\ tasks'[t] = r /\ \A u \in DOMAIN tasks \ {t} : tasks'[u] = tasks[u]
  BY <1>1, Updated DEF Types, TasksOK, Moves, Becomes
<1>3. Writers = {u \in DOMAIN tasks : tasks[u].state = "RUNNING"}
  BY <1>1, WritersAre
<1>4. Writers' = {u \in DOMAIN tasks' : tasks'[u].state = "RUNNING"}
  <2>1. Types' => (up' => Writers' = {u \in DOMAIN tasks' : tasks'[u].state = "RUNNING"})
    BY DEF Types, TasksOK, JobsOK, Writers, Writing
  <2> QED BY <1>1, <2>1
<1>5. \A u \in DOMAIN tasks : tasks'[u].domains = tasks[u].domains
  BY <1>1, <1>2 DEF Becomes
<1>6. CASE r.state # "RUNNING" \/ tasks[t].state = "RUNNING"
  <2>1. Writers' \subseteq Writers
    BY <1>2, <1>3, <1>4, <1>6
  <2>2. \A u \in Writers' : tasks'[u].domains = tasks[u].domains
    BY <1>3, <1>5, <2>1
  <2> QED BY <1>1, <2>1, <2>2, WritersFewer
<1>7. CASE r.state = "RUNNING" /\ tasks[t].state # "RUNNING"
  <2>1. Admissible(t, Writers)
    BY <1>1, <1>7 DEF Becomes
  <2>2. Writers' = Writers \union {t} /\ t \notin Writers
    BY <1>1, <1>2, <1>3, <1>4, <1>7
  <2>3. Cardinality(Writers) < MaxWriters /\ ~Conflict(t, Writers)
    BY <2>1 DEF Admissible
  <2>4. IsFiniteSet(Writers) /\ Cardinality(Writers) \in Nat
    BY WritersAre, FS_CardinalityType
  <2>5. Cardinality(Writers') = Cardinality(Writers) + 1
    BY <2>2, <2>4, FS_AddElement
  <2>6. Cardinality(Writers') <= MaxWriters
    BY ONLY <2>3, <2>4, <2>5, SlotsType
  <2>7. \A o \in Writers : tasks[o].domains \intersect tasks[t].domains = {}
    BY <2>3 DEF Conflict
  <2>8. \A u, o \in Writers' : u # o => tasks'[u].domains \intersect tasks'[o].domains = {}
    <3> SUFFICES ASSUME NEW u \in Writers', NEW o \in Writers', u # o
                 PROVE  tasks'[u].domains \intersect tasks'[o].domains = {}
      OBVIOUS
    <3>1. tasks'[u].domains = tasks[u].domains /\ tasks'[o].domains = tasks[o].domains
      BY <1>1, <1>3, <1>5, <2>2
    <3>2. CASE u \in Writers /\ o \in Writers
      BY <3>1, <3>2 DEF WritersApart
    <3>3. CASE u = t
      BY <2>2, <2>7, <3>1, <3>3
    <3>4. CASE o = t
      BY <2>2, <2>7, <3>1, <3>4
    <3> QED BY <2>2, <3>2, <3>3, <3>4
  <2> QED BY <2>6, <2>8 DEF WritersApart
<1> QED BY <1>6, <1>7

LEMMA WritersStay ==
  ASSUME Types, WritersApart, [Next]_vars
  PROVE  WritersApart'
<1>0. Types'
  BY TypesStay
<1>1. CASE UNCHANGED vars
  BY <1>1 DEF vars, WritersApart, Writers, Writing
<1>2. CASE Next
  <2>1. CASE \E t, r, kind : Moves(t, r, kind)
    BY <2>1, WritersMove
  <2>2. ASSUME Writers' = {} PROVE WritersApart'
    BY <1>0, <2>2, WritersFewer
  <2>3. ASSUME UNCHANGED <<job, up>>, NEW S, S = DOMAIN tasks, S \subseteq DOMAIN tasks',
               \A t \in S : tasks'[t] = tasks[t],
               \A t \in DOMAIN tasks' \ S : tasks'[t].state # "RUNNING"
        PROVE  WritersApart'
    <3>1. Writers' = Writers /\ Writers \subseteq S
      BY <2>3 DEF Writers, Writing
    <3> QED BY <1>0, <2>3, <3>1, WritersFewer
  <2>4. CASE Start
    <3>1. \A t \in DOMAIN tasks : tasks'[t].state # "RUNNING"
      BY <2>4, StartRestates
    <3>2. DOMAIN tasks' = DOMAIN tasks
      BY <2>4 DEF Start
    <3> QED BY <2>2, <3>1, <3>2 DEF Writers, Writing
  <2>5. CASE ~up'
    <3>1. Writers' = {}
      BY <1>0, <2>5 DEF Types, TasksOK, JobsOK, Active, Writers, Writing
    <3> QED BY <2>2, <3>1
  <2>6. CASE Stop \/ Crash \/ (\E r \in Replans : Replan(r)) \/ (\E r \in Recoveries : RecoverScope(r))
    BY <2>5, <2>6 DEF Stop, Crash, Ended, Replan, RecoverScope
  <2>7. CASE Bystands
    BY <2>3, <2>7 DEF Bystands
  <2>8. CASE PlanAccepted
    <3>1. Plans(planning)
      BY <2>8, PlanAcceptedPlans
    <3>2. \A t \in DOMAIN Plan[planning] : tasks'[t].state # "RUNNING"
      BY <3>1, PlannedTask DEF Plans
    <3> QED BY <2>3, <3>1, <3>2 DEF Plans
  <2>9. Step
    BY <1>2, NextSteps
  <2> QED BY <2>1, <2>4, <2>6, <2>7, <2>8, <2>9 DEF Step
<1> QED BY <1>1, <1>2

(* Writers never exceed their slots, and no two of them share a conflict   *)
(* domain, whatever a tick's list holds and whatever ends, fails or goes   *)
(* out of date between the list and the admission: the check at admission  *)
(* is enough (controller.go:549-565, preflight.go:806-829).                *)
THEOREM WritersAlwaysApart == Spec => []WritersApart
<1>1. Init => WritersApart
  <2> SUFFICES ASSUME Init PROVE WritersApart
    OBVIOUS
  <2>1. Types /\ ~up
    BY InitTypes DEF Init
  <2>2. Writers = {} /\ Cardinality(Writers) = 0
    BY <2>1, WritersAre, FS_EmptySet
  <2>3. Cardinality(Writers) <= MaxWriters
    BY ONLY <2>2, SlotsType
  <2> QED BY <2>2, <2>3 DEF WritersApart
<1>2. Spec => []Types
  BY InitTypes, TypesStay, PTL DEF Spec
<1>3. Types /\ WritersApart /\ [Next]_vars => WritersApart'
  BY WritersStay
<1> QED BY <1>1, <1>2, <1>3, PTL DEF Spec

-----------------------------------------------------------------------------
(* A task lands after all that it waits for. *)

(* What is written, merged or done after a step could be so before.        *)
Goes ==
  /\ Later(tasks, tasks')
  /\ \A t \in DOMAIN tasks' : tasks'[t].state \in Begun =>
       /\ t \in DOMAIN tasks /\ tasks'[t].deps = tasks[t].deps
       /\ tasks[t].state \in Begun \/ DependenciesComplete(tasks, t)

(* What tasks wait for only grows, and only a replan replaces any. *)
Grows ==
  /\ \A t \in DOMAIN tasks : tasks[t].deps \subseteq tasks'[t].deps
  /\ \A t \in DOMAIN tasks' : tasks'[t].state = "SUPERSEDED" =>
       t \in DOMAIN tasks /\ tasks[t].state = "SUPERSEDED" /\ tasks'[t].deps = tasks[t].deps

LEMMA MovesOn ==
  ASSUME Types, NEW t, NEW r, NEW kind, Moves(t, r, kind)
  PROVE  Goes /\ Grows
<1>1. t \in DOMAIN tasks /\ Becomes(t, r)
  BY DEF Moves
<1>2. /\ DOMAIN tasks' = DOMAIN tasks
      /\ tasks'[t] = r /\ \A u \in DOMAIN tasks \ {t} : tasks'[u] = tasks[u]
  BY <1>1, Updated DEF Types, TasksOK, Moves, Becomes
<1>3. tasks[t].state # "DONE" /\ tasks[t].state # "SUPERSEDED"
  BY <1>1 DEF Becomes, Unfinished
<1>4. Later(tasks, tasks')
  BY <1>2, <1>3 DEF Later
<1>5. ASSUME r.state \in Begun
      PROVE  r.deps = tasks[t].deps /\ (tasks[t].state \in Begun \/ DependenciesComplete(tasks, t))
  BY <1>1, <1>5 DEF Becomes
<1>6. Goes
  <2> SUFFICES ASSUME NEW u \in DOMAIN tasks', tasks'[u].state \in Begun
               PROVE  /\ u \in DOMAIN tasks /\ tasks'[u].deps = tasks[u].deps
                      /\ tasks[u].state \in Begun \/ DependenciesComplete(tasks, u)
    BY <1>4 DEF Goes
  <2>1. CASE u = t
    BY <1>1, <1>2, <1>5, <2>1
  <2>2. CASE u # t
    BY <1>2, <2>2
  <2> QED BY <2>1, <2>2
<1>7. tasks[t].deps \subseteq r.deps /\ r.state # "SUPERSEDED"
  BY <1>1 DEF Becomes, Routed
<1>8. Grows
  BY <1>1, <1>2, <1>7 DEF Grows
<1> QED BY <1>6, <1>8

LEMMA LifeOn ==
  ASSUME Types, Start \/ Stop \/ Crash
  PROVE  Goes /\ Grows
<1>1. Restates(tasks, tasks')
  BY LifeTypes
<1>2. DOMAIN tasks' = DOMAIN tasks
  BY <1>1 DEF Restates
<1>3. \A t \in DOMAIN tasks :
        /\ tasks'[t].deps = tasks[t].deps /\ tasks'[t].by = tasks[t].by
        /\ tasks'[t].state = "SUPERSEDED" <=> tasks[t].state = "SUPERSEDED"
        /\ tasks[t].state = "DONE" => tasks'[t].state = "DONE"
        /\ tasks'[t].state \in Begun => tasks[t].state \in Begun
  BY <1>1 DEF Restates
<1>4. Later(tasks, tasks')
  BY <1>2, <1>3 DEF Later
<1> QED BY <1>2, <1>3, <1>4 DEF Goes, Grows

LEMMA PlansOn ==
  ASSUME Types, NEW o, Plans(o)
  PROVE  Goes /\ Grows
<1>1. /\ DOMAIN tasks' = DOMAIN tasks \union DOMAIN Plan[o]
      /\ \A t \in DOMAIN tasks : tasks'[t] = tasks[t]
      /\ \A t \in DOMAIN Plan[o] : tasks'[t].state = "PLANNED"
  BY PlannedTask DEF Plans
<1>2. Later(tasks, tasks')
  BY <1>1 DEF Later
<1> QED BY <1>1, <1>2 DEF Goes, Grows, Begun

LEMMA ReplanOn ==
  ASSUME Types, NEW r, Replaces(r)
  PROVE  Goes
<1>1. /\ DOMAIN tasks' = DOMAIN tasks \union {r.id} /\ r.originals \subseteq DOMAIN tasks
      /\ \A t \in DOMAIN tasks \ r.originals : tasks'[t] = tasks[t]
      /\ \A o \in r.originals : tasks'[o].state = "SUPERSEDED" /\ tasks[o].state \in Unfinished
      /\ tasks'[r.id].state = "READY"
  BY DEF Replaces
<1>2. Later(tasks, tasks')
  BY <1>1 DEF Later, Unfinished
<1>3. ASSUME NEW t \in DOMAIN tasks', tasks'[t].state \in Begun
      PROVE  t \in DOMAIN tasks /\ tasks'[t] = tasks[t]
  BY <1>1, <1>3 DEF Begun
<1> QED BY <1>2, <1>3 DEF Goes

LEMMA RecoverOn ==
  ASSUME Types, NEW r, Recovers(r)
  PROVE  Goes /\ Grows
<1> DEFINE t == r.task
<1>1. /\ t \in DOMAIN tasks /\ tasks[t].state \in Unfinished
      /\ tasks'[t].state \in {"READY", "BLOCKED_HUMAN"} /\ tasks[t].deps \subseteq tasks'[t].deps
      /\ tasks' = [tasks EXCEPT ![t] = tasks'[t]]
  BY DEF Recovers
<1> HIDE DEF t
<1>2. DOMAIN tasks' = DOMAIN tasks /\ \A u \in DOMAIN tasks \ {t} : tasks'[u] = tasks[u]
  BY <1>1 DEF Types, TasksOK
<1>3. Later(tasks, tasks')
  BY <1>1, <1>2 DEF Later, Unfinished
<1>4. \A u \in DOMAIN tasks' : tasks'[u].state \in Begun \/ tasks'[u].state = "SUPERSEDED" => u # t
  BY <1>1 DEF Begun
<1>5. Goes
  BY <1>2, <1>3, <1>4 DEF Goes
<1>6. Grows
  BY <1>1, <1>2, <1>4 DEF Grows
<1> QED BY <1>5, <1>6

LEMMA StepGoes ==
  ASSUME Types, Step
  PROVE  Goes /\ (Grows \/ \E r \in Replans : Replaces(r))
<1>1. CASE Bystands
  BY <1>1 DEF Bystands, Goes, Grows, Later
<1>2. CASE \E t, r, kind : Moves(t, r, kind)
  BY <1>2, MovesOn
<1>3. CASE Start \/ Stop \/ Crash
  BY <1>3, LifeOn
<1>4. CASE PlanAccepted
  BY <1>4, PlanAcceptedPlans, PlansOn
<1>5. CASE \E r \in Replans : Replan(r)
  BY <1>5, ReplanTypes, ReplanOn
<1>6. CASE \E r \in Recoveries : RecoverScope(r)
  BY <1>6, RecoverTypes, RecoverOn
<1> QED BY <1>1, <1>2, <1>3, <1>4, <1>5, <1>6 DEF Step

LEMMA GroundedStays ==
  ASSUME Types, Types', Grounded(tasks), Goes
  PROVE  Grounded(tasks')
<1>1. Linked(tasks) /\ Linked(tasks') /\ Later(tasks, tasks')
  BY DEF Types, TasksOK, Goes
<1> SUFFICES ASSUME NEW t \in DOMAIN tasks', tasks'[t].state \in Begun, NEW d \in tasks'[t].deps
             PROVE  DependencyDone(tasks', d)
  BY DEF Grounded, Begun, DependenciesComplete
<1>2. t \in DOMAIN tasks /\ tasks'[t].deps = tasks[t].deps
  BY DEF Goes
<1>3. DependenciesComplete(tasks, t)
  BY <1>2 DEF Goes, Grounded, Begun
<1>4. d \in DOMAIN tasks /\ DependencyDone(tasks, d)
  BY <1>1, <1>2, <1>3 DEF Linked, DependenciesComplete
<1> QED BY <1>1, <1>4, DoneStays

LEMMA TransferredStays ==
  ASSUME Types, Transferred(tasks), Goes, Grows \/ \E r \in Replans : Replaces(r)
  PROVE  Transferred(tasks')
<1>0. Linked(tasks) /\ Later(tasks, tasks')
  BY DEF Types, TasksOK, Goes
<1>1. CASE Grows
  <2> SUFFICES ASSUME NEW t \in DOMAIN tasks', tasks'[t].state = "SUPERSEDED", NEW d \in tasks'[t].deps
               PROVE  \/ d \in tasks'[tasks'[t].by].deps
                      \/ tasks'[d].state = "SUPERSEDED" /\ tasks'[d].by = tasks'[t].by
    BY DEF Transferred
  <2>1. t \in DOMAIN tasks /\ tasks[t].state = "SUPERSEDED" /\ tasks'[t].deps = tasks[t].deps
    BY <1>1 DEF Grows
  <2>2. tasks'[t].by = tasks[t].by /\ tasks[t].by \in DOMAIN tasks /\ d \in DOMAIN tasks
    BY <1>0, <2>1 DEF Later, Linked
  <2>3. \/ d \in tasks[tasks[t].by].deps
        \/ tasks[d].state = "SUPERSEDED" /\ tasks[d].by = tasks[t].by
    BY <2>1 DEF Transferred
  <2>4. tasks[tasks[t].by].deps \subseteq tasks'[tasks[t].by].deps
    BY <1>1, <2>2 DEF Grows
  <2> QED BY <1>0, <2>2, <2>3, <2>4 DEF Later
<1>2. ASSUME NEW r, Replaces(r) PROVE Transferred(tasks')
  <2> SUFFICES ASSUME NEW t \in DOMAIN tasks', tasks'[t].state = "SUPERSEDED", NEW d \in tasks'[t].deps
               PROVE  \/ d \in tasks'[tasks'[t].by].deps
                      \/ tasks'[d].state = "SUPERSEDED" /\ tasks'[d].by = tasks'[t].by
    BY DEF Transferred
  <2>1. /\ DOMAIN tasks' = DOMAIN tasks \union {r.id} /\ r.originals \subseteq DOMAIN tasks
        /\ \A u \in DOMAIN tasks \ r.originals : tasks'[u] = tasks[u]
        /\ \A o \in r.originals : /\ tasks'[o].state = "SUPERSEDED" /\ tasks'[o].by = r.id
                                  /\ tasks'[o].deps = tasks[o].deps /\ tasks[o].state \in Unfinished
        /\ tasks'[r.id].state = "READY"
        /\ (UNION {tasks[o].deps : o \in r.originals}) \ r.originals \subseteq tasks'[r.id].deps
    BY <1>2 DEF Replaces
  <2>2. CASE t \in r.originals
    <3>1. d \in tasks[t].deps /\ tasks'[t].by = r.id
      BY <2>1, <2>2
    <3>2. CASE d \in r.originals
      BY <2>1, <3>1, <3>2
    <3>3. CASE d \notin r.originals
      <4>1. d \in (UNION {tasks[o].deps : o \in r.originals}) \ r.originals
        BY <2>2, <3>1, <3>3
      <4> QED BY <2>1, <3>1, <4>1
    <3> QED BY <3>2, <3>3
  <2>3. CASE t \notin r.originals
    <3>1. t \in DOMAIN tasks /\ tasks'[t] = tasks[t] /\ tasks[t].state = "SUPERSEDED"
      BY <2>1, <2>3
    <3> DEFINE b == tasks[t].by
    <3>2. b \in DOMAIN tasks /\ d \in DOMAIN tasks
      BY <1>0, <3>1 DEF Linked
    <3>3. tasks'[b].deps = tasks[b].deps
      BY <2>1, <3>2
    <3>4. \/ d \in tasks[b].deps
          \/ tasks[d].state = "SUPERSEDED" /\ tasks[d].by = b
      BY <3>1 DEF Transferred
    <3> QED BY <1>0, <3>1, <3>2, <3>3, <3>4 DEF Later
  <2> QED BY <2>2, <2>3
<1> QED BY <1>1, <1>2

Ground == Types /\ Grounded(tasks) /\ Transferred(tasks)

LEMMA InitGround == Init => Ground
BY InitTypes, ScenarioAssumption DEF Init, Ground

LEMMA GroundStays == Ground /\ [Next]_vars => Ground'
<1>1. ASSUME Ground, UNCHANGED vars PROVE Ground'
  <2>1. Types'
    BY <1>1, TypesStay DEF Ground
  <2>2. tasks' = tasks
    BY <1>1 DEF vars
  <2> QED BY <1>1, <2>1, <2>2 DEF Ground
<1>2. ASSUME Ground, Next PROVE Ground'
  <2>1. Types' /\ Step
    BY <1>2, TypesStay, NextSteps DEF Ground
  <2>2. Goes /\ (Grows \/ \E r \in Replans : Replaces(r))
    BY <1>2, <2>1, StepGoes DEF Ground
  <2> QED BY <1>2, <2>1, <2>2, GroundedStays, TransferredStays DEF Ground
<1> QED BY <1>1, <1>2

(* A task becomes DONE only when all that it waits for, however            *)
(* indirectly, has landed: its own dependencies, what a replacement of one *)
(* of them waits for, and what the replaced one waited for before; a task  *)
(* that was only replaced does not count (model.go:1300-1329).             *)
THEOREM DependenciesLandFirst == Spec => DependenciesFirst
<1> DEFINE Lands ==
      \A t \in DOMAIN tasks :
        tasks'[t].state = "DONE" /\ tasks[t].state # "DONE" =>
          \A d \in Beneath(t) : tasks[d].state \in Finished /\ DependencyDone(tasks, d)
<1>1. ASSUME Ground, Next PROVE Lands
  <2>0. Types /\ Linked(tasks) /\ Grounded(tasks) /\ Transferred(tasks)
    BY <1>1 DEF Ground, Types, TasksOK
  <2>1. Goes
    BY <1>1, <2>0, NextSteps, StepGoes
  <2> SUFFICES ASSUME NEW t \in DOMAIN tasks, tasks'[t].state = "DONE"
               PROVE  \A d \in Beneath(t) : tasks[d].state \in Finished /\ DependencyDone(tasks, d)
    OBVIOUS
  <2>2. t \in DOMAIN tasks' /\ tasks'[t].state \in Begun
    BY <2>1 DEF Goes, Later, Begun
  <2>3. DependenciesComplete(tasks, t)
    BY <2>0, <2>1, <2>2 DEF Goes, Grounded, Begun
  <2>4. tasks[t].deps \subseteq DOMAIN tasks
    BY <2>0 DEF Linked
  <2>5. tasks[t].deps \subseteq DoneTasks(tasks)
    BY <2>3, <2>4 DEF DependenciesComplete, DoneTasks
  <2>6. /\ IsGraph(ReplanEdges(tasks)) /\ DOMAIN ReplanEdges(tasks) = DOMAIN tasks
        /\ IsFiniteSet(DOMAIN tasks) /\ ClosedUnder(ReplanEdges(tasks), DoneTasks(tasks))
    BY <2>0, GraphsOf, DoneReplan
  <2>7. Beneath(t) \subseteq DoneTasks(tasks)
    BY <2>4, <2>5, <2>6, ClosureLeast DEF Beneath
  <2>8. \A d \in DoneTasks(tasks) : tasks[d].state \in Finished /\ DependencyDone(tasks, d)
    BY DEF DoneTasks, DependencyDone, Finished
  <2> QED BY <2>7, <2>8
<1>2. Ground /\ [Next]_vars => [Lands]_vars
  BY <1>1
<1>3. Spec => []Ground
  BY InitGround, GroundStays, PTL DEF Spec
<1>4. Spec => [][Lands]_vars
  BY <1>2, <1>3, PTL DEF Spec
<1> QED BY <1>4 DEF DependenciesFirst

-----------------------------------------------------------------------------
(* Nothing waits for itself. *)

LEMMA SameWaits ==
  ASSUME NEW s, NEW s2, DOMAIN s2 = DOMAIN s,
         \A t \in DOMAIN s :
           /\ s2[t].state = "SUPERSEDED" <=> s[t].state = "SUPERSEDED"
           /\ s[t].state = "SUPERSEDED" => s2[t].by = s[t].by
           /\ s[t].state # "SUPERSEDED" => s2[t].deps = s[t].deps
  PROVE  WaitEdges(s2) = WaitEdges(s)
BY DEF WaitEdges

LEMMA WaitsFinite ==
  ASSUME Types
  PROVE  Finite(WaitEdges(tasks)) /\ DOMAIN WaitEdges(tasks) = DOMAIN tasks
BY GraphsOf DEF Types, TasksOK, Finite

LEMMA WaitsFiniteNext ==
  ASSUME Types'
  PROVE  Finite(WaitEdges(tasks')) /\ DOMAIN WaitEdges(tasks') = DOMAIN tasks'
BY GraphsOf DEF Types, TasksOK, Finite

LEMMA LifeWaits ==
  ASSUME Types, Start \/ Stop \/ Crash
  PROVE  WaitEdges(tasks') = WaitEdges(tasks)
<1>1. Restates(tasks, tasks')
  BY LifeTypes
<1>2. \A t \in DOMAIN tasks :
        /\ tasks'[t].deps = tasks[t].deps /\ tasks'[t].by = tasks[t].by
        /\ tasks'[t].state = "SUPERSEDED" <=> tasks[t].state = "SUPERSEDED"
  BY <1>1 DEF Restates
<1> QED BY <1>1, <1>2, SameWaits DEF Restates

(* How a step of one task changes the edges. *)
LEMMA MoveWaits ==
  ASSUME Types, NEW t, NEW r, NEW kind, Moves(t, r, kind)
  PROVE  \/ WaitEdges(tasks') = WaitEdges(tasks)
         \/ /\ Routed(t, r.deps) /\ t \in DOMAIN tasks /\ tasks[t].state # "SUPERSEDED"
            /\ \A x \in DOMAIN tasks \ {t} : WaitEdges(tasks')[x] = WaitEdges(tasks)[x]
            /\ WaitEdges(tasks')[t] = r.deps
<1>1. t \in DOMAIN tasks /\ Becomes(t, r)
  BY DEF Moves
<1>2. /\ DOMAIN tasks' = DOMAIN tasks
      /\ tasks'[t] = r /\ \A u \in DOMAIN tasks \ {t} : tasks'[u] = tasks[u]
  BY <1>1, Updated DEF Types, TasksOK, Moves, Becomes
<1>3. r.state # "SUPERSEDED" /\ tasks[t].state # "SUPERSEDED"
  BY <1>1 DEF Becomes, Unfinished
<1>4. CASE r.deps = tasks[t].deps
  <2>1. \A u \in DOMAIN tasks :
          /\ tasks'[u].deps = tasks[u].deps
          /\ tasks'[u].state = "SUPERSEDED" <=> tasks[u].state = "SUPERSEDED"
          /\ tasks[u].state = "SUPERSEDED" => tasks'[u].by = tasks[u].by
    BY <1>1, <1>2, <1>3, <1>4
  <2> QED BY <1>2, <2>1, SameWaits
<1>5. CASE Routed(t, r.deps)
  <2>1. \A x \in DOMAIN tasks \ {t} : WaitEdges(tasks')[x] = WaitEdges(tasks)[x]
    BY <1>2 DEF WaitEdges
  <2>2. WaitEdges(tasks')[t] = r.deps
    BY <1>1, <1>2, <1>3 DEF WaitEdges
  <2> QED BY <1>1, <1>3, <1>5, <2>1, <2>2
<1> QED BY <1>1, <1>4, <1>5 DEF Becomes

LEMMA PlansWait ==
  ASSUME Types, NEW o, Plans(o)
  PROVE  /\ \A x \in DOMAIN tasks : WaitEdges(tasks')[x] = WaitEdges(tasks)[x]
         /\ \A x \in DOMAIN Plan[o] : WaitEdges(tasks')[x] = DepEdges(Plan[o])[x]
         /\ Finite(DepEdges(Plan[o])) /\ DOMAIN DepEdges(Plan[o]) = DOMAIN Plan[o]
         /\ ~Cyclic(DepEdges(Plan[o]))
<1>1. /\ o \in Objectives /\ DOMAIN tasks' = DOMAIN tasks \union DOMAIN Plan[o]
      /\ \A t \in DOMAIN tasks : tasks'[t] = tasks[t]
      /\ \A t \in DOMAIN Plan[o] : tasks'[t] = Planned(o, t)
  BY DEF Plans
<1>2. \A t \in DOMAIN Plan[o] : /\ Planned(o, t).state = "PLANNED" /\ Planned(o, t).deps = Plan[o][t].deps
                                /\ Plan[o][t].deps \subseteq DOMAIN Plan[o]
  BY <1>1, PlannedTask
<1>3. IsFiniteSet(DOMAIN Plan[o]) /\ ~Cyclic(DepEdges(Plan[o]))
  BY <1>1, FiniteIds, FS_Subset, PlanAssumption
<1>4. Finite(DepEdges(Plan[o])) /\ DOMAIN DepEdges(Plan[o]) = DOMAIN Plan[o]
  BY <1>2, <1>3 DEF DepEdges, Finite, IsGraph
<1>5. \A x \in DOMAIN tasks : WaitEdges(tasks')[x] = WaitEdges(tasks)[x]
  BY <1>1 DEF WaitEdges
<1>6. \A x \in DOMAIN Plan[o] : WaitEdges(tasks')[x] = DepEdges(Plan[o])[x]
  BY <1>1, <1>2 DEF WaitEdges, DepEdges
<1> QED BY <1>3, <1>4, <1>5, <1>6

LEMMA CirclesStay ==
  ASSUME ~AfterReplan, Types, NoCircularWait, Step
  PROVE  NoCircularWait'
<1> DEFINE E == WaitEdges(tasks)
           E2 == WaitEdges(tasks')
<1>0. Types'
  BY StepTypes
<1>1. /\ Finite(E) /\ Finite(E2) /\ DOMAIN E = DOMAIN tasks /\ DOMAIN E2 = DOMAIN tasks' /\ ~Cyclic(E)
  BY <1>0, WaitsFinite, WaitsFiniteNext DEF NoCircularWait
<1> SUFFICES ~Cyclic(E2)
  BY DEF NoCircularWait
<1>2. ASSUME E2 = E PROVE ~Cyclic(E2)
  BY <1>1, <1>2
<1>3. CASE \E t, r, kind : Moves(t, r, kind)
  <2>1. PICK t, r, kind : Moves(t, r, kind)
    BY <1>3
  <2>2. CASE E2 # E
    <3>1. /\ Routed(t, r.deps) /\ t \in DOMAIN E /\ tasks[t].state # "SUPERSEDED"
          /\ \A x \in DOMAIN E \ {t} : E2[x] = E[x]
          /\ E2[t] = r.deps
      BY <1>1, <2>1, <2>2, MoveWaits
    <3>2. PICK F \in SUBSET DOMAIN E :
            /\ r.deps = tasks[t].deps \union F
            /\ \A f \in F : t \notin Closure(DepEdges(tasks), {f})
      BY <1>1, <3>1 DEF Routed
    <3>3. E = DepEdges(tasks)
      BY <3>1, NoneReplaced DEF Routed, Unreplaced
    <3>4. E[t] = tasks[t].deps
      BY <1>1, <3>1, <3>3 DEF DepEdges
    <3>5. DOMAIN E2 = DOMAIN E
      BY <1>1, <2>1 DEF Moves, Types, TasksOK
    <3> HIDE DEF E, E2
    <3>6. E2[t] = E[t] \union F /\ \A f \in F : t \notin Closure(E, {f})
      BY <3>1, <3>2, <3>3, <3>4
    <3> QED BY <1>1, <3>1, <3>2, <3>5, <3>6, AcyclicAdded
  <2> QED BY <1>2, <2>2
<1>4. CASE Start \/ Stop \/ Crash
  BY <1>2, <1>4, LifeWaits
<1>5. CASE PlanAccepted
  <2>1. Plans(planning) /\ DOMAIN Plan[planning] \intersect DOMAIN tasks = {}
        /\ DOMAIN tasks' = DOMAIN tasks \union DOMAIN Plan[planning]
    BY <1>5, PlanAcceptedPlans DEF Plans
  <2> DEFINE P == DepEdges(Plan[planning])
  <2>2. /\ \A x \in DOMAIN E : E2[x] = E[x]
        /\ \A x \in DOMAIN P : E2[x] = P[x]
        /\ Finite(P) /\ DOMAIN P = DOMAIN Plan[planning] /\ ~Cyclic(P)
    BY <1>1, <2>1, PlansWait
  <2> HIDE DEF E, E2, P
  <2>3. DOMAIN E2 = DOMAIN E \union DOMAIN P /\ DOMAIN E \intersect DOMAIN P = {}
    BY <1>1, <2>1, <2>2
  <2> QED BY <1>1, <2>2, <2>3, AcyclicApart
<1>6. CASE Bystands
  BY <1>2, <1>6 DEF Bystands
<1>7. CASE \E r \in Replans : Replan(r)
  <2>1. PICK r \in Replans : Replaces(r)
    BY <1>7, ReplanTypes
  <2> DEFINE R == ReplanEdges(tasks')
  <2>2. ~Cyclic(R)
    BY <2>1 DEF Replaces
  <2>3. Finite(R) /\ DOMAIN R = DOMAIN E2
    BY <1>0, <1>1, GraphsOf DEF Types, TasksOK, Finite
  <2>4. \A x \in DOMAIN E2 : E2[x] \subseteq R[x]
    BY DEF WaitEdges, ReplanEdges, Successors
  <2> HIDE DEF E2, R
  <2> QED BY <1>1, <2>2, <2>3, <2>4, AcyclicFewer
<1>8. CASE \E r \in Recoveries : RecoverScope(r)
  <2>1. PICK r \in Recoveries : Recovers(r)
    BY <1>8, RecoverTypes
  <2>2. \A t \in DOMAIN tasks' : tasks'[t].state # "SUPERSEDED"
    <3>1. /\ \A t \in DOMAIN tasks : tasks[t].state # "SUPERSEDED"
      BY <2>1 DEF Recovers, Unreplaced
    <3>2. /\ r.task \in DOMAIN tasks /\ tasks'[r.task].state # "SUPERSEDED"
          /\ tasks' = [tasks EXCEPT ![r.task] = tasks'[r.task]]
      BY <2>1 DEF Recovers
    <3>3. DOMAIN tasks' = DOMAIN tasks /\ \A u \in DOMAIN tasks \ {r.task} : tasks'[u] = tasks[u]
      BY <3>2 DEF Types, TasksOK
    <3> QED BY <3>1, <3>2, <3>3
  <2>3. ~Cyclic(DepEdges(tasks'))
    BY <2>1 DEF Recovers
  <2> QED BY <2>2, <2>3, NoneReplaced
<1> QED BY <1>3, <1>4, <1>5, <1>6, <1>7, <1>8 DEF Step

(* No task ever waits for itself, not even through replacements, whatever  *)
(* plans, routes, replans and recoveries add, as long as no finding is     *)
(* routed and no scope recovered once a task has been replaced             *)
(* (model.go:1311, area_ownership.go, replan.go:510-525).                  *)
THEOREM NeverCircular ==
  ASSUME ~AfterReplan
  PROVE  Spec => []NoCircularWait
<1>1. Init => NoCircularWait
  BY ScenarioAssumption DEF Init, NoCircularWait
<1>2. Types /\ NoCircularWait /\ [Next]_vars => NoCircularWait'
  <2>1. ASSUME Types, NoCircularWait, Next PROVE NoCircularWait'
    BY <2>1, NextSteps, CirclesStay
  <2>2. ASSUME NoCircularWait, UNCHANGED vars PROVE NoCircularWait'
    BY <2>2 DEF vars, NoCircularWait
  <2> QED BY <2>1, <2>2
<1>3. Spec => []Types
  BY InitTypes, TypesStay, PTL DEF Spec
<1> QED BY <1>1, <1>2, <1>3, PTL DEF Spec

-----------------------------------------------------------------------------
(* Areas that overlap are not written at the same time. *)

(* Of the pairs found to overlap one task has finished or waits for the    *)
(* other.                                                                  *)
Ordered(a, b) ==
  \/ tasks[a].state \in Finished \/ tasks[b].state \in Finished
  \/ Serialized(WaitEdges(tasks), a, b)
Serial ==
  \A pair \in apart \ unseen : \E a, b \in DOMAIN tasks : pair = {a, b} /\ a # b /\ Ordered(a, b)

Chained == ~Cyclic(Successors(tasks))

Settled == Ground /\ Chained /\ Serial

LEMMA ChainedStays ==
  ASSUME Types, Types', Chained, Goes, Grows \/ \E r \in Replans : Replaces(r)
  PROVE  Chained'
<1> DEFINE E == Successors(tasks)
           E2 == Successors(tasks')
<1>1. /\ Finite(E) /\ Finite(E2) /\ DOMAIN E = DOMAIN tasks /\ DOMAIN E2 = DOMAIN tasks' /\ ~Cyclic(E)
  BY GraphsOf DEF Types, TasksOK, Finite, Chained
<1> SUFFICES ~Cyclic(E2)
  BY DEF Chained
<1>2. CASE Grows
  <2>1. DOMAIN tasks \subseteq DOMAIN tasks'
    BY DEF Goes, Later
  <2>2. \A x \in DOMAIN tasks : E2[x] = E[x]
    BY <1>2, <2>1 DEF Successors, Goes, Later, Grows
  <2>3. \A x \in DOMAIN tasks' \ DOMAIN tasks : E2[x] = {}
    BY <1>2 DEF Successors, Grows
  <2> HIDE DEF E, E2
  <2> QED BY <1>1, <2>1, <2>2, <2>3, AcyclicMore
<1>3. ASSUME NEW r, Replaces(r) PROVE ~Cyclic(E2)
  <2> DEFINE R == ReplanEdges(tasks')
  <2>1. ~Cyclic(R)
    BY <1>3 DEF Replaces
  <2>2. Finite(R) /\ DOMAIN R = DOMAIN E2
    BY <1>1, GraphsOf DEF Types, TasksOK, Finite
  <2>3. \A x \in DOMAIN E2 : E2[x] \subseteq R[x]
    BY <1>1 DEF ReplanEdges
  <2> HIDE DEF E2, R
  <2> QED BY <1>1, <2>1, <2>2, <2>3, AcyclicFewer
<1> QED BY <1>2, <1>3

LEMMA DependsGrows ==
  ASSUME Types, Types', Goes, Grows, NEW a \in DOMAIN tasks, NEW b \in DOMAIN tasks,
         DependsOn(WaitEdges(tasks), a, b)
  PROVE  DependsOn(WaitEdges(tasks'), a, b)
<1> DEFINE E == WaitEdges(tasks)
           E2 == WaitEdges(tasks')
<1>1. /\ Finite(E) /\ Finite(E2) /\ DOMAIN E = DOMAIN tasks /\ DOMAIN E2 = DOMAIN tasks'
  BY WaitsFinite, WaitsFiniteNext
<1>2. DOMAIN tasks \subseteq DOMAIN tasks'
  BY DEF Goes, Later
<1>3. ASSUME NEW x \in DOMAIN tasks PROVE E[x] \subseteq E2[x]
  <2>1. CASE tasks[x].state = "SUPERSEDED"
    BY <1>2, <2>1 DEF WaitEdges, Goes, Later
  <2>2. CASE tasks[x].state # "SUPERSEDED"
    BY <1>2, <2>2 DEF WaitEdges, Grows
  <2> QED BY <2>1, <2>2
<1>4. DependsOn(E, a, b)
  OBVIOUS
<1> HIDE DEF E, E2
<1>5. DependsOn(E2, a, b)
  BY <1>1, <1>2, <1>3, <1>4, DependsStays
<1> QED BY <1>5 DEF E2

LEMMA DependsReplan ==
  ASSUME Types, Types', NEW r, Replaces(r),
         NEW a \in DOMAIN tasks \ r.originals, NEW b \in DOMAIN tasks \ r.originals,
         DependsOn(WaitEdges(tasks), a, b)
  PROVE  DependsOn(WaitEdges(tasks'), a, b)
<1>1. Linked(tasks) /\ Linked(tasks')
  BY DEF Types, TasksOK
<1>2. /\ r.originals \in SUBSET DOMAIN tasks /\ r.id \notin DOMAIN tasks
      /\ \A o \in r.originals : tasks[o].state # "SUPERSEDED"
      /\ DOMAIN tasks' = DOMAIN tasks \union {r.id} /\ tasks'[r.id].state # "SUPERSEDED"
      /\ (UNION {tasks[o].deps : o \in r.originals}) \ r.originals \subseteq tasks'[r.id].deps
      /\ \A o \in r.originals : tasks'[o].state = "SUPERSEDED" /\ tasks'[o].by = r.id
      /\ \A t \in DOMAIN tasks \ r.originals : tasks'[t] = tasks[t]
  BY DEF Replaces, Unfinished
<1> QED BY <1>1, <1>2, DependsReplaced

(* A pair that was ordered stays so. *)
LEMMA OrderedStays ==
  ASSUME Types, Types', Goes, Grows \/ \E r \in Replans : Replaces(r),
         NEW a \in DOMAIN tasks, NEW b \in DOMAIN tasks, Ordered(a, b)
  PROVE  a \in DOMAIN tasks' /\ b \in DOMAIN tasks' /\ Ordered(a, b)'
<1>1. DOMAIN tasks \subseteq DOMAIN tasks'
  BY DEF Goes, Later
<1>2. \A t \in {a, b} : tasks[t].state \in Finished => tasks'[t].state \in Finished
  BY DEF Goes, Later, Finished
<1>3. CASE tasks[a].state \in Finished \/ tasks[b].state \in Finished
  BY <1>1, <1>2, <1>3 DEF Ordered
<1>4. CASE Serialized(WaitEdges(tasks), a, b)
  <2>1. CASE Grows
    BY <1>1, <1>4, <2>1, DependsGrows DEF Serialized, Ordered
  <2>2. ASSUME NEW r, Replaces(r) PROVE Ordered(a, b)'
    <3>1. CASE a \in r.originals \/ b \in r.originals
      BY <2>2, <3>1 DEF Replaces, Ordered, Finished
    <3>2. CASE a \notin r.originals /\ b \notin r.originals
      BY <1>4, <2>2, <3>2, DependsReplan DEF Serialized, Ordered
    <3> QED BY <3>1, <3>2
  <2> QED BY <1>1, <2>1, <2>2
<1> QED BY <1>3, <1>4 DEF Ordered

(* The pairs that a step finds. *)
LEMMA FoundApart ==
  ASSUME Types, Step
  PROVE  \/ apart' = apart /\ unseen' = unseen
         \/ \E r \in Replans : Replaces(r)
         \/ \E r \in Recoveries : Recovers(r)
<1>1. CASE \E t, r, kind : Moves(t, r, kind)
  BY <1>1 DEF Moves
<1>2. CASE Start \/ Stop \/ Crash
  BY <1>2 DEF Start, Stop, Crash, Ended
<1>3. CASE PlanAccepted
  BY <1>3 DEF PlanAccepted
<1>4. CASE Bystands
  BY <1>4 DEF Bystands
<1>5. CASE \E r \in Replans : Replan(r)
  BY <1>5, ReplanTypes
<1>6. CASE \E r \in Recoveries : RecoverScope(r)
  BY <1>6, RecoverTypes
<1> QED BY <1>1, <1>2, <1>3, <1>4, <1>5, <1>6 DEF Step

LEMMA ReplanOrders ==
  ASSUME Types, NEW r, Replaces(r), NEW pair \in apart' \ unseen', pair \notin apart \ unseen
  PROVE  \E a, b \in DOMAIN tasks' : pair = {a, b} /\ a # b /\ Ordered(a, b)'
<1>1. /\ r.originals \subseteq DOMAIN tasks /\ r.id \notin DOMAIN tasks
      /\ DOMAIN tasks' = DOMAIN tasks \union {r.id}
      /\ \A t \in DOMAIN tasks \ r.originals : tasks'[t] = tasks[t]
      /\ \A o \in r.originals : tasks'[o].state = "SUPERSEDED"
      /\ \A t \in DOMAIN tasks \ r.originals :
           tasks[t].state \notin Finished /\ Overlap(AsSpelled(tasks, r.originals, r), tasks[t]) =>
             Serialized(WaitEdges(tasks'), r.id, t)
      /\ pair \in Overlaps(AsSpelled(tasks, r.originals, r), r.id, Pending \ r.originals)
  BY DEF Replaces
<1>2. PICK t \in DOMAIN tasks \ r.originals :
        /\ tasks[t].state \notin Finished
        /\ Overlap(AsSpelled(tasks, r.originals, r), tasks[t]) /\ pair = {r.id, t}
  BY <1>1 DEF Overlaps, Pending
<1>3. Serialized(WaitEdges(tasks'), r.id, t)
  BY <1>1, <1>2
<1> QED BY <1>1, <1>2, <1>3 DEF Ordered

LEMMA RecoverOrders ==
  ASSUME Types, Types', Ground', Chained', NEW r, Recovers(r),
         NEW pair \in apart' \ unseen', pair \notin apart \ unseen
  PROVE  \E a, b \in DOMAIN tasks' : pair = {a, b} /\ a # b /\ Ordered(a, b)'
<1> DEFINE a == r.task
<1>1. /\ a \in DOMAIN tasks /\ tasks'[a].state \in {"READY", "BLOCKED_HUMAN"}
      /\ tasks' = [tasks EXCEPT ![a] = tasks'[a]]
      /\ \A t \in DOMAIN tasks \ {a} :
           tasks[t].state # "DONE" =>
             \/ r.areas \intersect tasks[t].areas = {}
             \/ Serialized(DepEdges(tasks'), a, t)
      /\ pair \in {{a, t} : t \in {x \in Pending \ {a} : r.areas \intersect tasks[x].areas # {}}}
  BY DEF Recovers
<1>2. PICK b \in DOMAIN tasks \ {a} :
        tasks[b].state \notin Finished /\ r.areas \intersect tasks[b].areas # {} /\ pair = {a, b}
  BY <1>1 DEF Pending
<1> HIDE DEF a
<1>3. DOMAIN tasks' = DOMAIN tasks /\ tasks'[b] = tasks[b]
  BY <1>1, <1>2 DEF Types, TasksOK
<1>4. Serialized(DepEdges(tasks'), a, b)
  BY <1>1, <1>2 DEF Finished
<1>5. Linked(tasks') /\ Transferred(tasks') /\ ~Cyclic(Successors(tasks'))
  BY DEF Types, TasksOK, Ground, Chained
<1>6. tasks'[a].state # "SUPERSEDED" /\ tasks'[b].state # "SUPERSEDED"
  BY <1>1, <1>2, <1>3 DEF Finished
<1>7. a \in DOMAIN tasks' /\ b \in DOMAIN tasks' /\ a # b
  BY <1>1, <1>2, <1>3
<1>8. Serialized(WaitEdges(tasks'), a, b)
  BY <1>4, <1>5, <1>6, <1>7, DependsWaits DEF Serialized
<1>9. Ordered(a, b)'
  BY <1>8 DEF Ordered, a
<1> QED BY <1>2, <1>7, <1>9

LEMMA SettledStays == Settled /\ [Next]_vars => Settled'
<1>1. ASSUME Settled, UNCHANGED vars PROVE Settled'
  <2>1. Ground'
    BY <1>1, GroundStays DEF Settled
  <2>2. tasks' = tasks /\ apart' = apart /\ unseen' = unseen
    BY <1>1 DEF vars
  <2> QED BY <1>1, <2>1, <2>2 DEF Settled, Chained, Serial, Ordered
<1>2. ASSUME Settled, Next PROVE Settled'
  <2>1. Types /\ Step /\ Ground' /\ Types'
    BY <1>2, GroundStays, NextSteps DEF Settled, Ground
  <2>2. Goes /\ (Grows \/ \E r \in Replans : Replaces(r))
    BY <2>1, StepGoes
  <2>3. Chained'
    BY <1>2, <2>1, <2>2, ChainedStays DEF Settled
  <2>4. ASSUME NEW pair \in apart \ unseen
        PROVE  \E a, b \in DOMAIN tasks' : pair = {a, b} /\ a # b /\ Ordered(a, b)'
    <3>1. PICK a, b \in DOMAIN tasks : pair = {a, b} /\ a # b /\ Ordered(a, b)
      BY <1>2, <2>4 DEF Settled, Serial
    <3>2. a \in DOMAIN tasks' /\ b \in DOMAIN tasks' /\ Ordered(a, b)'
      BY <2>1, <2>2, <3>1, OrderedStays
    <3> QED BY <3>1, <3>2
  <2>5. ASSUME NEW pair \in apart' \ unseen', pair \notin apart \ unseen
        PROVE  \E a, b \in DOMAIN tasks' : pair = {a, b} /\ a # b /\ Ordered(a, b)'
    BY <2>1, <2>3, <2>5, FoundApart, ReplanOrders, RecoverOrders
  <2>6. Serial'
    BY <2>4, <2>5 DEF Serial
  <2> QED BY <2>1, <2>3, <2>6 DEF Settled
<1> QED BY <1>1, <1>2

LEMMA InitSettled == Init => Settled
<1> SUFFICES ASSUME Init PROVE Settled
  OBVIOUS
<1>1. Ground /\ Types /\ Serial
  BY InitGround DEF Init, Serial, Ground
<1>2. ~Cyclic(WaitEdges(tasks))
  BY ScenarioAssumption DEF Init
<1>3. ~Cyclic(Successors(tasks))
  <2> DEFINE E == Successors(tasks)
             W == WaitEdges(tasks)
  <2>1. Finite(E) /\ Finite(W) /\ DOMAIN E = DOMAIN tasks /\ DOMAIN W = DOMAIN tasks
    BY <1>1, GraphsOf DEF Types, TasksOK, Finite
  <2>2. \A x \in DOMAIN E : E[x] \subseteq W[x]
    BY <2>1 DEF Successors, WaitEdges
  <2>3. ~Cyclic(W)
    BY <1>2
  <2> HIDE DEF E, W
  <2>4. ~Cyclic(E)
    BY <2>1, <2>2, <2>3, AcyclicFewer
  <2> QED BY <2>4 DEF E
<1> QED BY <1>1, <1>3 DEF Settled, Chained

LEMMA SettledGiven == Settled => OverlapApart
<1> SUFFICES ASSUME Settled, NEW pair \in apart \ unseen, \A t \in pair : tasks[t].state = "RUNNING" PROVE FALSE
  BY DEF OverlapApart
<1>1. Linked(tasks) /\ Grounded(tasks) /\ Types
  BY DEF Settled, Ground, Types, TasksOK
<1>2. PICK a, b \in DOMAIN tasks : pair = {a, b} /\ Ordered(a, b)
  BY DEF Settled, Serial
<1>3. tasks[a].state = "RUNNING" /\ tasks[b].state = "RUNNING"
  BY <1>2
<1>4. Serialized(WaitEdges(tasks), a, b)
  BY <1>2, <1>3 DEF Ordered, Finished
<1>5. ASSUME NEW x \in DOMAIN tasks, NEW y \in DOMAIN tasks, tasks[x].state = "RUNNING",
             DependsOn(WaitEdges(tasks), x, y)
      PROVE  tasks[y].state # "RUNNING"
  <2> DEFINE E == WaitEdges(tasks)
  <2>1. E[x] = tasks[x].deps
    BY <1>5 DEF WaitEdges
  <2>2. E[x] \subseteq DoneTasks(tasks)
    BY <1>1, <1>5, <2>1 DEF Grounded, DependenciesComplete, DoneTasks, Linked
  <2>3. Finite(E) /\ DOMAIN E = DOMAIN tasks /\ ClosedUnder(E, DoneTasks(tasks))
    BY <1>1, WaitsFinite, DoneWaits
  <2>4. y \in Closure(E, E[x])
    BY <1>5 DEF DependsOn
  <2> HIDE DEF E
  <2>5. E[x] \in SUBSET DOMAIN E
    BY <2>3, NeighboursAre
  <2>6. y \in DoneTasks(tasks)
    BY <2>2, <2>3, <2>4, <2>5, ClosureLeast DEF Finite
  <2> QED BY <2>6, DoneIsFinished
<1> QED BY <1>2, <1>3, <1>4, <1>5 DEF Serialized

(* Two tasks whose areas or domains overlap after a replan or a recovery   *)
(* are never written at the same time, whatever is routed, replaced,       *)
(* recovered or restarted later, unless it was a replan and it did not see *)
(* the overlap, as its request spelled an area in another way              *)
(* (replan.go:524-550 and 979-988, scope_recovery.go:416-460).             *)
THEOREM OverlapsApart == Spec => []OverlapApart
<1>1. Spec => []Settled
  BY InitSettled, SettledStays, PTL DEF Spec
<1> QED BY <1>1, SettledGiven, PTL
=============================================================================
