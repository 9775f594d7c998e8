--------------------------- MODULE MergeTrainSafety ---------------------------
(***************************************************************************)
(* Safety of MergeTrain while updates of pull requests succeed: a task is  *)
(* delivered once, nothing lands on a main that failed its checks, a hold  *)
(* can be lifted, and no publication is refused.                           *)
(*                                                                         *)
(* ~UpdateMayFail is a hypothesis of every theorem here: with a failed     *)
(* update, verifyReview's retry takes a task that has landed meanwhile     *)
(* back to FIX (TLC finds it in the run of IntegratedEdges).               *)
(***************************************************************************)
EXTENDS MergeTrainProofs

(* What an integrated task looks like until it is finished, and after.     *)
LandedIn(r) ==
  \/ r.state \in {"POST_VERIFY", "DONE"}
  \/ r.state = "BLOCKED_HUMAN" /\ r.resume = "POST_VERIFY"
Unlanded(r) ==
  /\ r.state \in {"FIX", "SYNC_REQUIRED", "MERGE_READY", "BLOCKED_HUMAN"}
  /\ ~LandedIn(r)

Busy == {"implement", "verify", "review"}
Serial == {"gate", "review", "checks", "settle"}
Post == {"post", "postchecks", "qa", "finish"}

(* A process that is not up has no goroutines, and none stopped by itself. *)
Process ==
  /\ mode # "failed"
  /\ mode # "up" => train = Idle /\ sched = NoBatch /\ \A t \in Task : worker[t] = "none"

(* Between the selection of a batch and its reservation nothing merges.    *)
Turns ==
  sched # NoBatch =>
    train = Idle /\ snap.held = None /\ snap.batch = NoBatch /\ Valid(snap, sched)

(* A worker has a task in preparation to itself, but for the merge         *)
(* goroutine's own second review.                                          *)
Workers ==
  \A t \in Task :
    /\ worker[t] # "retry"
    /\ worker[t] \in Busy =>
         \/ snap.task[t].state \in {"FIX", "SYNC_REQUIRED"}
         \/ /\ worker[t] = "verify" /\ snap.task[t].state = "MERGE_READY"
            /\ train.pc = "review" /\ train.task = t

(* integrate was told that its own merge failed. *)
Mistaken ==
  LET t == train.task
  IN /\ train.pc = "settle" /\ train.reserved /\ worker[t] = "none"
     /\ snap.held = None /\ snap.task[t].state = "POST_VERIFY"
     /\ main.landed[t] <= main.missed[t]

(* The task that integrate works on. *)
Integrating ==
  LET t == train.task
  IN /\ snap.held = None /\ train.reserved
     /\ \/ train.pc = "review" /\ Unlanded(snap.task[t])
        \/ /\ train.pc # "review" /\ worker[t] = "none"
           /\ snap.task[t].state = IF train.pc = "gate" THEN "MERGE_READY" ELSE "MERGE_TRAIN"

Integration ==
  train.pc \in Serial =>
    /\ train.todo = {}
    /\ \/ Integrating
       \/ Mistaken
       \/ train.pc = "gate" /\ snap.task[train.task].state = "POST_VERIFY"

(* The tasks whose post-merge verification is under way or next. *)
Verifications ==
  train.pc \in Post =>
    \A u \in train.todo \union {train.task} : snap.task[u].state = "POST_VERIFY"

(* A reservation is the only thing that merges, and nothing is held then.  *)
Reserved ==
  /\ snap.batch # NoBatch => train.pc \in {"idle", "batch", "candidate"} /\ snap.held = None
  /\ train.pc \in {"batch", "candidate"} => snap.held = None

(* The snapshot tells what main has received, but for what the supervisor  *)
(* was told it did not.                                                    *)
Landing ==
  \A t \in Task :
    /\ main.landed[t] <= main.missed[t] + (IF LandedIn(snap.task[t]) THEN 1 ELSE 0)
    /\ LandedIn(snap.task[t]) => main.landed[t] > 0 /\ snap.task[t].merge # 0
    /\ snap.task[t].head # 0

(* A failed main is held by a task that landed and is not finished; it is  *)
(* about to be released only after checks that passed.                     *)
Holds ==
  /\ snap.held # None =>
       LandedIn(snap.task[snap.held]) /\ snap.task[snap.held].state # "DONE"
  /\ health = "bad" => snap.held # None
  /\ train.pc = "qa" \/ (train.pc = "finish" /\ snap.held = train.task) => health = "good"

Safe ==
  Process /\ Turns /\ Workers /\ Integration /\ Verifications /\ Reserved /\ Landing /\ Holds

-----------------------------------------------------------------------------
(* Publications are not refused. *)

KeepsReady(s, s2) ==
  \A u \in Task : s.task[u].state = "MERGE_READY" => s2.task[u] = s.task[u]

LEMMA ValidKept ==
  ASSUME NEW s, NEW s2, KeepsReady(s, s2), NEW batch, Valid(s, batch)
  PROVE  Valid(s2, batch)
<1>1. ASSUME NEW t \in Members(batch)
      PROVE  s2.task[t] = s.task[t]
  BY <1>1 DEF KeepsReady, Valid, Eligible, Members
<1> QED BY <1>1 DEF Valid, Eligible, Reviewed

LEMMA DecodesKept ==
  ASSUME NEW s, NEW s2, Decodes(s), KeepsReady(s, s2), s2.batch \in {s.batch, NoBatch}
  PROVE  Decodes(s2)
BY ValidKept DEF Decodes

LEMMA MutateDone ==
  ASSUME NEW s, NEW w, NEW r, NEW b, Mutate(s, w, r, b), Decodes(s)
  PROVE  snap' = s /\ worker' = w /\ train' = r /\ sched' = b /\ mode' = mode
BY DEF Mutate

-----------------------------------------------------------------------------
(* Initially nothing has landed. *)

LEMMA SafeInit == Init => Safe
<1> SUFFICES ASSUME Init PROVE Safe
  OBVIOUS
<1>1. /\ train = Idle /\ Idle.pc = "idle" /\ Idle.task = None
      /\ sched = NoBatch /\ snap.held = None /\ snap.batch = NoBatch
      /\ health = "good" /\ mode = "down" /\ worker = [t \in Task |-> "none"]
  BY DEF Init, Idle
<1>2. ASSUME NEW t \in Task
      PROVE  /\ snap.task[t].state \in {"MERGE_READY", "SYNC_REQUIRED"}
             /\ snap.task[t].head = 1 /\ main.landed[t] = 0 /\ main.missed[t] = 0
  BY DEF Init
<1>3. Landing
  BY <1>2 DEF Landing, LandedIn
<1>4. Process /\ Turns /\ Workers
  BY <1>1 DEF Process, Turns, Workers, Busy
<1>5. Integration /\ Verifications /\ Reserved /\ Holds
  BY <1>1 DEF Integration, Verifications, Reserved, Holds, Serial, Post
<1> QED BY <1>3, <1>4, <1>5 DEF Safe

-----------------------------------------------------------------------------
(* What most steps leave as it is. *)

(* No task lands, and none is taken back. *)
Steady(s, s2) ==
  \A u \in Task :
    /\ LandedIn(s2.task[u]) <=> LandedIn(s.task[u])
    /\ s2.task[u].merge = s.task[u].merge
    /\ s2.task[u].head \in {s.task[u].head, s.task[u].head + 1}

LEMMA LandingKept ==
  ASSUME Types, Landing, Steady(snap, snap'),
         main'.landed = main.landed, main'.missed = main.missed
  PROVE  Landing'
<1>1. ASSUME NEW t \in Task
      PROVE  snap.task[t].head \in Nat
  BY DEF Types, Snapshot, TaskRecord
<1> QED BY <1>1 DEF Landing, Steady

LEMMA ChangesSteady ==
  ASSUME NEW s, NEW s2, NEW t \in Task, Changes(s, s2, t),
         LandedIn(s2.task[t]) <=> LandedIn(s.task[t]),
         s2.task[t].merge = s.task[t].merge,
         s2.task[t].head \in {s.task[t].head, s.task[t].head + 1}
  PROVE  Steady(s, s2)
BY DEF Changes, Steady

LEMMA BackUnlands ==
  ASSUME NEW s, NEW s2, NEW t, SentBack(s, s2, t)
  PROVE  /\ Changes(s, s2, t) /\ Unlanded(s2.task[t]) /\ s2.task[t].state # "MERGE_READY"
         /\ s2.task[t].merge = s.task[t].merge
         /\ s2.task[t].head \in {s.task[t].head, s.task[t].head + 1}
BY DEF SentBack, WentBack, Unlanded, LandedIn

LEMMA IdleIsIdle == Idle.pc = "idle" /\ Idle.todo = {}
BY DEF Idle

(* A worker that publishes the record of its task. *)
LEMMA WorkerSafe ==
  ASSUME Types, Safe, NEW t \in Task, worker[t] \in Busy, NEW s2,
         Changes(snap, s2, t), Unlanded(s2.task[t]),
         s2.task[t].merge = snap.task[t].merge,
         s2.task[t].head \in {snap.task[t].head, snap.task[t].head + 1},
         NEW pc \in {"none", "verify", "review", "tail"},
         pc \in {"verify", "review"} => s2.task[t].state = "SYNC_REQUIRED",
         MutateInWorker(s2, t, pc), UNCHANGED <<main, health>>
  PROVE  Safe'
<1>0. worker \in [Task -> Worker] /\ snap \in Snapshot /\ TrainOK(train)
  BY DEF Types
<1>1. ~LandedIn(snap.task[t]) /\ snap.task[t].state # "POST_VERIFY" /\ snap.task[t].state # "MERGE_TRAIN"
      /\ (snap.task[t].state = "MERGE_READY" => train.pc = "review" /\ train.task = t)
  BY DEF Safe, Workers, LandedIn
<1>2. Decodes(s2)
  <2>1. CASE snap.batch = NoBatch
    BY <2>1 DEF Changes, Decodes
  <2>2. CASE snap.batch # NoBatch
    <3>1. KeepsReady(snap, s2)
      BY <1>1, <2>2 DEF Changes, KeepsReady, Safe, Reserved
    <3> QED BY <3>1, DecodesKept DEF Changes, Types
  <2> QED BY <2>1, <2>2
<1>3. /\ snap' = s2 /\ worker' = [worker EXCEPT ![t] = pc]
      /\ UNCHANGED <<train, sched, mode, main, health>>
  BY <1>2, MutateDone DEF MutateInWorker
<1>4. mode = "up"
  BY DEF Safe, Process, Busy
<1>5. /\ snap'.held = snap.held /\ snap'.batch = snap.batch
      /\ \A u \in Task \ {t} : snap'.task[u] = snap.task[u] /\ worker'[u] = worker[u]
      /\ worker'[t] = pc
  BY <1>0, <1>3 DEF Changes
<1>a. Process'
  BY <1>3, <1>4 DEF Safe, Process
<1>b. Turns'
  <2> SUFFICES ASSUME sched # NoBatch PROVE Valid(snap', sched')
    BY <1>3, <1>5 DEF Safe, Turns
  <2>1. train = Idle /\ Valid(snap, sched)
    BY DEF Safe, Turns
  <2>2. KeepsReady(snap, s2)
    BY <1>1, <2>1, IdleIsIdle DEF Changes, KeepsReady
  <2> QED BY <1>3, <2>1, <2>2, ValidKept
<1>c. Workers'
  BY <1>3, <1>5 DEF Safe, Workers, Busy
<1>d. Integration'
  BY <1>1, <1>3, <1>5, TrainTask DEF Safe, Integration, Mistaken, Integrating, Serial, Busy
<1>e. Verifications'
  BY <1>0, <1>1, <1>3, <1>5 DEF Safe, Verifications, TrainOK, Train, Post
<1>f. Reserved'
  BY <1>3, <1>5 DEF Safe, Reserved
<1>g. Landing'
  BY <1>1, <1>3, ChangesSteady, LandingKept DEF Safe, Unlanded
<1>h. Holds'
  BY <1>0, <1>1, <1>3, <1>5 DEF Safe, Holds, Snapshot
<1> QED BY <1>a, <1>b, <1>c, <1>d, <1>e, <1>f, <1>g, <1>h DEF Safe

(* A step that publishes nothing and moves neither train nor scheduler.    *)
LEMMA QuietSafe ==
  ASSUME Types, Safe, UNCHANGED <<snap, mode, sched, train, health>>,
         main'.landed = main.landed, main'.missed = main.missed,
         \A t \in Task : worker'[t] = worker[t] \/ worker'[t] = "none"
  PROVE  Safe'
<1>1. Process' /\ Turns'
  BY DEF Safe, Process, Turns, Valid, Members, Eligible, Reviewed
<1>2. Workers'
  BY DEF Safe, Workers, Busy
<1>3. Integration'
  BY TrainTask DEF Safe, Integration, Mistaken, Integrating, Serial
<1>4. Verifications' /\ Reserved' /\ Holds'
  BY DEF Safe, Verifications, Reserved, Holds
<1>5. Landing'
  BY DEF Safe, Landing
<1> QED BY <1>1, <1>2, <1>3, <1>4, <1>5 DEF Safe

LEMMA WorkingSafe ==
  ASSUME ~UpdateMayFail, Types, Safe, NEW t \in Task, Working(t)
  PROVE  Safe'
<1>0. snap \in Snapshot /\ worker \in [Task -> Worker] /\ worker[t] # "retry"
  BY DEF Types, Safe, Workers
<1>1. ASSUME NEW s2, SentBack(snap, s2, t), worker[t] \in Busy,
             NEW pc \in {"none", "verify", "review", "tail"},
             pc \in {"verify", "review"} => s2.task[t].state = "SYNC_REQUIRED",
             MutateInWorker(s2, t, pc), UNCHANGED <<main, health>>
      PROVE  Safe'
  BY <1>1, BackUnlands, WorkerSafe
<1>2. CASE Implement(t)
  <2> DEFINE s2 == [Staged(snap, t, "SYNC_REQUIRED") EXCEPT !.task[t].head = snap.task[t].head + 1]
  <2>1. SentBack(snap, s2, t) /\ s2.task[t].state = "SYNC_REQUIRED"
    BY <1>0, ImplementedBack
  <2>2. /\ worker[t] \in Busy /\ MutateInWorker(s2, t, "verify")
        /\ UNCHANGED <<main, health>>
    BY <1>2 DEF Implement, Busy
  <2> HIDE DEF s2
  <2> QED BY <1>1, <2>1, <2>2
<1>3. CASE Synchronize(t)
  <2>1. PICK s2 \in Snapshot : /\ SentBack(snap, s2, t) /\ s2.task[t].state = "SYNC_REQUIRED"
                               /\ MutateInWorker(s2, t, "review") /\ worker[t] = "verify"
    BY <1>3, SynchronizeBack
  <2> QED BY <1>1, <1>3, <2>1 DEF Synchronize, Busy
<1>4. CASE Accept(t)
  <2> DEFINE s2 == [Staged(snap, t, "MERGE_READY") EXCEPT !.task[t].evidence =
                      [base |-> snap.task[t].base, head |-> snap.task[t].head]]
  <2>1. /\ Changes(snap, s2, t) /\ s2.task[t].state = "MERGE_READY"
        /\ s2.task[t].merge = snap.task[t].merge /\ s2.task[t].head = snap.task[t].head
    BY <1>0, AcceptedFacts
  <2>2. worker[t] \in Busy /\ MutateInWorker(s2, t, "tail") /\ UNCHANGED <<main, health>>
    BY <1>4 DEF Accept, Busy
  <2> HIDE DEF s2
  <2>3. Unlanded(s2.task[t])
    BY <2>1 DEF Unlanded, LandedIn
  <2> QED BY <2>1, <2>2, <2>3, WorkerSafe
<1>5. CASE Reject(t) \/ Retry(t)
  <2>1. PICK s2 \in Failures(snap, t) \union Retries(snap, t) : MutateInWorker(s2, t, "none")
    BY <1>5 DEF Reject, Retry
  <2>2. SentBack(snap, s2, t)
    BY <1>0, FailuresBack
  <2> QED BY <1>0, <1>1, <1>5, <2>1, <2>2 DEF Reject, Retry, Busy
<1>6. CASE MarkReady(t) \/ UpdateReturns(t)
  BY <1>0, <1>6, QuietSafe DEF MarkReady, UpdateReturns
<1> QED BY <1>2, <1>3, <1>4, <1>5, <1>6 DEF Working

-----------------------------------------------------------------------------
(* The merge goroutine: integrate. *)

(* It gives the task back. *)
LEMMA TrainBackSafe ==
  ASSUME Types, Safe, train.pc \in Serial, Integrating \/ Mistaken, worker[train.task] = "none",
         NEW s2, SentBack(snap, s2, train.task), MutateInTrain(s2, Idle),
         UNCHANGED <<main, health>>
  PROVE  Safe'
<1> DEFINE t == train.task
<1>0. t \in Task /\ snap \in Snapshot
  BY TrainTask DEF Types, Serial
<1>1. /\ Changes(snap, s2, t) /\ Unlanded(s2.task[t])
      /\ s2.task[t].merge = snap.task[t].merge
      /\ s2.task[t].head \in {snap.task[t].head, snap.task[t].head + 1}
  BY BackUnlands
<1>2. snap.batch = NoBatch /\ sched = NoBatch /\ snap.held = None /\ mode = "up"
  BY IdleIsIdle DEF Safe, Reserved, Turns, Process, Integrating, Mistaken, Serial
<1>l. main.landed[t] <= main.missed[t]
  <2>1. main.landed[t] \in Nat /\ main.missed[t] \in Nat
    BY <1>0 DEF Types, Main
  <2>2. CASE Integrating
    <3>1. ~LandedIn(snap.task[t])
      BY <2>2 DEF Integrating, LandedIn, Unlanded
    <3> QED BY <1>0, <2>1, <3>1 DEF Safe, Landing
  <2>3. CASE Mistaken
    BY <2>3 DEF Mistaken
  <2> QED BY <2>2, <2>3
<1>3. /\ snap' = s2 /\ train' = Idle /\ UNCHANGED <<worker, sched, mode, main, health>>
  BY <1>1, <1>2, MutateDone DEF MutateInTrain, Decodes, Changes
<1>4. snap'.held = None /\ snap'.batch = NoBatch
      /\ \A u \in Task \ {t} : snap'.task[u] = snap.task[u]
  BY <1>1, <1>2, <1>3 DEF Changes
<1> HIDE DEF t
<1>5. Process' /\ Turns'
  BY <1>2, <1>3 DEF Process, Turns
<1>6. Workers'
  BY <1>3, <1>4 DEF Safe, Workers, Busy, t
<1>7. Integration' /\ Verifications' /\ Reserved'
  BY <1>3, <1>4, IdleIsIdle DEF Integration, Verifications, Reserved, Serial, Post
<1>8. Landing'
  <2> SUFFICES ASSUME NEW u \in Task
               PROVE  /\ main.landed[u] <= main.missed[u] + (IF LandedIn(s2.task[u]) THEN 1 ELSE 0)
                      /\ LandedIn(s2.task[u]) => main.landed[u] > 0 /\ s2.task[u].merge # 0
                      /\ s2.task[u].head # 0
    BY <1>3 DEF Landing
  <2>1. /\ main.landed[u] \in Nat /\ main.missed[u] \in Nat /\ snap.task[u].head \in Nat
        /\ snap.task[u].head # 0
    BY DEF Types, Main, Snapshot, TaskRecord, Safe, Landing
  <2>2. CASE u = t
    BY <1>1, <1>l, <2>1, <2>2 DEF Unlanded
  <2>3. CASE u # t
    BY <1>1, <2>3 DEF Changes, Safe, Landing
  <2> QED BY <2>2, <2>3
<1>9. Holds'
  BY <1>2, <1>3, <1>4, IdleIsIdle DEF Safe, Holds
<1> QED BY <1>5, <1>6, <1>7, <1>8, <1>9 DEF Safe

(* The merge goroutine alone goes on, from one place of integrate or of    *)
(* postVerify to another.                                                  *)
LEMMA TrainOnSafe ==
  ASSUME Types, Safe, train # Idle, UNCHANGED <<snap, mode, sched>>,
         main'.landed = main.landed, main'.missed = main.missed,
         Workers', Integration', Verifications', Reserved', Holds'
  PROVE  Safe'
<1>1. Process' /\ Turns'
  BY DEF Safe, Process, Turns
<1>2. Landing'
  BY DEF Safe, Landing
<1> QED BY <1>1, <1>2 DEF Safe

(* The second review of integrate is a worker of its own. *)
LEMMA ReviewSafe ==
  ASSUME Types, Safe, train.pc = "gate", snap.task[train.task].state = "MERGE_READY",
         worker' = [worker EXCEPT ![train.task] = "verify"],
         train' = [train EXCEPT !.pc = "review"],
         UNCHANGED <<snap, mode, sched, main, health>>
  PROVE  Safe'
<1>0. train \in Train /\ train.task \in Task /\ worker \in [Task -> Worker]
  BY TrainTask DEF Types, TrainOK
<1>1. /\ train'.pc = "review" /\ train'.task = train.task /\ train'.todo = train.todo
      /\ train'.reserved = train.reserved
  BY <1>0 DEF Train
<1>2. train.todo = {} /\ Integrating /\ snap.batch = NoBatch
  BY DEF Safe, Integration, Mistaken, Reserved, Serial
<1>3. Workers'
  BY <1>0, <1>1 DEF Safe, Workers, Busy
<1>4. Integration' /\ Verifications' /\ Reserved'
  BY <1>1, <1>2 DEF Integration, Integrating, Unlanded, LandedIn, Verifications, Reserved, Serial, Post
<1>5. Holds'
  BY <1>1, <1>2 DEF Safe, Holds, Integrating
<1> QED BY <1>3, <1>4, <1>5, TrainOnSafe, IdleIsIdle

LEMMA AdmittedSafe ==
  ASSUME Types, Safe, train.pc \in {"gate", "review"}, Integrating, worker[train.task] = "none",
         snap.task[train.task].state = "MERGE_READY",
         MutateInTrain(Staged(snap, train.task, "MERGE_TRAIN"),
           [train EXCEPT !.pc = "checks", !.base = main.version, !.head = snap.task[train.task].head]),
         UNCHANGED <<main, health>>
  PROVE  Safe'
<1> DEFINE t == train.task
           s2 == Staged(snap, t, "MERGE_TRAIN")
           r == [train EXCEPT !.pc = "checks", !.base = main.version, !.head = snap.task[t].head]
<1>0. t \in Task /\ snap \in Snapshot /\ train \in Train
  BY TrainTask DEF Types, TrainOK
<1>1. Changes(snap, s2, t) /\ Restated(snap.task[t], s2.task[t], "MERGE_TRAIN", snap.task[t].resume)
  BY <1>0, StagedFacts, StagedRestates DEF State
<1>2. /\ snap.batch = NoBatch /\ sched = NoBatch /\ snap.held = None /\ mode = "up"
      /\ train.todo = {} /\ train.reserved
  BY IdleIsIdle DEF Safe, Reserved, Turns, Process, Integration, Integrating, Serial
<1>3. r.pc = "checks" /\ r.task = t /\ r.todo = {} /\ r.reserved
  BY <1>0, <1>2 DEF Train
<1>4. s2.batch = NoBatch /\ s2.held = None /\ s2.task[t].state = "MERGE_TRAIN"
  BY <1>1, <1>2 DEF Changes, Restated
<1> HIDE DEF s2, r
<1>5. snap' = s2 /\ train' = r /\ UNCHANGED <<worker, sched, mode, main, health>>
  BY <1>4, MutateDone DEF MutateInTrain, Decodes, s2, r
<1>6. Process' /\ Turns'
  BY <1>2, <1>5 DEF Process, Turns
<1>7. Workers'
  BY <1>1, <1>5 DEF Safe, Workers, Busy, Changes
<1>8. Integration' /\ Verifications' /\ Reserved'
  BY <1>3, <1>4, <1>5 DEF Integration, Integrating, Verifications, Reserved, Serial, Post
<1>9. Landing'
  <2>1. ~LandedIn(snap.task[t]) /\ ~LandedIn(s2.task[t])
    BY <1>4 DEF LandedIn
  <2>2. Steady(snap, s2)
    BY <1>0, <1>1, <2>1, ChangesSteady DEF Restated
  <2> QED BY <1>5, <2>2, LandingKept DEF Safe
<1>10. Holds'
  BY <1>2, <1>3, <1>4, <1>5 DEF Safe, Holds
<1> QED BY <1>6, <1>7, <1>8, <1>9, <1>10 DEF Safe

LEMMA AdmitSafe ==
  ASSUME Types, Safe, train.pc \in {"gate", "review"}, worker[train.task] = "none",
         snap.task[train.task].state = "MERGE_READY", Admit(train.task),
         UNCHANGED <<main, health>>
  PROVE  Safe'
<1> DEFINE t == train.task
<1>0. t \in Task /\ snap \in Snapshot
  BY TrainTask DEF Types
<1>1. Integrating /\ train.pc \in Serial
  BY DEF Safe, Integration, Mistaken, Serial
<1>2. ASSUME NEW s \in Retries(snap, t) \union {Blocked(snap, t, "SYNC_REQUIRED")}, MutateInTrain(s, Idle)
      PROVE  Safe'
  <2>1. SentBack(snap, s, t)
    BY <1>0, FailuresBack, Back
  <2> QED BY <1>1, <1>2, <2>1, TrainBackSafe
<1> QED BY <1>1, <1>2, AdmittedSafe DEF Admit

(* The step of a publication to main: the tasks of the group land. *)
LEMMA LandingGrows ==
  ASSUME Types, Landing, NEW group \in SUBSET Task, Lands(group),
         \A t \in group : /\ ~LandedIn(snap.task[t])
                          /\ Merged(snap.task[t], snap'.task[t], main.version + 1),
         \A t \in Task \ group : snap'.task[t] = snap.task[t]
  PROVE  Landing'
<1> SUFFICES ASSUME NEW t \in Task
             PROVE  /\ main'.landed[t] <= main'.missed[t] + (IF LandedIn(snap'.task[t]) THEN 1 ELSE 0)
                    /\ LandedIn(snap'.task[t]) => main'.landed[t] > 0 /\ snap'.task[t].merge # 0
                    /\ snap'.task[t].head # 0
  BY DEF Landing
<1>0. /\ snap.task[t].head \in Nat /\ main.version \in Nat
      /\ main.landed[t] \in Nat /\ main.missed[t] \in Nat
      /\ main.landed[t] <= main.missed[t] + (IF LandedIn(snap.task[t]) THEN 1 ELSE 0)
      /\ LandedIn(snap.task[t]) => main.landed[t] > 0 /\ snap.task[t].merge # 0
      /\ snap.task[t].head # 0
  BY DEF Types, Snapshot, TaskRecord, Main, Landing
<1>1. /\ main'.landed[t] = main.landed[t] + (IF t \in group THEN 1 ELSE 0)
      /\ main'.missed[t] \in {main.missed[t], main.missed[t] + 1}
  BY Landed, <1>0 DEF Types, Main, Lands, Reported, Counted
<1>2. CASE t \in group
  <2>1. /\ snap'.task[t].state = "POST_VERIFY" /\ snap'.task[t].head = snap.task[t].head + 1
        /\ snap'.task[t].merge = main.version + 1 /\ ~LandedIn(snap.task[t])
    BY <1>2 DEF Merged
  <2>2. LandedIn(snap'.task[t])
    BY <2>1 DEF LandedIn
  <2> QED BY <1>0, <1>1, <1>2, <2>1, <2>2
<1>3. CASE t \notin group
  BY <1>0, <1>1, <1>3
<1> QED BY <1>2, <1>3

LEMMA PublishSafe ==
  ASSUME Types, Safe, Publish, UNCHANGED health
  PROVE  Safe'
<1> DEFINE t == train.task
<1>0. t \in Task /\ snap \in Snapshot /\ train \in Train /\ train.pc = "checks"
  BY TrainTask DEF Types, TrainOK, Publish
<1>1. /\ snap.batch = NoBatch /\ sched = NoBatch /\ snap.held = None /\ mode = "up"
      /\ train.todo = {} /\ train.reserved /\ snap.task[t].state = "MERGE_TRAIN"
      /\ Integrating /\ health # "bad" /\ worker[t] = "none"
  BY <1>0, IdleIsIdle DEF Safe, Reserved, Turns, Process, Integration, Mistaken, Integrating, Serial, Holds
<1>2. ASSUME NEW saved \in BOOLEAN, Reported({t}, saved), NEW pc \in {"post", "settle"},
             pc = IF saved THEN "post" ELSE "settle",
             MutateInTrain(Integrated(snap, {t}), [train EXCEPT !.pc = pc])
      PROVE  Safe'
  <2> DEFINE s2 == Integrated(snap, {t})
             r == [train EXCEPT !.pc = pc]
  <2>1. /\ s2.held = None /\ s2.batch = NoBatch
        /\ \A u \in Task \ {t} : s2.task[u] = snap.task[u]
        /\ Merged(snap.task[t], s2.task[t], main.version + 1)
    BY <1>0, <1>1, IntegratedFacts DEF Types
  <2>2. r.pc = pc /\ r.task = t /\ r.todo = {} /\ r.reserved
    BY <1>0, <1>1 DEF Train
  <2> HIDE DEF s2, r
  <2>3. snap' = s2 /\ train' = r /\ UNCHANGED <<worker, sched, mode>>
    BY <1>2, <2>1, MutateDone DEF MutateInTrain, Decodes, s2, r
  <2>4. Process' /\ Turns'
    BY <1>1, <2>3 DEF Process, Turns
  <2>5. Workers'
    BY <1>0, <1>1, <2>1, <2>3 DEF Safe, Workers, Busy
  <2>l. ~LandedIn(snap.task[t])
    BY <1>1 DEF LandedIn
  <2>m. ~saved => main'.landed[t] <= main'.missed[t]
    <3>1. main.landed[t] \in Nat /\ main.missed[t] \in Nat /\ main.landed[t] <= main.missed[t]
      BY <1>0, <2>l DEF Types, Main, Safe, Landing
    <3> QED BY <1>0, <1>2, <3>1 DEF Reported, Counted
  <2>6. Integration'
    <3>1. CASE saved
      BY <1>2, <2>2, <2>3, <3>1 DEF Integration, Serial
    <3>2. CASE ~saved
      <4>1. Mistaken'
        BY <1>1, <1>2, <2>1, <2>2, <2>3, <2>m, <3>2 DEF Mistaken, Merged
      <4> QED BY <2>2, <2>3, <4>1 DEF Integration
    <3> QED BY <3>1, <3>2
  <2>8. Verifications' /\ Reserved' /\ Holds'
    BY <1>1, <1>2, <2>1, <2>2, <2>3 DEF Verifications, Reserved, Holds, Post, Merged
  <2>7. Landing'
    BY <1>0, <1>2, <2>1, <2>3, <2>l, LandingGrows DEF Safe, Lands
  <2> QED BY <2>4, <2>5, <2>6, <2>7, <2>8 DEF Safe
<1>3. CASE train' = [train EXCEPT !.pc = "settle"] /\ UNCHANGED <<snap, main, mode, sched, worker, used>>
  <2>1. /\ train'.pc = "settle" /\ train'.task = t /\ train'.todo = {} /\ train'.reserved
    BY <1>0, <1>1, <1>3 DEF Train
  <2>2. Workers' /\ Integration' /\ Verifications' /\ Reserved' /\ Holds'
    BY <1>0, <1>1, <1>3, <2>1
       DEF Safe, Workers, Integration, Integrating, Verifications, Reserved, Holds, Serial, Post
  <2> QED BY <1>0, <1>3, <2>2, TrainOnSafe, IdleIsIdle
<1> QED BY <1>2, <1>3 DEF Publish

LEMMA SerialSafe ==
  ASSUME Types, Safe, Gate \/ Regate \/ ChecksFail \/ Publish \/ Settle
  PROVE  Safe'
<1> DEFINE t == train.task
<1>0. /\ t \in Task /\ snap \in Snapshot /\ train \in Train /\ snap.task[t] \in TaskRecord
      /\ train.pc \in Serial /\ UNCHANGED health
  BY TrainTask DEF Types, TrainOK, Gate, Regate, ChecksFail, Publish, Settle, Serial
<1>b. /\ SentBack(snap, Staged(snap, t, "SYNC_REQUIRED"), t)
      /\ SentBack(snap, Blocked(snap, t, "SYNC_REQUIRED"), t)
  BY <1>0, Back
<1>c. ASSUME Integrating \/ Mistaken, worker[t] = "none", NEW s, SentBack(snap, s, t), MutateInTrain(s, Idle),
             UNCHANGED main
      PROVE  Safe'
  BY <1>0, <1>c, TrainBackSafe
<1>1. CASE Gate
  <2>1. Integrating /\ worker[t] = "none" /\ snap.task[t].state = "MERGE_READY" /\ UNCHANGED main
    BY <1>1 DEF Safe, Integration, Mistaken, Integrating, Gate, Serial
  <2>2. CASE Admit(t)
    BY <1>0, <1>1, <2>1, <2>2, AdmitSafe DEF Gate
  <2>3. CASE /\ worker' = [worker EXCEPT ![t] = "verify"]
             /\ train' = [train EXCEPT !.pc = "review"]
             /\ UNCHANGED <<snap, mode, sched>>
    BY <1>0, <1>1, <2>1, <2>3, ReviewSafe DEF Gate
  <2>4. CASE \E s \in {Staged(snap, t, "SYNC_REQUIRED"), Blocked(snap, t, "SYNC_REQUIRED")} :
               MutateInTrain(s, Idle)
    BY <1>b, <1>c, <2>1, <2>4
  <2> QED BY <1>1, <2>2, <2>3, <2>4 DEF Gate
<1>2. CASE Regate
  <2>1. Integrating /\ worker[t] = "none" /\ train.pc = "review" /\ UNCHANGED main
    BY <1>2 DEF Safe, Integration, Mistaken, Regate, Serial
  <2>2. CASE Admit(t) /\ snap.task[t].state = "MERGE_READY"
    BY <1>0, <2>1, <2>2, AdmitSafe
  <2>3. CASE MutateInTrain(Staged(snap, t, "SYNC_REQUIRED"), Idle)
    BY <1>b, <1>c, <2>1, <2>3
  <2>4. CASE snap.task[t].state # "MERGE_READY" /\ train' = Idle /\ UNCHANGED <<snap, mode, sched, worker>>
    <3>1. Workers'
      BY <2>1, <2>4 DEF Safe, Workers, Busy
    <3>2. Integration' /\ Verifications' /\ Reserved' /\ Holds'
      BY <1>0, <2>1, <2>4, IdleIsIdle DEF Safe, Integration, Verifications, Reserved, Holds, Serial, Post
    <3> QED BY <1>0, <2>1, <2>4, <3>1, <3>2, TrainOnSafe, IdleIsIdle
  <2> QED BY <1>2, <2>2, <2>3, <2>4 DEF Regate
<1>3. CASE ChecksFail
  <2>1. Integrating /\ worker[t] = "none" /\ UNCHANGED main
    BY <1>3 DEF Safe, Integration, Mistaken, Integrating, ChecksFail, Serial
  <2>2. PICK s \in Failures(snap, t) : MutateInTrain(s, Idle)
    BY <1>3 DEF ChecksFail
  <2>3. SentBack(snap, s, t)
    BY <1>0, FailuresBack
  <2> QED BY <1>c, <2>1, <2>2, <2>3
<1>4. CASE Publish
  BY <1>0, <1>4, PublishSafe
<1>5. CASE Settle
  <2>1. (Integrating \/ Mistaken) /\ worker[t] = "none" /\ UNCHANGED main
    BY <1>5 DEF Safe, Integration, Integrating, Mistaken, Settle, Serial
  <2>2. snap.task[t].races + 1 \in Nat
    BY <1>0 DEF TaskRecord
  <2>3. LET raced == [snap EXCEPT !.task[t].races = snap.task[t].races + 1]
        IN SentBack(snap, Blocked(raced, t, "SYNC_REQUIRED"), t) /\ SentBack(snap, Invalidated(raced, t), t)
    BY <1>0, <2>2, RacedBack
  <2>4. PICK s : SentBack(snap, s, t) /\ MutateInTrain(s, Idle)
    BY <1>5, <1>b, <2>3 DEF Settle
  <2> QED BY <1>c, <2>1, <2>4
<1> QED BY <1>1, <1>2, <1>3, <1>4, <1>5

-----------------------------------------------------------------------------
(* The merge goroutine: integrateBatch. *)

(* The snapshot without the reservation, with one member sent back. *)
LEMMA AbandonSafe ==
  ASSUME Types, Safe, train.pc \in {"batch", "candidate"}, Abandon, UNCHANGED <<main, health>>
  PROVE  Safe'
<1> DEFINE t == First(Members(train.batch))
           open == [snap EXCEPT !.batch = NoBatch]
           s2 == FailBatch(snap)
<1>0. snap \in Snapshot /\ open.task = snap.task /\ open.held = snap.held /\ open.batch = NoBatch
      /\ s2 \in Snapshot
  BY FailBatchFacts DEF Types, Snapshot
<1>1. /\ snap.held = None /\ sched = NoBatch /\ mode = "up"
  BY IdleIsIdle DEF Safe, Reserved, Turns, Process
<1>2. \/ s2 = snap
      \/ s2 = open
      \/ /\ t \in Task /\ snap.task[t].state = "MERGE_READY" /\ SentBack(open, s2, t)
  BY FailBatchFacts DEF Members
<1> HIDE DEF open, s2, t
<1>3. /\ s2.held = None /\ Decodes(s2) /\ Steady(snap, s2)
      /\ \A u \in Task : \/ s2.task[u] = snap.task[u]
                         \/ snap.task[u].state = "MERGE_READY"
  <2>1. CASE s2 = snap \/ s2 = open
    <3>1. Decodes(s2)
      BY <1>0, <2>1 DEF Types, Decodes
    <3>2. s2.held = None /\ \A u \in Task : s2.task[u] = snap.task[u]
      BY <1>0, <1>1, <2>1
    <3> QED BY <3>1, <3>2 DEF Steady
  <2>2. CASE t \in Task /\ snap.task[t].state = "MERGE_READY" /\ SentBack(open, s2, t)
    <3>1. /\ Changes(open, s2, t) /\ Unlanded(s2.task[t])
          /\ s2.task[t].merge = snap.task[t].merge
          /\ s2.task[t].head \in {snap.task[t].head, snap.task[t].head + 1}
      BY <1>0, <2>2, BackUnlands
    <3>2. Steady(open, s2)
      BY <1>0, <2>2, <3>1, ChangesSteady DEF Unlanded, LandedIn
    <3>3. Decodes(s2) /\ s2.held = None
      BY <1>0, <1>1, <3>1 DEF Changes, Decodes
    <3> QED BY <1>0, <2>2, <3>1, <3>2, <3>3 DEF Steady, Changes
  <2> QED BY <1>2, <2>1, <2>2
<1>4. snap' = s2 /\ train' = Idle /\ UNCHANGED <<worker, sched, mode, main, health>>
  BY <1>3, MutateDone DEF Abandon, MutateInTrain, s2
<1>5. Process' /\ Turns'
  BY <1>1, <1>4 DEF Process, Turns
<1>6. Workers'
  BY <1>3, <1>4 DEF Safe, Workers, Busy
<1>7. Integration' /\ Verifications' /\ Reserved'
  BY <1>3, <1>4, IdleIsIdle DEF Integration, Verifications, Reserved, Serial, Post
<1>8. Landing'
  BY <1>3, <1>4, LandingKept DEF Safe
<1>9. Holds'
  BY <1>1, <1>3, <1>4, IdleIsIdle DEF Safe, Holds
<1> QED BY <1>5, <1>6, <1>7, <1>8, <1>9 DEF Safe

LEMMA BatchSafe ==
  ASSUME Types, Safe, CheckBatch \/ PublishBatch
  PROVE  Safe'
<1>0. train \in Train /\ train.pc \in {"batch", "candidate"} /\ UNCHANGED health /\ snap \in Snapshot
  BY DEF Types, TrainOK, CheckBatch, PublishBatch
<1>1. /\ snap.held = None /\ sched = NoBatch /\ mode = "up" /\ health # "bad"
      /\ \A t \in Task : worker[t] \in Busy => snap.task[t].state \in {"FIX", "SYNC_REQUIRED"}
  BY <1>0, IdleIsIdle DEF Safe, Reserved, Turns, Process, Workers, Holds
<1>2. CASE CheckBatch
  <2>1. CASE train' = Idle /\ UNCHANGED <<snap, mode, sched, worker>>
    <3>1. Workers' /\ Integration' /\ Verifications' /\ Reserved' /\ Holds'
      BY <1>0, <1>1, <2>1, IdleIsIdle
         DEF Safe, Workers, Integration, Verifications, Reserved, Holds, Serial, Post
    <3> QED BY <1>0, <1>2, <2>1, <3>1, TrainOnSafe, IdleIsIdle DEF CheckBatch
  <2>2. CASE train' = [train EXCEPT !.pc = "candidate"] /\ UNCHANGED <<snap, mode, sched, worker>>
    <3>1. train'.pc = "candidate"
      BY <1>0, <2>2 DEF Train
    <3>2. Workers' /\ Integration' /\ Verifications' /\ Reserved' /\ Holds'
      BY <1>0, <1>1, <2>2, <3>1
         DEF Safe, Workers, Integration, Verifications, Reserved, Holds, Serial, Post
    <3> QED BY <1>0, <1>2, <2>2, <3>2, TrainOnSafe, IdleIsIdle DEF CheckBatch
  <2>3. CASE Abandon
    BY <1>0, <1>2, <2>3, AbandonSafe DEF CheckBatch
  <2> QED BY <1>2, <2>1, <2>2, <2>3 DEF CheckBatch
<1>3. CASE PublishBatch
  <2> DEFINE group == Members(train.batch)
             r == [Idle EXCEPT !.pc = "post", !.task = First(group), !.todo = group]
  <2>1. CASE /\ Reservation /\ snap' = IntegratedBatch(snap) /\ Lands(group) /\ train' \in {r, Idle}
             /\ \A t \in group : snap.task[t].state = "MERGE_READY"
             /\ UNCHANGED <<mode, sched, worker>>
    <3>1. group \in SUBSET Task /\ First(group) \in group
      BY <2>1, ReservedMembers, FirstIsLeast
    <3>2. /\ snap'.batch = NoBatch /\ snap'.held = None
          /\ \A t \in Task \ group : snap'.task[t] = snap.task[t]
          /\ \A t \in group : Merged(snap.task[t], snap'.task[t], main.version + 1)
      BY <1>1, <2>1, IntegratedBatchFacts
    <3>3. r.pc = "post" /\ r.todo \union {r.task} = group
      BY <3>1 DEF Idle
    <3> HIDE DEF group, r
    <3>4. \A t \in group : ~LandedIn(snap.task[t])
      BY <2>1 DEF LandedIn
    <3>5. Process' /\ Turns'
      BY <1>1, <2>1 DEF Process, Turns
    <3>6. Workers'
      BY <1>1, <2>1, <3>2 DEF Safe, Workers, Busy
    <3>7. Integration' /\ Verifications' /\ Reserved' /\ Holds'
      BY <1>0, <1>1, <2>1, <3>2, <3>3, IdleIsIdle
         DEF Integration, Verifications, Reserved, Holds, Serial, Post, Merged
    <3>8. Landing'
      BY <2>1, <3>1, <3>2, <3>4, LandingGrows DEF Safe
    <3> QED BY <3>5, <3>6, <3>7, <3>8 DEF Safe
  <2>2. CASE Abandon /\ UNCHANGED main
    BY <1>0, <2>2, AbandonSafe
  <2> QED BY <1>3, <2>1, <2>2 DEF PublishBatch, BatchVerification, Lands
<1> QED BY <1>2, <1>3

-----------------------------------------------------------------------------
(* The merge goroutine: postVerify. *)

LEMMA NextPostFacts ==
  ASSUME Types, train.task \in Task
  PROVE  /\ NextPost.pc \in {"idle", "post"}
         /\ NextPost.pc = "post" =>
              NextPost.todo \union {NextPost.task} \subseteq train.todo \ {train.task}
<1> DEFINE rest == train.todo \ {train.task}
<1>1. rest \in SUBSET Task
  BY DEF Types, TrainOK, Train
<1>2. NextPost = IF rest = {} THEN Idle ELSE [Idle EXCEPT !.pc = "post", !.task = First(rest), !.todo = rest]
  BY DEF NextPost
<1> HIDE DEF rest
<1>3. rest # {} => First(rest) \in rest
  BY <1>1, FirstIsLeast
<1>4. NextPost.pc \in {"idle", "post"} /\ (NextPost.pc = "post" => NextPost.todo \union {NextPost.task} \subseteq rest)
  BY <1>2, <1>3 DEF Idle
<1> QED BY <1>4 DEF rest

(* What holds of the merge goroutine in postVerify. *)
LEMMA PostFacts ==
  ASSUME Types, Safe, train.pc \in Post
  PROVE  /\ train.task \in Task /\ snap.task[train.task].state = "POST_VERIFY"
         /\ snap.batch = NoBatch /\ sched = NoBatch /\ mode = "up" /\ train # Idle
         /\ \A t \in Task : worker[t] \in Busy => snap.task[t].state \in {"FIX", "SYNC_REQUIRED"}
BY TrainTask, IdleIsIdle DEF Safe, Verifications, Reserved, Turns, Process, Workers, Post

(* The verification of a task ends, and the next one begins. *)
LEMMA PostEndSafe ==
  ASSUME Types, Safe, train.pc \in Post, NEW s2, NEW state, NEW h,
         Rehold(snap, s2, train.task, state, h), MutateInTrain(s2, NextPost), UNCHANGED main,
         \/ h = None
         \/ h = train.task /\ state = "BLOCKED_HUMAN"
         \/ h = snap.held /\ h # train.task,
         health' = "bad" => h # None
  PROVE  Safe'
<1> DEFINE t == train.task
<1>0. /\ t \in Task /\ snap.task[t].state = "POST_VERIFY" /\ snap.batch = NoBatch
      /\ sched = NoBatch /\ mode = "up" /\ snap \in Snapshot
      /\ \A u \in Task : worker[u] \in Busy => snap.task[u].state \in {"FIX", "SYNC_REQUIRED"}
  BY PostFacts DEF Types
<1>1. /\ s2 \in Snapshot /\ s2.held = h /\ s2.batch = NoBatch
      /\ \A u \in Task \ {t} : s2.task[u] = snap.task[u]
      /\ LandedIn(s2.task[t]) /\ s2.task[t].state = state
      /\ s2.task[t].merge = snap.task[t].merge /\ s2.task[t].head = snap.task[t].head
  BY <1>0 DEF Rehold, StaysLanded, LandedIn
<1>2. snap' = s2 /\ train' = NextPost /\ UNCHANGED <<worker, sched, mode>>
  BY <1>1, MutateDone DEF MutateInTrain, Decodes
<1>3. /\ NextPost.pc \in {"idle", "post"}
      /\ NextPost.pc = "post" => NextPost.todo \union {NextPost.task} \subseteq train.todo \ {t}
  BY <1>0, NextPostFacts
<1>4. Process' /\ Turns'
  BY <1>0, <1>2 DEF Process, Turns
<1>5. Workers'
  BY <1>0, <1>1, <1>2 DEF Safe, Workers, Busy
<1>6. Verifications'
  <2>1. \A u \in train.todo : u \in Task /\ snap.task[u].state = "POST_VERIFY"
    BY DEF Safe, Verifications, Types, TrainOK, Train
  <2> QED BY <1>1, <1>2, <1>3, <2>1 DEF Verifications, Post
<1>7. Integration' /\ Reserved'
  BY <1>1, <1>2, <1>3 DEF Integration, Reserved, Serial
<1>8. Landing'
  <2>1. LandedIn(snap.task[t])
    BY <1>0 DEF LandedIn
  <2>2. Steady(snap, s2)
    BY <1>0, <1>1, <2>1 DEF Steady
  <2> QED BY <1>2, <2>2, LandingKept DEF Safe
<1>9. Holds'
  <2>1. h # None => LandedIn(s2.task[h]) /\ s2.task[h].state # "DONE"
    BY <1>0, <1>1 DEF Safe, Holds, Snapshot
  <2> QED BY <1>1, <1>2, <1>3, <2>1 DEF Holds
<1> QED BY <1>4, <1>5, <1>6, <1>7, <1>8, <1>9 DEF Safe

(* The verification goes on with another step of it. *)
LEMMA PostOnSafe ==
  ASSUME Types, Safe, train.pc \in Post \/ (train.pc = "gate" /\ snap.task[train.task].state = "POST_VERIFY"),
         UNCHANGED <<snap, mode, sched, worker, main>>,
         train'.pc \in Post, train'.task = train.task, train'.todo = train.todo,
         Holds'
  PROVE  Safe'
<1>1. /\ train # Idle /\ snap.batch = NoBatch
      /\ \A u \in train.todo \union {train.task} : snap.task[u].state = "POST_VERIFY"
      /\ train.pc # "review"
  BY IdleIsIdle DEF Safe, Reserved, Verifications, Integration, Post, Serial
<1>2. Workers'
  BY <1>1 DEF Safe, Workers, Busy
<1>3. Integration' /\ Verifications' /\ Reserved'
  BY <1>1 DEF Integration, Verifications, Reserved, Serial, Post
<1> QED BY <1>1, <1>2, <1>3, TrainOnSafe

LEMMA PostSafe ==
  ASSUME Types, Safe, Resume \/ PostVerify \/ PostChecks \/ RecoveryQA \/ Finish \/ ScratchRemains
  PROVE  Safe'
<1> DEFINE t == train.task
           old == snap.task[t]
<1>0. t \in Task /\ snap \in Snapshot /\ train \in Train
  BY TrainTask DEF Types, TrainOK, Resume, PostVerify, PostChecks, RecoveryQA, Finish, ScratchRemains
<1>b. Rehold(snap, Blocked(snap, t, "POST_VERIFY"), t, "BLOCKED_HUMAN", snap.held)
  BY <1>0, BlockedHeld DEF Snapshot
<1>h. health = "bad" => snap.held # None
  BY DEF Safe, Holds
<1>1. CASE Resume
  <2>1. train'.pc = "post" /\ train'.task = t /\ train'.todo = train.todo
    BY <1>0, <1>1 DEF Resume, Train
  <2>2. Holds'
    BY <1>1, <2>1 DEF Resume, Safe, Holds
  <2> QED BY <1>1, <2>1, <2>2, PostOnSafe DEF Resume, Post
<1>2. CASE PostVerify
  <2>1. CASE MutateInTrain(Blocked(snap, t, "POST_VERIFY"), NextPost)
    BY <1>2, <1>b, <1>h, <2>1, PostEndSafe DEF PostVerify, Post
  <2>2. CASE \E pc \in {"finish", "postchecks"} : \E b, n :
               /\ train' = [train EXCEPT !.pc = pc, !.recovering = b, !.base = n]
               /\ pc = "finish" => snap.held # t
               /\ UNCHANGED <<snap, mode, sched, worker>>
    <3>1. /\ train'.pc \in {"finish", "postchecks"} /\ train'.task = t /\ train'.todo = train.todo
          /\ train'.pc = "finish" => snap.held # t
          /\ UNCHANGED <<snap, mode, sched, worker>>
      BY <1>0, <2>2 DEF Train
    <3>2. Holds'
      BY <1>2, <3>1 DEF PostVerify, Safe, Holds
    <3> QED BY <1>2, <3>1, <3>2, PostOnSafe DEF PostVerify, Post
  <2> QED BY <1>2, <2>1, <2>2 DEF PostVerify
<1>3. CASE PostChecks
  <2>1. CASE health' = "bad" /\ MutateInTrain(Unhealthy(snap, t), NextPost)
    <3>1. Rehold(snap, Unhealthy(snap, t), t, "BLOCKED_HUMAN", t) /\ t # None
      BY <1>0, BlockedHeld, TaskAssumption DEF Unhealthy
    <3> QED BY <1>3, <2>1, <3>1, PostEndSafe DEF PostChecks, Post
  <2>2. CASE \E pc \in {"qa", "finish"} :
               /\ train' = [train EXCEPT !.pc = pc] /\ health' = "good"
               /\ UNCHANGED <<snap, mode, sched, worker>>
    <3>1. /\ train'.pc \in {"qa", "finish"} /\ train'.task = t /\ train'.todo = train.todo
      BY <1>0, <2>2 DEF Train
    <3>2. Holds'
      BY <2>2, <3>1 DEF Safe, Holds
    <3> QED BY <1>3, <2>2, <3>1, <3>2, PostOnSafe DEF PostChecks, Post
  <2> QED BY <1>3, <2>1, <2>2 DEF PostChecks
<1>4. CASE RecoveryQA
  <2>0. health' # "bad" /\ train.pc \in Post /\ UNCHANGED main
    BY <1>4 DEF RecoveryQA, Safe, Holds, Post
  <2>1. CASE MutateInTrain(Blocked(snap, t, "POST_VERIFY"), NextPost)
    BY <1>b, <2>0, <2>1, PostEndSafe
  <2>2. CASE MutateInTrain([Blocked(snap, t, "POST_VERIFY") EXCEPT !.task[t].recovery = TRUE,
                                                                 !.held = None], NextPost)
    BY <1>0, <2>0, <2>2, BlockedHeld, PostEndSafe
  <2>3. CASE train' = [train EXCEPT !.pc = "finish"] /\ UNCHANGED <<snap, mode, sched, worker>>
    <3>1. train'.pc = "finish" /\ train'.task = t /\ train'.todo = train.todo
      BY <1>0, <2>3 DEF Train
    <3>2. Holds'
      BY <1>4, <2>3, <3>1 DEF Safe, Holds, RecoveryQA
    <3> QED BY <2>0, <2>3, <3>1, <3>2, PostOnSafe DEF Post
  <2> QED BY <1>4, <2>1, <2>2, <2>3 DEF RecoveryQA
<1>5. CASE Finish
  <2>1. MutateInTrain(Finished(snap, t), NextPost)
    BY <1>5, PostFacts DEF Finish, Post
  <2>2. health = "bad" => snap.held \notin {None, t}
    BY <1>5 DEF Finish, Safe, Holds
  <2>3. PICK h : h = (IF snap.held = t THEN None ELSE snap.held)
    OBVIOUS
  <2>4. Rehold(snap, Finished(snap, t), t, "DONE", h)
    BY <1>0, <2>3, FinishedFacts
  <2> QED BY <1>5, <2>1, <2>2, <2>3, <2>4, PostEndSafe DEF Finish, Post
<1>6. CASE ScratchRemains
  <2>1. /\ train.pc \in Post /\ train' = NextPost
        /\ UNCHANGED <<snap, main, mode, sched, worker, health>>
    BY <1>6 DEF ScratchRemains, Post
  <2>2. /\ NextPost.pc \in {"idle", "post"}
        /\ NextPost.pc = "post" => NextPost.todo \union {NextPost.task} \subseteq train.todo \ {t}
    BY <1>0, NextPostFacts
  <2>3. Workers'
    BY <2>1, PostFacts DEF Safe, Workers, Busy
  <2>4. Integration' /\ Verifications' /\ Reserved' /\ Holds'
    BY <2>1, <2>2, PostFacts DEF Safe, Integration, Verifications, Reserved, Holds, Serial, Post
  <2> QED BY <2>1, <2>3, <2>4, PostFacts, TrainOnSafe
<1> QED BY <1>1, <1>2, <1>3, <1>4, <1>5, <1>6

-----------------------------------------------------------------------------
(* The lexically first group: the least of a nonempty set of groups of the *)
(* same size exists, so that Selection chooses one of them.                *)

LEMMA LessPrecedes ==
  ASSUME NEW g \in SUBSET Task, g # {}, NEW h \in SUBSET Task, h # {}, First(g) < First(h)
  PROVE  Precedes(g, h)
<1> DEFINE d == (g \ h) \union (h \ g)
<1>1. /\ First(g) \in g /\ First(g) \in Nat /\ First(h) \in Nat
      /\ \A u \in g : u \in Nat /\ First(g) <= u
      /\ \A u \in h : u \in Nat /\ First(h) <= u
  BY FirstIsLeast, TaskAssumption
<1>2. First(g) \notin h
  BY <1>1
<1>3. d \in SUBSET Task /\ First(g) \in d
  BY <1>1, <1>2
<1>4. First(d) \in d /\ First(d) <= First(g) /\ First(d) \in Nat
  BY <1>3, FirstIsLeast, TaskAssumption
<1>5. First(d) \notin h
  BY <1>1, <1>4
<1> QED BY <1>4, <1>5 DEF Precedes

LEMMA RestPrecedes ==
  ASSUME NEW g, NEW h, NEW m \in g \intersect h, Precedes(g \ {m}, h \ {m})
  PROVE  Precedes(g, h)
<1>1. ((g \ {m}) \ (h \ {m})) \union ((h \ {m}) \ (g \ {m})) = (g \ h) \union (h \ g)
  OBVIOUS
<1>2. g \ {m} = h \ {m} => g = h
  OBVIOUS
<1> QED BY <1>1, <1>2 DEF Precedes

(* The groups that begin with the least first task, without it. *)
Begin(G) == First({First(g) : g \in G})
Rests(G) == {g \ {Begin(G)} : g \in {g \in G : First(g) = Begin(G)}}
HasFirst(G) == \E g \in G : \A h \in G : Precedes(g, h)

LEMMA BeginIsLeast ==
  ASSUME NEW G \in SUBSET SUBSET Task, G # {}, {} \notin G
  PROVE  /\ \E g \in G : First(g) = Begin(G)
         /\ \A h \in G : Begin(G) <= First(h) /\ First(h) \in h
         /\ Begin(G) \in Nat /\ \A h \in G : First(h) \in Nat
<1> DEFINE F == {First(g) : g \in G}
<1>1. \A g \in G : First(g) \in g
  BY FirstIsLeast
<1>2. F \in SUBSET Task /\ F # {}
  BY <1>1
<1>3. First(F) \in F /\ \A x \in F : First(F) <= x
  BY <1>2, FirstIsLeast
<1>4. Begin(G) = First(F)
  BY DEF Begin
<1>5. \E g \in G : First(g) = First(F)
  BY <1>3
<1>6. \A g \in G : First(g) \in F
  OBVIOUS
<1> HIDE DEF F
<1>7. \A x \in F : x \in Nat
  BY <1>2, TaskAssumption
<1> QED BY <1>1, <1>3, <1>4, <1>5, <1>6, <1>7

LEMMA FirstGroup ==
  ASSUME NEW G \in SUBSET SUBSET Task, G # {}, {} \notin G, HasFirst(Rests(G))
  PROVE  HasFirst(G)
<1> DEFINE m == Begin(G)
<1>1. PICK r \in Rests(G) : \A h \in Rests(G) : Precedes(r, h)
  BY DEF HasFirst
<1>2. PICK g \in G : First(g) = m /\ r = g \ {m}
  BY <1>1 DEF Rests
<1>3. ASSUME NEW h \in G
      PROVE  Precedes(g, h)
  <2>1. /\ m <= First(h) /\ First(h) \in h /\ First(g) \in g /\ m \in Nat /\ First(h) \in Nat
    BY BeginIsLeast
  <2>2. CASE First(h) = m
    <3>1. h \ {m} \in Rests(G)
      BY <2>2 DEF Rests
    <3> HIDE DEF m
    <3> QED BY <1>1, <1>2, <2>1, <2>2, <3>1, RestPrecedes
  <2>3. CASE First(h) # m
    <3>1. First(g) < First(h)
      BY <1>2, <2>1, <2>3
    <3> QED BY <3>1, LessPrecedes
  <2> QED BY <2>2, <2>3
<1> QED BY <1>3 DEF HasFirst

(* Sets of groups of n tasks. *)
Sized(G, n) == G \in SUBSET SUBSET Task /\ G # {} /\ \A g \in G : Cardinality(g) = n

LEMMA RestsAreSmaller ==
  ASSUME NEW n \in Nat, NEW G, Sized(G, n + 1)
  PROVE  {} \notin G /\ Sized(Rests(G), n)
<1>1. G \in SUBSET SUBSET Task /\ G # {} /\ \A g \in G : Cardinality(g) = n + 1
  BY DEF Sized
<1>2. {} \notin G
  BY <1>1, FS_EmptySet
<1>3. /\ \E g \in G : First(g) = Begin(G)
      /\ \A h \in G : First(h) \in h
  BY <1>1, <1>2, BeginIsLeast
<1>4. ASSUME NEW g \in G, First(g) = Begin(G)
      PROVE  Cardinality(g \ {Begin(G)}) = n
  <2>1. IsFiniteSet(g)
    BY <1>1, FS_Subset, TaskAssumption
  <2>2. Cardinality(g \ {Begin(G)}) = Cardinality(g) - 1
    BY <1>3, <1>4, <2>1, FS_RemoveElement
  <2> QED BY <1>1, <2>2
<1>5. Rests(G) \in SUBSET SUBSET Task /\ Rests(G) # {}
  <2>1. Rests(G) # {}
    BY <1>3 DEF Rests
  <2>2. ASSUME NEW r \in Rests(G)
        PROVE  r \in SUBSET Task
    <3>1. PICK g \in G : r = g \ {Begin(G)}
      BY DEF Rests
    <3> QED BY <1>1, <3>1
  <2> QED BY <2>1, <2>2
<1>6. \A r \in Rests(G) : Cardinality(r) = n
  BY <1>4 DEF Rests
<1> QED BY <1>2, <1>5, <1>6 DEF Sized

LEMMA FirstGroupExists ==
  ASSUME NEW G, Sized(G, 2) \/ Sized(G, 3)
  PROVE  HasFirst(G)
<1>1. ASSUME NEW H, Sized(H, 1)
      PROVE  HasFirst(H)
  <2>1. Sized(H, 0 + 1)
    BY <1>1
  <2>2. {} \notin H /\ Sized(Rests(H), 0)
    BY <2>1, RestsAreSmaller
  <2>3. \A g \in Rests(H) : g = {}
    <3> SUFFICES ASSUME NEW g \in Rests(H) PROVE g = {}
      OBVIOUS
    <3>1. g \in SUBSET Task /\ Cardinality(g) = 0
      BY <2>2 DEF Sized
    <3>2. IsFiniteSet(g)
      BY <3>1, FS_Subset, TaskAssumption
    <3> QED BY <3>1, <3>2, FS_EmptySet
  <2>4. HasFirst(Rests(H))
    BY <2>2, <2>3 DEF Sized, HasFirst, Precedes
  <2> QED BY <1>1, <2>2, <2>4, FirstGroup DEF Sized
<1>2. ASSUME NEW H, Sized(H, 2)
      PROVE  HasFirst(H)
  <2>1. Sized(H, 1 + 1)
    BY <1>2
  <2>2. {} \notin H /\ Sized(Rests(H), 1)
    BY <2>1, RestsAreSmaller
  <2> QED BY <1>1, <1>2, <2>2, FirstGroup DEF Sized
<1>3. ASSUME NEW H, Sized(H, 3)
      PROVE  HasFirst(H)
  <2>1. Sized(H, 2 + 1)
    BY <1>3
  <2>2. {} \notin H /\ Sized(Rests(H), 2)
    BY <2>1, RestsAreSmaller
  <2> QED BY <1>2, <1>3, <2>2, FirstGroup DEF Sized
<1> QED BY <1>2, <1>3

(* What the scheduler selects can be reserved. *)
LEMMA SelectionIsValid ==
  ASSUME Types, \A t \in Task : snap.task[t].head # 0, Selection(snap) # NoBatch
  PROVE  Valid(snap, Selection(snap))
<1> DEFINE groups == IF Groups(snap, 3) # {} THEN Groups(snap, 3) ELSE Groups(snap, 2)
           chosen == CHOOSE g \in groups : \A h \in groups : Precedes(g, h)
           heads == [t \in Task |-> IF t \in chosen THEN snap.task[t].head ELSE 0]
           batch == [base |-> main.version, heads |-> heads]
<1>1. groups # {} /\ Selection(snap) = batch
  BY DEF Selection
<1>2. /\ \A g \in groups : /\ g \in SUBSET Task /\ g \in SUBSET Admissible(snap)
                           /\ Cardinality(g) \in {2, 3}
                           /\ \A t, u \in g : ~Conflict(t, u)
      /\ Sized(groups, 2) \/ Sized(groups, 3)
  BY <1>1 DEF Groups, Admissible, Sized
<1>3. HasFirst(groups)
  BY <1>2, FirstGroupExists
<1>4. chosen \in groups
  BY <1>3 DEF HasFirst
<1> HIDE DEF groups
<1>5. /\ chosen \in SUBSET Task /\ chosen \in SUBSET Admissible(snap)
      /\ Cardinality(chosen) \in {2, 3}
      /\ \A t, u \in chosen : ~Conflict(t, u)
  BY <1>2, <1>4
<1> HIDE DEF chosen
<1>6. Members(batch) = chosen
  BY <1>5 DEF Members
<1>7. \A t \in chosen : /\ Eligible(snap, t) /\ snap.task[t].base = batch.base
                        /\ snap.task[t].head = batch.heads[t]
  BY <1>5 DEF Admissible
<1>8. Cardinality(Members(batch)) \in 2..3
  BY <1>5, <1>6
<1> HIDE DEF batch
<1>9. Valid(snap, batch)
  BY <1>5, <1>6, <1>7, <1>8 DEF Valid
<1> QED BY <1>1, <1>9

(* The scheduler counts at least the members of a reservation, so that it  *)
(* does not turn to a single task while there is one.                      *)
LEMMA ReservationCounts ==
  ASSUME Types, NEW batch, Valid(snap, batch)
  PROVE  CandidateCount(snap) >= 2
<1> DEFINE C == {t \in LowRisk : snap.task[t].state = "MERGE_READY" /\ snap.task[t].evidence # NoEvidence}
<1>1. C \in SUBSET Task /\ IsFiniteSet(C)
  BY FS_Subset, TaskAssumption
<1>2. ASSUME NEW t \in Members(batch)
      PROVE  t \in C
  <2>1. t \in LowRisk /\ snap.task[t].state = "MERGE_READY" /\ Reviewed(snap, t) /\ t \in Task
    BY <1>2 DEF Valid, Eligible, Members
  <2>2. snap.task[t].base \in Nat /\ snap.task[t].head \in Nat
    BY <2>1 DEF Types, Snapshot, TaskRecord
  <2>3. snap.task[t].evidence \in [base : Nat, head : Nat]
    BY <2>1, <2>2 DEF Reviewed
  <2> QED BY <2>1, <2>3, TaskAssumption
<1>3. Members(batch) \in SUBSET C
  BY <1>2
<1>4. Cardinality(Members(batch)) <= Cardinality(C) /\ Cardinality(C) \in Nat
      /\ Cardinality(Members(batch)) \in 2..3
  BY <1>1, <1>3, FS_Subset, FS_CardinalityType DEF Valid
<1>5. Cardinality(C) >= 2
  BY <1>4
<1> QED BY <1>5 DEF CandidateCount

-----------------------------------------------------------------------------
(* The process and the scheduler. *)

LEMMA ProcessSafe ==
  ASSUME Types, Safe, Start \/ Crash \/ ForeignPush
  PROVE  Safe'
<1>0. snap \in Snapshot /\ Decodes(snap) /\ main \in Main
  BY DEF Types
<1>1. CASE Start
  <2>1. train = Idle /\ sched = NoBatch /\ \A t \in Task : worker[t] = "none"
    BY <1>1 DEF Start, Safe, Process
  <2>2. ASSUME NEW u \in Task
        PROVE  /\ \/ Recovered(snap).task[u] = snap.task[u]
                  \/ /\ snap.task[u].state = "MERGE_TRAIN"
                     /\ Recovered(snap).task[u].state = "SYNC_REQUIRED"
               /\ Recovered(snap).task[u].merge = snap.task[u].merge
               /\ Recovered(snap).task[u].head = snap.task[u].head
    <3>1. snap.task[u] \in TaskRecord
      BY <1>0 DEF Snapshot
    <3> DEFINE r == [snap.task[u] EXCEPT !.state = "SYNC_REQUIRED"]
    <3>2. /\ r.state = "SYNC_REQUIRED" /\ r.merge = snap.task[u].merge /\ r.head = snap.task[u].head
      BY <3>1 DEF TaskRecord
    <3> HIDE DEF r
    <3>3. Recovered(snap).task[u] = IF snap.task[u].state = "MERGE_TRAIN" THEN r ELSE snap.task[u]
      BY <1>0, RecoveredFacts DEF r
    <3> QED BY <3>2, <3>3
  <2>3. KeepsReady(snap, Recovered(snap)) /\ Recovered(snap).held = snap.held
        /\ Recovered(snap).batch = snap.batch
    BY <1>0, <2>2, RecoveredFacts DEF KeepsReady
  <2>4. snap' = Recovered(snap) /\ mode' = "up" /\ UNCHANGED <<main, sched, worker, train, health>>
    BY <1>0, <1>1, <2>3, DecodesKept DEF Start
  <2>5. Steady(snap, Recovered(snap))
    BY <2>2 DEF Steady, LandedIn
  <2>6. Process' /\ Turns' /\ Workers'
    BY <2>1, <2>4 DEF Process, Turns, Workers, Busy
  <2>7. Integration' /\ Verifications' /\ Reserved'
    BY <2>1, <2>3, <2>4, IdleIsIdle DEF Safe, Integration, Verifications, Reserved, Serial, Post
  <2>8. Landing'
    BY <2>4, <2>5, LandingKept DEF Safe
  <2>9. Holds'
    <3>1. snap.held # None => /\ snap.held \in Task
                              /\ Recovered(snap).task[snap.held] = snap.task[snap.held]
      BY <1>0, <2>2 DEF Safe, Holds, LandedIn, Snapshot
    <3> QED BY <2>1, <2>3, <2>4, <3>1, IdleIsIdle DEF Safe, Holds
  <2> QED BY <2>6, <2>7, <2>8, <2>9 DEF Safe
<1>2. CASE Crash
  <2>1. /\ mode' = "down" /\ sched' = NoBatch /\ train' = Idle /\ UNCHANGED <<snap, main, health>>
        /\ \A t \in Task : worker'[t] = "none"
    BY <1>2 DEF Crash, Halt
  <2>2. Process' /\ Turns' /\ Workers'
    BY <2>1 DEF Process, Turns, Workers, Busy
  <2>3. Integration' /\ Verifications' /\ Reserved'
    BY <2>1, IdleIsIdle DEF Safe, Integration, Verifications, Reserved, Serial, Post
  <2>4. Landing' /\ Holds'
    BY <2>1, IdleIsIdle DEF Safe, Landing, Holds
  <2> QED BY <2>2, <2>3, <2>4 DEF Safe
<1>3. CASE ForeignPush
  <2>1. main'.landed = main.landed
    BY <1>0, <1>3 DEF ForeignPush, Main
  <2> QED BY <1>3, <2>1, QuietSafe DEF ForeignPush
<1> QED BY <1>1, <1>2, <1>3

LEMMA LaunchSafe ==
  ASSUME Types, Safe, NEW t \in Task, Launch(t)
  PROVE  Safe'
<1>0. /\ sched = NoBatch /\ mode = "up" /\ worker \in [Task -> Worker]
      /\ worker[t] = "none" /\ ~(train.reserved /\ train.task = t)
      /\ snap.task[t].state \in {"FIX", "SYNC_REQUIRED"}
      /\ UNCHANGED <<snap, main, mode, sched, train, health>>
  BY DEF Launch, Ticking, Active, Types
<1>1. /\ worker'[t] \in {"verify", "implement"}
      /\ \A u \in Task \ {t} : worker'[u] = worker[u]
  BY <1>0 DEF Launch
<1>2. Process' /\ Turns'
  BY <1>0 DEF Process, Turns
<1>3. Workers'
  BY <1>0, <1>1 DEF Safe, Workers, Busy
<1>4. Integration'
  BY <1>0, <1>1, TrainTask DEF Safe, Integration, Mistaken, Integrating, Serial
<1>5. Verifications' /\ Reserved' /\ Holds'
  BY <1>0 DEF Safe, Verifications, Reserved, Holds
<1>6. Landing'
  BY <1>0 DEF Safe, Landing
<1> QED BY <1>2, <1>3, <1>4, <1>5, <1>6 DEF Safe

LEMMA AnswerSafe ==
  ASSUME Types, Safe, NEW t \in Task, Answer(t)
  PROVE  Safe'
<1> DEFINE old == snap.task[t]
<1>0. /\ sched = NoBatch /\ mode = "up" /\ snap \in Snapshot /\ Decodes(snap) /\ old \in TaskRecord
      /\ old.state = "BLOCKED_HUMAN" /\ UNCHANGED <<main, health>> /\ train \in Train
  BY DEF Answer, Ticking, Types, Snapshot, TrainOK
<1>1. PICK state \in State : state = old.resume /\ state \in ResumeState
  BY <1>0 DEF TaskRecord, ResumeState, State
<1> DEFINE s2 == Staged(snap, t, state)
<1>2. Changes(snap, s2, t) /\ Restated(old, s2.task[t], state, old.resume)
  BY <1>0, StagedFacts, StagedRestates
<1> HIDE DEF s2
<1>3. s2.batch = snap.batch /\ s2.held = snap.held
      /\ (\A u \in Task \ {t} : s2.task[u] = snap.task[u])
      /\ s2.task[t].state = state /\ s2.task[t].resume = old.resume
  BY <1>2 DEF Changes, Restated
<1>4. KeepsReady(snap, s2)
  BY <1>0, <1>3 DEF KeepsReady
<1>5. snap' = s2 /\ UNCHANGED <<worker, train, mode>> /\ sched' = NoBatch
  BY <1>0, <1>1, <1>3, <1>4, DecodesKept, MutateDone DEF Answer, s2
<1>6. LandedIn(s2.task[t]) <=> LandedIn(old)
  BY <1>0, <1>1, <1>3 DEF LandedIn, ResumeState
<1>7. Process' /\ Turns'
  BY <1>0, <1>5 DEF Process, Turns
<1>8. Workers'
  BY <1>0, <1>3, <1>5 DEF Safe, Workers, Busy
<1>9. Integration'
  <2> SUFFICES ASSUME train.pc \in Serial PROVE Integration'
    BY <1>5 DEF Integration
  <2>1. CASE train.task # t
    <3>1. train.task \in Task \ {t}
      BY <2>1, TrainTask DEF Serial
    <3>2. snap'.task[train.task] = snap.task[train.task] /\ snap'.held = snap.held
          /\ UNCHANGED <<worker, train, main>>
      BY <1>0, <1>3, <1>5, <3>1
    <3> QED BY <3>2 DEF Safe, Integration, Mistaken, Integrating
  <2>2. CASE train.task = t
    <3>1. train.pc = "review" /\ Unlanded(old) /\ train.todo = {} /\ snap.held = None /\ train.reserved
      BY <1>0, <2>2 DEF Safe, Integration, Mistaken, Integrating
    <3>2. Unlanded(s2.task[t])
      BY <1>1, <1>3, <1>6, <3>1 DEF Unlanded, LandedIn, ResumeState
    <3> QED BY <1>3, <1>5, <2>2, <3>1, <3>2 DEF Integration, Integrating
  <2> QED BY <2>1, <2>2
<1>10. Verifications'
  BY <1>0, <1>3, <1>5, TrainTask DEF Safe, Verifications, Post, Train
<1>11. Reserved'
  BY <1>3, <1>5 DEF Safe, Reserved
<1>12. Landing'
  <2>1. Steady(snap, s2)
    BY <1>2, <1>6, ChangesSteady DEF Restated
  <2> QED BY <1>0, <1>5, <2>1, LandingKept DEF Safe
<1>13. Holds'
  <2>1. snap.held # None => LandedIn(s2.task[snap.held]) /\ s2.task[snap.held].state # "DONE"
    BY <1>0, <1>1, <1>3, <1>6 DEF Safe, Holds, Snapshot, ResumeState
  <2> QED BY <1>0, <1>3, <1>5, <2>1 DEF Safe, Holds
<1> QED BY <1>7, <1>8, <1>9, <1>10, <1>11, <1>12, <1>13 DEF Safe

(* The idle merge goroutine begins with r. *)
LEMMA TrainBeginSafe ==
  ASSUME Types, Safe, train = Idle, mode = "up", sched = NoBatch, train'.pc # "review",
         UNCHANGED <<snap, main, mode, sched, worker, health>>,
         Integration', Reserved', train'.pc \notin Post
  PROVE  Safe'
<1>1. Process' /\ Turns'
  BY DEF Process, Turns
<1>2. Workers'
  BY IdleIsIdle DEF Safe, Workers, Busy
<1>3. Verifications' /\ Holds'
  BY DEF Safe, Verifications, Holds, Post
<1>4. Landing'
  BY DEF Safe, Landing
<1> QED BY <1>1, <1>2, <1>3, <1>4 DEF Safe

LEMMA SerialTrainIs ==
  ASSUME NEW t, NEW b
  PROVE  /\ SerialTrain(t, b).pc = "gate" /\ SerialTrain(t, b).task = t
         /\ SerialTrain(t, b).todo = {} /\ SerialTrain(t, b).reserved = b
BY DEF SerialTrain, Idle

LEMMA BatchTrainIs ==
  ASSUME NEW batch
  PROVE  BatchTrain(batch).pc = "batch"
BY DEF BatchTrain, Idle

LEMMA BatchesSafe ==
  ASSUME Types, Safe, SelectBatch \/ ReserveBatch
  PROVE  Safe'
<1>0. snap \in Snapshot /\ mode = "up" /\ train = Idle /\ snap.held = None /\ UNCHANGED <<main, health>>
  BY DEF Types, SelectBatch, ReserveBatch, BatchTurn, Ticking, Safe, Turns
<1>1. ASSUME NEW batch \in Batch
      PROVE  LET s2 == [snap EXCEPT !.batch = batch]
             IN s2.task = snap.task /\ s2.held = snap.held /\ s2.batch = batch
  BY <1>0 DEF Snapshot
<1>2. ASSUME NEW batch \in Batch, Decodes([snap EXCEPT !.batch = batch]), NEW r,
             r = Idle \/ r.pc = "batch", batch # NoBatch => r.pc = "batch",
             Mutate([snap EXCEPT !.batch = batch], worker, r, NoBatch)
      PROVE  Safe'
  <2>1. PICK s2 : s2 = [snap EXCEPT !.batch = batch]
    OBVIOUS
  <2>2. s2.task = snap.task /\ s2.held = None /\ s2.batch = batch
    BY <1>0, <1>1, <2>1
  <2>3. snap' = s2 /\ train' = r /\ sched' = NoBatch /\ UNCHANGED <<worker, mode>>
    BY <1>2, <2>1, MutateDone
  <2>4. r.pc \in {"idle", "batch"}
    BY <1>2, IdleIsIdle
  <2>5. Process' /\ Turns'
    BY <1>0, <2>3 DEF Process, Turns
  <2>6. Workers'
    BY <1>0, <2>2, <2>3, IdleIsIdle DEF Safe, Workers, Busy
  <2>7. Integration' /\ Verifications' /\ Reserved'
    BY <1>2, <2>2, <2>3, <2>4 DEF Integration, Verifications, Reserved, Serial, Post
  <2>8. Landing' /\ Holds'
    BY <1>0, <2>2, <2>3, <2>4 DEF Safe, Landing, Holds
  <2> QED BY <2>5, <2>6, <2>7, <2>8 DEF Safe
<1>3. CASE SelectBatch
  <2>1. sched = NoBatch
    BY <1>3 DEF SelectBatch, BatchTurn, Ticking
  <2>2. CASE /\ snap.batch = NoBatch /\ Selection(snap) # NoBatch /\ sched' = Selection(snap)
             /\ UNCHANGED <<snap, mode, worker, train>>
    <3>1. Valid(snap, Selection(snap))
      BY <2>2, SelectionIsValid DEF Safe, Landing
    <3>2. Valid(snap', sched')
      BY <2>2, <3>1
    <3>3. Process' /\ Turns'
      BY <1>0, <2>2, <3>2 DEF Process, Turns
    <3>4. Workers' /\ Integration' /\ Verifications' /\ Reserved' /\ Holds'
      BY <1>0, <2>2, IdleIsIdle
         DEF Safe, Workers, Integration, Verifications, Reserved, Holds, Serial, Post
    <3>5. Landing'
      BY <1>0, <2>2 DEF Safe, Landing
    <3> QED BY <3>3, <3>4, <3>5 DEF Safe
  <2>3. CASE train' = BatchTrain(snap.batch) /\ UNCHANGED <<snap, mode, worker, sched>>
    <3>1. train'.pc = "batch"
      BY <2>3, BatchTrainIs
    <3>2. Integration' /\ Reserved'
      BY <1>0, <2>3, <3>1 DEF Integration, Reserved, Serial
    <3> QED BY <1>0, <2>1, <2>3, <3>1, <3>2, TrainBeginSafe DEF Post
  <2>4. CASE MutateInTrain([snap EXCEPT !.batch = NoBatch], Idle)
    <3>1. NoBatch \in Batch
      BY DEF Batch
    <3>2. Decodes([snap EXCEPT !.batch = NoBatch])
      BY <1>1, <3>1 DEF Decodes
    <3> QED BY <1>2, <2>1, <2>4, <3>1, <3>2 DEF MutateInTrain
  <2> QED BY <1>3, <2>2, <2>3, <2>4 DEF SelectBatch
<1>4. CASE ReserveBatch
  <2>1. sched # NoBatch /\ sched \in Batch /\ Valid(snap, sched)
    BY <1>4 DEF ReserveBatch, Types, Safe, Turns
  <2>2. Decodes([snap EXCEPT !.batch = sched])
    <3>1. PICK s2 : s2 = [snap EXCEPT !.batch = sched]
      OBVIOUS
    <3>2. s2.task = snap.task /\ s2.batch = sched
      BY <1>1, <2>1, <3>1
    <3>3. KeepsReady(snap, s2)
      BY <3>2 DEF KeepsReady
    <3>4. Valid(s2, sched)
      BY <2>1, <3>3, ValidKept
    <3> QED BY <3>1, <3>2, <3>4 DEF Decodes
  <2> QED BY <1>2, <1>4, <2>1, <2>2, BatchTrainIs DEF ReserveBatch
<1> QED BY <1>3, <1>4

LEMMA LaunchMergeSafe ==
  ASSUME Types, Safe, LaunchHeld \/ \E t \in Task : LaunchSerial(t)
  PROVE  Safe'
<1>0. /\ train = Idle /\ mode = "up" /\ sched = NoBatch
      /\ UNCHANGED <<snap, main, mode, sched, worker, health>>
  BY DEF LaunchHeld, LaunchSerial, Ticking
<1>1. CASE LaunchHeld
  <2>0. /\ train' = SerialTrain(snap.held, FALSE)
        /\ snap.held # None /\ snap.task[snap.held].state = "POST_VERIFY"
    BY <1>1 DEF LaunchHeld
  <2>1. train'.pc = "gate" /\ train'.task = snap.held /\ train'.todo = {}
    BY <2>0 DEF SerialTrain, Idle
  <2>2. Integration' /\ Reserved'
    BY <1>0, <2>0, <2>1 DEF Safe, Integration, Reserved
  <2> QED BY <1>0, <2>1, <2>2, TrainBeginSafe DEF Post
<1>2. ASSUME NEW t \in Task, LaunchSerial(t)
      PROVE  Safe'
  <2>0. train' = SerialTrain(t, TRUE)
    BY <1>2 DEF LaunchSerial
  <2>1. /\ train'.pc = "gate" /\ train'.task = t /\ train'.todo = {} /\ train'.reserved
    BY <2>0, SerialTrainIs, Zenon
  <2>2. /\ worker[t] = "none" /\ worker \in [Task -> Worker]
        /\ \/ snap.task[t].state = "POST_VERIFY"
           \/ snap.task[t].state = "MERGE_READY" /\ snap.held = None
    BY <1>2 DEF LaunchSerial, SerialReady, Active, Types
  <2>3. snap.batch = NoBatch
    <3> SUFFICES ASSUME snap.batch # NoBatch PROVE FALSE
      OBVIOUS
    <3>1. Valid(snap, snap.batch) /\ snap.held = None
      BY DEF Types, Decodes, Safe, Reserved
    <3>2. BatchTurn
      BY <1>0, <3>1, ReservationCounts DEF BatchTurn, Ticking
    <3> QED BY <1>2, <3>2 DEF LaunchSerial
  <2>4. Integration' /\ Reserved'
    BY <1>0, <2>1, <2>2, <2>3 DEF Integration, Integrating, Reserved
  <2> QED BY <1>0, <2>1, <2>4, TrainBeginSafe DEF Post
<1> QED BY <1>1, <1>2

-----------------------------------------------------------------------------
LEMMA SafeStep == ASSUME ~UpdateMayFail PROVE Types /\ Safe /\ [Next]_vars => Safe'
<1> SUFFICES ASSUME Types, Safe, [Next]_vars PROVE Safe'
  OBVIOUS
<1>1. CASE UNCHANGED vars
  BY <1>1, QuietSafe DEF vars
<1>2. CASE Merging
  BY <1>2, SerialSafe, BatchSafe, PostSafe DEF Merging
<1>3. CASE Start \/ Crash \/ ForeignPush
  BY <1>3, ProcessSafe
<1>4. ASSUME NEW t \in Task, Launch(t) \/ Answer(t) \/ Working(t)
      PROVE  Safe'
  BY <1>4, LaunchSafe, AnswerSafe, WorkingSafe
<1>5. CASE MergeTick \/ ReserveBatch
  BY <1>5, BatchesSafe, LaunchMergeSafe DEF MergeTick
<1> QED BY <1>1, <1>2, <1>3, <1>4, <1>5 DEF Next

(* The inductive invariant: in every state workers, scheduler and merge    *)
(* goroutine keep out of each other's tasks, the snapshot tells what main  *)
(* received, and a failed main is held.                                    *)
THEOREM SafeHolds == ASSUME ~UpdateMayFail PROVE Spec => []Safe
<1>1. Init /\ [][Next]_vars /\ []Types => []Safe
  BY SafeInit, SafeStep, PTL
<1> QED BY <1>1, TypesHold, PTL DEF Spec

(* A hold names a task that has landed and waits for its verification or   *)
(* for the answer that leads back to it (HoldCanEnd).                      *)
THEOREM HoldsCanEnd == ASSUME ~UpdateMayFail PROVE Spec => []HoldCanEnd
<1>1. Types /\ Safe => HoldCanEnd
  BY DEF Types, Safe, Holds, Landing, LandedIn, HoldCanEnd, Snapshot
<1> QED BY <1>1, TypesHold, SafeHolds, PTL

(* No publication makes a snapshot that Decode refuses, and no task that   *)
(* is finished has lost its edge to DONE (NeverRefused).                   *)
THEOREM NoneRefused == ASSUME ~UpdateMayFail PROVE Spec => []NeverRefused
<1>1. Safe => NeverRefused
  BY DEF Safe, Process, NeverRefused
<1> QED BY <1>1, SafeHolds, PTL

(* Nothing is integrated on a main whose last check failed, or while one   *)
(* is held (NothingLandsOnBrokenMain, both kinds of train).                *)
THEOREM BrokenMainHolds == ASSUME ~UpdateMayFail PROVE Spec => NothingLandsOnBrokenMain
<1> DEFINE Good == main'.landed # main.landed => health = "good" /\ snap.held = None
<1>1. ASSUME Types, Safe, [Next]_vars PROVE Good
  <2> SUFFICES ASSUME main'.landed # main.landed PROVE health = "good" /\ snap.held = None
    OBVIOUS
  <2>1. train.pc \in {"checks", "candidate"}
    BY <1>1, Landings DEF PublishBatch
  <2>2. snap.held = None
    BY <1>1, <2>1 DEF Safe, Integration, Mistaken, Integrating, Reserved, Serial
  <2> QED BY <1>1, <2>2 DEF Safe, Holds, Types
<1>2. Types /\ Safe /\ [Next]_vars => [Good]_vars
  BY <1>1
<1> QED BY <1>2, TypesHold, SafeHolds, PTL DEF Spec, NothingLandsOnBrokenMain

-----------------------------------------------------------------------------
(* MergeTrain implements Deliveries. *)

Done(s) == {t \in Task : s.task[t].state = "DONE"}

(* No task becomes DONE, and none that is DONE becomes anything else. *)
KeepsDone(s, s2) ==
  \A u \in Task :
    s2.task[u] = s.task[u] \/ (s.task[u].state # "DONE" /\ s2.task[u].state # "DONE")

LEMMA BackKeepsDone ==
  ASSUME NEW s, NEW s2, NEW t, SentBack(s, s2, t), s.task[t].state # "DONE"
  PROVE  KeepsDone(s, s2)
BY DEF SentBack, Changes, WentBack, KeepsDone

LEMMA ReholdKeepsDone ==
  ASSUME NEW s, NEW s2, NEW t, NEW h, Rehold(s, s2, t, "BLOCKED_HUMAN", h), s.task[t].state # "DONE"
  PROVE  KeepsDone(s, s2)
BY DEF Rehold, KeepsDone

LEMMA MutateKeepsDone ==
  ASSUME NEW s, KeepsDone(snap, s), NEW w, NEW r, NEW b, Mutate(s, w, r, b)
  PROVE  KeepsDone(snap, snap')
BY DEF Mutate, KeepsDone

LEMMA WorkingKeepsDone ==
  ASSUME ~UpdateMayFail, Types, Safe, NEW t \in Task, Working(t)
  PROVE  KeepsDone(snap, snap')
<1>0. snap \in Snapshot /\ worker[t] # "retry"
      /\ (worker[t] \in Busy => snap.task[t].state # "DONE")
  BY DEF Types, Safe, Workers
<1>1. CASE Accept(t)
  <2> DEFINE s2 == [Staged(snap, t, "MERGE_READY") EXCEPT !.task[t].evidence =
                      [base |-> snap.task[t].base, head |-> snap.task[t].head]]
  <2>1. Changes(snap, s2, t) /\ s2.task[t].state = "MERGE_READY"
    BY <1>0, AcceptedFacts
  <2>2. worker[t] \in Busy /\ MutateInWorker(s2, t, "tail")
    BY <1>1 DEF Accept, Busy
  <2> HIDE DEF s2
  <2>3. KeepsDone(snap, s2)
    BY <1>0, <2>1, <2>2 DEF Changes, KeepsDone
  <2> QED BY <2>2, <2>3, MutateKeepsDone DEF MutateInWorker
<1>2. CASE MarkReady(t) \/ UpdateReturns(t)
  BY <1>2 DEF MarkReady, UpdateReturns, KeepsDone
<1>3. CASE Implement(t) \/ Synchronize(t) \/ Reject(t) \/ Retry(t)
  <2>1. worker[t] \in Busy
    BY <1>0, <1>3 DEF Implement, Synchronize, Reject, Retry, Busy
  <2>2. PICK s, pc : SentBack(snap, s, t) /\ MutateInWorker(s, t, pc)
    <3>1. CASE Implement(t)
      BY <1>0, <3>1, ImplementedBack DEF Implement
    <3>2. CASE Synchronize(t)
      BY <3>2, SynchronizeBack
    <3>3. CASE Reject(t) \/ Retry(t)
      BY <1>0, <3>3, FailuresBack DEF Reject, Retry
    <3> QED BY <1>3, <3>1, <3>2, <3>3
  <2> QED BY <1>0, <2>1, <2>2, BackKeepsDone, MutateKeepsDone DEF MutateInWorker
<1> QED BY <1>1, <1>2, <1>3 DEF Working

LEMMA SchedulerKeepsDone ==
  ASSUME Types, Safe, \/ Start \/ Crash \/ ForeignPush \/ MergeTick \/ ReserveBatch
                      \/ \E t \in Task : Launch(t) \/ Answer(t)
  PROVE  KeepsDone(snap, snap')
<1>0. snap \in Snapshot
  BY DEF Types
<1>1. CASE Start
  <2>1. ASSUME NEW u \in Task
        PROVE  \/ Recovered(snap).task[u] = snap.task[u]
               \/ /\ snap.task[u].state = "MERGE_TRAIN"
                  /\ Recovered(snap).task[u].state = "SYNC_REQUIRED"
    <3>1. snap.task[u] \in TaskRecord
      BY <1>0 DEF Snapshot
    <3>2. [snap.task[u] EXCEPT !.state = "SYNC_REQUIRED"].state = "SYNC_REQUIRED"
      BY <3>1 DEF TaskRecord
    <3> QED BY <1>0, <3>2, RecoveredFacts
  <2>2. KeepsDone(snap, Recovered(snap))
    BY <2>1 DEF KeepsDone
  <2> QED BY <1>1, <2>2 DEF Start, KeepsDone
<1>2. CASE Crash \/ ForeignPush \/ LaunchHeld \/ \E t \in Task : Launch(t) \/ LaunchSerial(t)
  BY <1>2 DEF Crash, ForeignPush, LaunchHeld, Launch, LaunchSerial, KeepsDone
<1>3. CASE SelectBatch \/ ReserveBatch
  <2>1. ASSUME NEW batch
        PROVE  KeepsDone(snap, [snap EXCEPT !.batch = batch])
    BY <1>0 DEF KeepsDone, Snapshot
  <2> QED BY <1>3, <2>1, MutateKeepsDone DEF SelectBatch, ReserveBatch, MutateInTrain, KeepsDone
<1>4. ASSUME NEW t \in Task, Answer(t)
      PROVE  KeepsDone(snap, snap')
  <2>1. snap.task[t].state = "BLOCKED_HUMAN" /\ snap.task[t] \in TaskRecord
    BY <1>0, <1>4 DEF Answer, Snapshot
  <2>2. PICK state \in State : state = snap.task[t].resume /\ state # "DONE"
    BY <2>1 DEF TaskRecord, ResumeState, State
  <2>3. /\ Changes(snap, Staged(snap, t, state), t)
        /\ Restated(snap.task[t], Staged(snap, t, state).task[t], state, snap.task[t].resume)
    BY <1>0, StagedFacts, StagedRestates
  <2>4. KeepsDone(snap, Staged(snap, t, state))
    BY <2>1, <2>2, <2>3 DEF Changes, Restated, KeepsDone
  <2> QED BY <1>4, <2>2, <2>4, MutateKeepsDone DEF Answer
<1> QED BY <1>1, <1>2, <1>3, <1>4 DEF MergeTick

LEMMA SerialKeepsDone ==
  ASSUME Types, Safe, Gate \/ Regate \/ ChecksFail \/ Publish \/ Settle
  PROVE  KeepsDone(snap, snap')
<1> DEFINE t == train.task
<1>0. t \in Task /\ snap \in Snapshot /\ snap.task[t] \in TaskRecord /\ snap.task[t].races + 1 \in Nat
  BY TrainTask DEF Types, TaskRecord, Gate, Regate, ChecksFail, Publish, Settle
<1>1. snap.task[t].state # "DONE"
  BY DEF Safe, Integration, Integrating, Mistaken, Unlanded, Serial, Gate, Regate, ChecksFail, Publish, Settle
<1>2. ASSUME NEW s, SentBack(snap, s, t), NEW r, MutateInTrain(s, r)
      PROVE  KeepsDone(snap, snap')
  BY <1>1, <1>2, BackKeepsDone, MutateKeepsDone DEF MutateInTrain
<1>3. ASSUME NEW s \in Failures(snap, t) \union Retries(snap, t) \union
                       {Staged(snap, t, "SYNC_REQUIRED"), Blocked(snap, t, "SYNC_REQUIRED")},
             NEW r, MutateInTrain(s, r)
      PROVE  KeepsDone(snap, snap')
  <2>1. SentBack(snap, s, t)
    BY <1>0, FailuresBack, Back
  <2> QED BY <1>2, <1>3, <2>1
<1>4. ASSUME Admit(t)
      PROVE  KeepsDone(snap, snap')
  <2>1. /\ Changes(snap, Staged(snap, t, "MERGE_TRAIN"), t)
        /\ Restated(snap.task[t], Staged(snap, t, "MERGE_TRAIN").task[t], "MERGE_TRAIN", snap.task[t].resume)
    BY <1>0, StagedFacts, StagedRestates DEF State
  <2>2. KeepsDone(snap, Staged(snap, t, "MERGE_TRAIN"))
    BY <1>1, <2>1 DEF Changes, Restated, KeepsDone
  <2> QED BY <1>3, <1>4, <2>2, MutateKeepsDone DEF Admit, MutateInTrain
<1>5. CASE UNCHANGED snap
  BY <1>5 DEF KeepsDone
<1>6. CASE Gate \/ Regate \/ ChecksFail
  BY <1>3, <1>4, <1>5, <1>6 DEF Gate, Regate, ChecksFail
<1>7. CASE Publish
  <2>1. KeepsDone(snap, Integrated(snap, {t}))
    BY <1>0, <1>1, IntegratedFacts DEF KeepsDone, Merged, Types
  <2> QED BY <1>5, <1>7, <2>1, MutateKeepsDone DEF Publish, MutateInTrain
<1>8. CASE Settle
  <2>1. LET raced == [snap EXCEPT !.task[t].races = snap.task[t].races + 1]
        IN SentBack(snap, Blocked(raced, t, "SYNC_REQUIRED"), t) /\ SentBack(snap, Invalidated(raced, t), t)
    BY <1>0, RacedBack
  <2> QED BY <1>2, <1>3, <1>8, <2>1 DEF Settle
<1> QED BY <1>6, <1>7, <1>8

LEMMA BatchKeepsDone ==
  ASSUME Types, Safe, CheckBatch \/ PublishBatch
  PROVE  KeepsDone(snap, snap')
<1>1. CASE UNCHANGED snap
  BY <1>1 DEF KeepsDone
<1>2. CASE Abandon
  <2> DEFINE t == First(Members(train.batch))
             open == [snap EXCEPT !.batch = NoBatch]
  <2>1. open.task = snap.task
    BY DEF Types, Snapshot
  <2>2. \/ FailBatch(snap) = snap \/ FailBatch(snap) = open
        \/ snap.task[t].state = "MERGE_READY" /\ SentBack(open, FailBatch(snap), t)
    BY FailBatchFacts
  <2> HIDE DEF t, open
  <2>3. ASSUME snap.task[t].state = "MERGE_READY", SentBack(open, FailBatch(snap), t)
        PROVE  KeepsDone(snap, FailBatch(snap))
    BY <2>1, <2>3, BackKeepsDone DEF KeepsDone
  <2>4. KeepsDone(snap, FailBatch(snap))
    BY <2>1, <2>2, <2>3 DEF KeepsDone
  <2> QED BY <1>2, <2>4, MutateKeepsDone DEF Abandon, MutateInTrain
<1>3. CASE /\ Reservation /\ snap' = IntegratedBatch(snap)
           /\ \A t \in Members(train.batch) : snap.task[t].state = "MERGE_READY"
  BY <1>3, IntegratedBatchFacts DEF KeepsDone, Merged
<1> QED BY <1>1, <1>2, <1>3 DEF CheckBatch, PublishBatch

LEMMA PostKeepsDone ==
  ASSUME Types, Safe, Resume \/ PostVerify \/ PostChecks \/ RecoveryQA \/ ScratchRemains
  PROVE  KeepsDone(snap, snap')
<1> DEFINE t == train.task
<1>0. t \in Task /\ snap \in Snapshot
  BY TrainTask DEF Types, Resume, PostVerify, PostChecks, RecoveryQA, ScratchRemains
<1>1. snap.task[t].state = "POST_VERIFY"
  BY PostFacts DEF Resume, PostVerify, PostChecks, RecoveryQA, ScratchRemains, Post
<1>2. ASSUME NEW s, NEW h, Rehold(snap, s, t, "BLOCKED_HUMAN", h), MutateInTrain(s, NextPost)
      PROVE  KeepsDone(snap, snap')
  BY <1>1, <1>2, ReholdKeepsDone, MutateKeepsDone DEF MutateInTrain
<1>3. CASE UNCHANGED snap
  BY <1>3 DEF KeepsDone
<1>4. CASE MutateInTrain(Blocked(snap, t, "POST_VERIFY"), NextPost)
  BY <1>0, <1>2, <1>4, BlockedHeld
<1>5. CASE MutateInTrain(Unhealthy(snap, t), NextPost)
  BY <1>0, <1>2, <1>5, BlockedHeld DEF Unhealthy
<1>6. CASE MutateInTrain([Blocked(snap, t, "POST_VERIFY") EXCEPT !.task[t].recovery = TRUE,
                                                                 !.held = None], NextPost)
  BY <1>0, <1>2, <1>6, BlockedHeld
<1> QED BY <1>3, <1>4, <1>5, <1>6 DEF Resume, PostVerify, PostChecks, RecoveryQA, ScratchRemains

LEMMA FinishStep ==
  ASSUME Types, Safe, Finish
  PROVE  /\ train.task \in Task /\ snap.task[train.task].state = "POST_VERIFY"
         /\ Done(snap') = Done(snap) \union {train.task} /\ UNCHANGED main
<1> DEFINE t == train.task
<1>1. t \in Task /\ snap.task[t].state = "POST_VERIFY" /\ snap \in Snapshot /\ snap.batch = NoBatch
  BY PostFacts DEF Finish, Post, Types
<1>2. PICK h : h = (IF snap.held = t THEN None ELSE snap.held)
  OBVIOUS
<1>3. Rehold(snap, Finished(snap, t), t, "DONE", h)
  BY <1>1, <1>2, FinishedFacts
<1>4. Decodes(Finished(snap, t))
  BY <1>1, <1>3 DEF Rehold, Decodes
<1>5. snap' = Finished(snap, t) /\ UNCHANGED main
  BY <1>1, <1>4, MutateDone DEF Finish, MutateInTrain
<1> QED BY <1>1, <1>3, <1>5 DEF Rehold, Done

(* Only the end of a post-merge verification makes a task DONE. *)
LEMMA DoneChanges ==
  ASSUME ~UpdateMayFail, Types, Safe, [Next]_vars
  PROVE  KeepsDone(snap, snap') \/ Finish
<1>1. CASE UNCHANGED vars
  BY <1>1 DEF vars, KeepsDone
<1>2. CASE Merging
  BY <1>2, SerialKeepsDone, BatchKeepsDone, PostKeepsDone DEF Merging
<1>3. CASE \/ Start \/ Crash \/ ForeignPush \/ MergeTick \/ ReserveBatch
           \/ \E t \in Task : Launch(t) \/ Answer(t) \/ Working(t)
  BY <1>3, SchedulerKeepsDone, WorkingKeepsDone
<1> QED BY <1>1, <1>2, <1>3 DEF Next

(* The tasks of a publication, none of which had landed in the snapshot. *)
LEMMA DeliveryStep ==
  ASSUME Types, Safe, main'.landed # main.landed, NEW group \in SUBSET Task,
         Lands(group), \A t \in group : ~LandedIn(snap.task[t]), Done(snap') = Done(snap)
  PROVE  group # {} /\ Delivered!Deliver(group)
<1>1. /\ main.landed \in [Task -> Nat] /\ main.missed \in [Task -> Nat]
  BY DEF Types, Main
<1>2. \A t \in group : main.landed[t] <= main.missed[t] /\ t \notin Done(snap)
  BY <1>1 DEF Safe, Landing, LandedIn, Done
<1>3. /\ main'.landed = Delivered!Counted(main.landed, group)
      /\ main'.missed \in {main.missed, Delivered!Counted(main.missed, group)}
  BY DEF Lands, Reported, Counted, Delivered!Counted
<1>4. group # {}
  <2>1. ASSUME group = {} PROVE main'.landed = main.landed
    <3>1. \A t \in Task : main.landed[t] + (IF t \in group THEN 1 ELSE 0) = main.landed[t]
      BY <1>1, <2>1
    <3>2. main'.landed = [t \in Task |-> main.landed[t]]
      BY <1>3, <3>1 DEF Delivered!Counted
    <3> QED BY <1>1, <3>2
  <2> QED BY <2>1
<1> QED BY <1>2, <1>3, <1>4 DEF Delivered!Deliver, Done

(* What is missed has landed. *)
LEMMA MissedLands ==
  ASSUME Types, [Next]_vars, main'.landed = main.landed
  PROVE  main'.missed = main.missed
<1>1. ASSUME NEW group \in SUBSET Task, group # {}, Lands(group) PROVE FALSE
  <2>1. PICK t \in Task : t \in group
    BY <1>1
  <2>2. main'.landed[t] = main.landed[t] + 1 /\ main.landed[t] \in Nat
    BY <1>1, <2>1, Landed DEF Types, Main
  <2> QED BY <2>2
<1>2. CASE Publish
  BY <1>1, <1>2, TrainTask DEF Publish, Lands
<1>3. CASE PublishBatch
  BY <1>1, <1>3, ReservedMembers DEF PublishBatch, Lands
<1>4. CASE ForeignPush
  BY <1>4 DEF ForeignPush, Types, Main
<1>5. \/ ForeignPush \/ Publish \/ PublishBatch \/ UNCHANGED main
  BY DEF Next, vars, Start, Crash, Launch, Answer, Working, Implement, Synchronize, Accept, Reject,
         MarkReady, UpdateReturns, Retry, MergeTick, SelectBatch, LaunchHeld, LaunchSerial, ReserveBatch,
         Merging, Gate, Regate, ChecksFail, Settle, CheckBatch, Resume, PostVerify, PostChecks,
         RecoveryQA, Finish, ScratchRemains
<1> QED BY <1>2, <1>3, <1>4, <1>5

LEMMA DeliveriesStep ==
  ASSUME ~UpdateMayFail, Types, Safe, [Next]_vars
  PROVE  [Delivered!Next]_(Delivered!vars)
<1>0. \A g \in (SUBSET Task) \ {{}} : Delivered!Deliver(g) => Delivered!Next
  BY DEF Delivered!Next
<1>f. \A t \in Task : Delivered!Finish(t) => Delivered!Next
  BY DEF Delivered!Next
<1>m. main'.landed = main.landed => main'.missed = main.missed
  BY MissedLands
<1>1. CASE main'.landed = main.landed
  <2>1. CASE KeepsDone(snap, snap')
    <3>1. {t \in Task : snap'.task[t].state = "DONE"} = {t \in Task : snap.task[t].state = "DONE"}
      BY <2>1 DEF KeepsDone
    <3> QED BY <1>1, <1>m, <3>1 DEF Delivered!vars
  <2>2. CASE Finish
    <3>1. PICK t \in Task : /\ snap.task[t].state = "POST_VERIFY"
                             /\ Done(snap') = Done(snap) \union {t}
      BY <2>2, FinishStep
    <3>2. main.landed[t] > 0
      BY <3>1 DEF Safe, Landing, LandedIn
    <3>3. Delivered!Finish(t)
      BY <1>1, <1>m, <3>1, <3>2 DEF Delivered!Finish, Done
    <3>4. Delivered!Next
      BY <1>f, <3>3, Zenon
    <3> QED BY <3>4
  <2> QED BY <2>1, <2>2, DoneChanges
<1>2. CASE main'.landed # main.landed
  <2>1. PICK group \in SUBSET Task :
          Lands(group) /\ \A t \in group : ~LandedIn(snap.task[t])
    <3>1. CASE /\ Lands({train.task}) /\ train.pc = "checks"
               /\ snap.task[train.task].state = "MERGE_TRAIN"
      BY <3>1, TrainTask DEF LandedIn
    <3>2. CASE Lands(Members(train.batch)) /\ Reservation
      <4>1. Valid(snap, train.batch) /\ Members(train.batch) \in SUBSET Task
        BY <3>2, ReservedMembers
      <4>2. \A t \in Members(train.batch) : ~LandedIn(snap.task[t])
        BY <4>1 DEF Valid, Eligible, LandedIn
      <4> QED BY <3>2, <4>1, <4>2
    <3> QED BY <1>2, <3>1, <3>2, Landings
  <2>2. ~Finish
    BY <1>2, FinishStep
  <2>3. Done(snap') = Done(snap)
    BY <2>2, DoneChanges DEF KeepsDone, Done
  <2>4. group \in (SUBSET Task) \ {{}} /\ Delivered!Deliver(group)
    BY <1>2, <2>1, <2>3, DeliveryStep
  <2> QED BY <1>0, <2>4
<1> QED BY <1>1, <1>2

LEMMA DeliveriesInit == Init => Delivered!Init
<1> SUFFICES ASSUME Init PROVE Delivered!Init
  OBVIOUS
<1>1. main.landed = [t \in Task |-> 0] /\ main.missed = [t \in Task |-> 0]
  BY DEF Init
<1>2. \A t \in Task : snap.task[t].state \in {"MERGE_READY", "SYNC_REQUIRED"}
  BY DEF Init
<1> QED BY <1>1, <1>2 DEF Delivered!Init

(* Every task reaches main once, alone or with others, whatever is         *)
(* restarted, retried or answered, and again only for each time that the   *)
(* supervisor was told it did not (a local save that failed); it is DONE   *)
(* only after it did: the merge train implements Deliveries                *)
(* (DeliveriesSpec).                                                       *)
THEOREM Implements == ASSUME ~UpdateMayFail PROVE Spec => DeliveriesSpec
<1>1. Types /\ Safe /\ [Next]_vars => [Delivered!Next]_(Delivered!vars)
  BY DeliveriesStep
<1> QED BY <1>1, DeliveriesInit, TypesHold, SafeHolds, PTL DEF Spec, DeliveriesSpec, Delivered!Spec
=============================================================================
