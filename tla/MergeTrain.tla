----------------------------- MODULE MergeTrain -----------------------------
(***************************************************************************)
(* The merge train of one supervisor: internal/engine/integration.go,      *)
(* batch_integration.go and batch_admission.go, with the part of Serve     *)
(* that starts workers and the merge goroutine, the end of a worker's      *)
(* verifyReview, answers of the operator, crashes and recoverSnapshot.     *)
(*                                                                         *)
(* Workers, the merge goroutine and the scheduler interleave between their *)
(* publications.  A publication is one step here: that it is atomic, and   *)
(* that only one supervisor publishes, is what ControllerLease is about.   *)
(*                                                                         *)
(* A task that is in preparation is in "FIX" (PLANNED, READY, RUNNING and  *)
(* FIX) or "SYNC_REQUIRED" (IMPLEMENTED, SYNC_REQUIRED, VERIFYING and      *)
(* REVIEW), which recovery does not tell apart either.  Task names are     *)
(* numbers, so that < is the order of the IDs that the code sorts by.      *)
(***************************************************************************)
EXTENDS Integers, FiniteSets

CONSTANTS
  Task,           \* tasks, a set of numbers
  LowRisk,        \* tasks whose Risk is "low"
  Overlap,        \* pairs {t, u} whose areas, domains or paths overlap
  Prepared,       \* tasks that an earlier supervisor left MERGE_READY
  None,           \* no task
  NoBatch, NoEvidence,
  RaceLimit,      \* integration_races before the operator is asked (5)
  UpdateMayFail,  \* whether updatePR(id, false) may return an error to verifyReview
  MaxStarts,      \* bound: starts of the supervisor
  MaxForeign,     \* bound: pushes to main by others, or taken for such (see Reported)
  MaxRepairs      \* bound: answers of the operator and further implementations

ASSUME TaskAssumption ==
  /\ Task \subseteq Nat /\ IsFiniteSet(Task)
  /\ LowRisk \subseteq Task /\ Prepared \subseteq Task
  /\ Overlap \subseteq SUBSET Task
  /\ None \notin Task
  /\ NoEvidence \notin [base : Nat, head : Nat]

ASSUME LimitAssumption ==
  /\ RaceLimit \in Nat
  /\ UpdateMayFail \in BOOLEAN
  /\ MaxStarts \in Nat /\ MaxForeign \in Nat /\ MaxRepairs \in Nat

VARIABLES
  snap,      \* the published snapshot: its tasks, IntegrationBlocked and IntegrationBatch
  main,      \* main on the server: its version, how often it received each task, and how
             \* often the supervisor was told that it did not (a history)
  draft,     \* GitHub: pull requests that are drafts
  mode,      \* the supervisor's process: "down", "up", or "failed" by its own change
  sched,     \* the batch the scheduler selected and has not reserved yet
  worker,    \* the worker of a task: where it is in work()
  train,     \* the merge goroutine
  health,    \* history: the last native check of an integrated main
  used       \* starts, foreign pushes and repairs so far

vars == <<snap, main, draft, mode, sched, worker, train, health, used>>

State == {"FIX", "SYNC_REQUIRED", "MERGE_READY", "MERGE_TRAIN", "POST_VERIFY",
          "DONE", "BLOCKED_HUMAN"}

Idle == [pc |-> "idle", task |-> None, base |-> 0, head |-> 0, batch |-> NoBatch,
         todo |-> {}, recovering |-> FALSE, reserved |-> FALSE]

Init ==
  /\ snap = [task |-> [t \in Task |->
               [state |-> IF t \in Prepared THEN "MERGE_READY" ELSE "SYNC_REQUIRED",
                evidence |-> IF t \in Prepared THEN [base |-> 0, head |-> 1] ELSE NoEvidence,
                base |-> 0, head |-> 1, merge |-> 0, by |-> 0,
                resume |-> "SYNC_REQUIRED", races |-> 0, recovery |-> FALSE]],
             held |-> None, batch |-> NoBatch]
  /\ main = [version |-> 0, landed |-> [t \in Task |-> 0], missed |-> [t \in Task |-> 0]]
  /\ draft = Task \ Prepared
  /\ mode = "down"
  /\ sched = NoBatch
  /\ worker = [t \in Task |-> "none"]
  /\ train = Idle
  /\ health = "good"
  /\ used = [starts |-> 0, foreign |-> 0, repairs |-> 0]

-----------------------------------------------------------------------------
(* Snapshots and batches. *)

(* The members of a batch are the tasks with a recorded head. *)
Members(batch) == {t \in Task : batch.heads[t] # 0}
First(set) == CHOOSE t \in set : \A u \in set : t <= u

(* The evidence is of the head the task has, on the base it has. *)
Reviewed(s, t) ==
  s.task[t].evidence = [base |-> s.task[t].base, head |-> s.task[t].head]

Eligible(s, t) ==
  /\ s.task[t].state = "MERGE_READY"
  /\ t \in LowRisk
  /\ Reviewed(s, t)

NoConflict(t, u) == FALSE   \* mutant
(* Areas, domains or changed paths in common. *)
Conflict(t, u) == t # u /\ {t, u} \in Overlap

(* ValidateIntegrationBatch *)
Valid(s, batch) ==
  /\ Cardinality(Members(batch)) \in 2..3
  /\ \A t \in Members(batch) :
       /\ Eligible(s, t)
       /\ s.task[t].base = batch.base
       /\ s.task[t].head = batch.heads[t]
  /\ \A t, u \in Members(batch) : ~Conflict(t, u)

(* Decode: StateCommit refuses a snapshot whose reservation is not valid. *)
Decodes(s) == s.batch # NoBatch => Valid(s, s.batch)

Set(s, t, fields) == [s EXCEPT !.task[t] = fields]
Staged(s, t, state) == [s EXCEPT !.task[t].state = state]
BlockedInPlace(s, t, resume) ==   \* mutant: the task resumes where it is
  [s EXCEPT !.task[t].state = "BLOCKED_HUMAN", !.task[t].resume = s.task[t].state]
Blocked(s, t, resume) ==
  [s EXCEPT !.task[t].state = "BLOCKED_HUMAN", !.task[t].resume = resume]
Invalidated(s, t) ==
  [s EXCEPT !.task[t].state = "SYNC_REQUIRED", !.task[t].evidence = NoEvidence]

(* The process ends, and with it every goroutine. *)
Halt(how) ==
  /\ mode' = how
  /\ sched' = NoBatch
  /\ worker' = [t \in Task |-> "none"]
  /\ train' = Idle

(* mutate: publish the snapshot s; a change that Decode refuses stops the  *)
(* supervisor.  The caller then goes on as w, r and b say.                 *)
Mutate(s, w, r, b) ==
  \/ /\ Decodes(s)
     /\ snap' = s
     /\ worker' = w
     /\ train' = r
     /\ sched' = b
     /\ UNCHANGED mode
  \/ /\ ~Decodes(s)
     /\ Halt("failed")
     /\ UNCHANGED snap

MutateInTrain(s, r) == Mutate(s, worker, r, sched)
MutateInWorker(s, t, pc) == Mutate(s, [worker EXCEPT ![t] = pc], train, sched)

(* Where a failed verification leaves the task, whatever state it is in:   *)
(* retry and verificationFailure set the state without looking at it.      *)
Failures(s, t) ==
  {Staged(s, t, "FIX"), Blocked(s, t, "FIX"),
   Staged(s, t, "SYNC_REQUIRED"), Blocked(s, t, "SYNC_REQUIRED")}
Retries(s, t) == {Staged(s, t, "FIX"), Blocked(s, t, "FIX")}

-----------------------------------------------------------------------------
(* The process. *)

RecoveredAll(s) ==   \* mutant: interrupted post-merge work starts over
  [s EXCEPT !.task = [t \in Task |->
     [s.task[t] EXCEPT !.state =
        IF s.task[t].state \in {"MERGE_TRAIN", "POST_VERIFY"} THEN "SYNC_REQUIRED" ELSE @]]]

(* recoverSnapshot: a reservation stays, POST_VERIFY stays. *)
Recovered(s) ==
  [s EXCEPT !.task = [t \in Task |->
     [s.task[t] EXCEPT !.state =
        IF s.task[t].state = "MERGE_TRAIN" THEN "SYNC_REQUIRED" ELSE @]]]

Start ==
  /\ mode # "up"
  /\ used.starts < MaxStarts
  /\ used' = [used EXCEPT !.starts = used.starts + 1]
  /\ IF Decodes(Recovered(snap))
     THEN mode' = "up" /\ snap' = Recovered(snap)
     ELSE mode' = "failed" /\ UNCHANGED snap
  /\ UNCHANGED <<main, draft, sched, worker, train, health>>

(* A crash, a stop, or a failure of Git or the disk that ends in c.fail.   *)
Crash ==
  /\ mode = "up"
  /\ used.starts < MaxStarts
  /\ Halt("down")
  /\ UNCHANGED <<snap, main, draft, health, used>>

ForeignPush ==
  /\ used.foreign < MaxForeign
  /\ used' = [used EXCEPT !.foreign = used.foreign + 1]
  /\ main' = [main EXCEPT !.version = main.version + 1]
  /\ UNCHANGED <<snap, draft, mode, sched, worker, train, health>>

-----------------------------------------------------------------------------
(* The scheduler.  It is one goroutine: nothing else of it happens between *)
(* the selection of a batch and its reservation.                           *)
Ticking == mode = "up" /\ sched = NoBatch

(* The scheduler's active map: tasks with a worker, and the task of a      *)
(* serial integration (neither a held task's nor those of a batch).        *)
Active == {t \in Task : worker[t] # "none" \/ (train.reserved /\ train.task = t)}

Launch(t) ==
  /\ Ticking
  /\ t \notin Active
  /\ \/ /\ snap.task[t].state = "SYNC_REQUIRED"
        /\ worker' = [worker EXCEPT ![t] = "verify"]
        /\ UNCHANGED used
     \/ /\ snap.task[t].state = "FIX"
        /\ used.repairs < MaxRepairs
        /\ used' = [used EXCEPT !.repairs = used.repairs + 1]
        /\ worker' = [worker EXCEPT ![t] = "implement"]
  /\ UNCHANGED <<snap, main, draft, mode, sched, train, health>>

(* commands: an answer sends a blocked task to its resume state. *)
Answer(t) ==
  /\ Ticking
  /\ used.repairs < MaxRepairs
  /\ used' = [used EXCEPT !.repairs = used.repairs + 1]
  /\ snap.task[t].state = "BLOCKED_HUMAN"
  /\ Mutate(Staged(snap, t, snap.task[t].resume), worker, train, NoBatch)
  /\ UNCHANGED <<main, draft, health>>

(* Tasks that pass the checks of selectBatchAdmission. *)
Admissible(s) == {t \in Task : Eligible(s, t) /\ s.task[t].base = main.version}

Groups(s, size) ==
  {g \in SUBSET Admissible(s) :
     /\ Cardinality(g) = size
     /\ \A t, u \in g : ~Conflict(t, u)}

(* SelectIntegrationBatch: the lexically first triple, else the first pair. *)
Precedes(g, h) == g = h \/ First((g \ h) \union (h \ g)) \in g
Selection(s) ==
  LET groups == IF Groups(s, 3) # {} THEN Groups(s, 3) ELSE Groups(s, 2)
      chosen == CHOOSE g \in groups : \A h \in groups : Precedes(g, h)
  IN IF groups = {} THEN NoBatch
     ELSE [base |-> main.version, heads |-> [t \in Task |-> IF t \in chosen THEN s.task[t].head ELSE 0]]

CandidateCount(s) ==
  Cardinality({t \in LowRisk : s.task[t].state = "MERGE_READY" /\ s.task[t].evidence # NoEvidence})

(* batchReservationCurrent *)
StillCurrent(s, batch) == batch.base = main.version /\ Valid(s, batch)

BatchTurnUnheld == Ticking /\ train = Idle /\ CandidateCount(snap) >= 2   \* mutant
BatchTurn ==
  /\ Ticking
  /\ train = Idle
  /\ snap.held = None
  /\ CandidateCount(snap) >= 2

BatchTrain(batch) == [Idle EXCEPT !.pc = "batch", !.batch = batch]

(* reserveBatchIntegration, as far as it reads: a selection on a clone, or *)
(* a reservation that an earlier supervisor left, taken up or cleared.     *)
SelectBatch ==
  /\ BatchTurn
  /\ \/ /\ snap.batch = NoBatch
        /\ Selection(snap) # NoBatch
        /\ sched' = Selection(snap)
        /\ UNCHANGED <<snap, mode, worker, train>>
     \/ /\ snap.batch # NoBatch
        /\ StillCurrent(snap, snap.batch)
        /\ train' = BatchTrain(snap.batch)
        /\ UNCHANGED <<snap, mode, worker, sched>>
     \/ /\ snap.batch # NoBatch
        /\ ~StillCurrent(snap, snap.batch)
        /\ MutateInTrain([snap EXCEPT !.batch = NoBatch], Idle)
  /\ UNCHANGED <<main, draft, health, used>>

(* ReserveIntegrationBatch and the launch of integrateBatch. *)
ReserveBatch ==
  /\ mode = "up"
  /\ sched # NoBatch
  /\ Mutate([snap EXCEPT !.batch = sched], worker, BatchTrain(sched), NoBatch)
  /\ UNCHANGED <<main, draft, health, used>>

SerialTrain(t, reserved) ==
  [Idle EXCEPT !.pc = "gate", !.task = t, !.reserved = reserved]

(* A held task is verified before anything else. *)
LaunchHeld ==
  /\ Ticking
  /\ train = Idle
  /\ snap.held # None
  /\ snap.task[snap.held].state = "POST_VERIFY"
  /\ train' = SerialTrain(snap.held, FALSE)
  /\ UNCHANGED <<snap, main, draft, mode, sched, worker, health, used>>

SerialReady ==
  {t \in Task \ Active :
     \/ snap.task[t].state = "POST_VERIFY"
     \/ snap.task[t].state = "MERGE_READY" /\ snap.held = None}

LaunchSerial(t) ==
  /\ Ticking
  /\ train = Idle
  /\ BatchTurn => snap.batch = NoBatch /\ Selection(snap) = NoBatch
  /\ snap.held # None => snap.task[snap.held].state # "POST_VERIFY"
  /\ t \in SerialReady
  /\ t = First(SerialReady)
  /\ train' = SerialTrain(t, TRUE)
  /\ UNCHANGED <<snap, main, draft, mode, sched, worker, health, used>>

-----------------------------------------------------------------------------
(* A worker: implement, then verifyReview, which ends by updating the pull *)
(* request of a task that is MERGE_READY already.                          *)

Implement(t) ==
  /\ worker[t] = "implement"
  /\ MutateInWorker([Staged(snap, t, "SYNC_REQUIRED") EXCEPT
                      !.task[t].head = snap.task[t].head + 1], t, "verify")
  /\ UNCHANGED <<main, draft, health, used>>

(* syncTask merges the fetched main into the task, publishes the new head  *)
(* and drops evidence of another head or base; ensureDraftPR.              *)
Synchronize(t) ==
  /\ worker[t] = "verify"
  /\ LET old   == snap.task[t]
         moved == old.base # main.version
     IN MutateInWorker(
          Set(snap, t,
            [old EXCEPT !.state = "SYNC_REQUIRED",
                        !.base = main.version,
                        !.head = IF moved THEN old.head + 1 ELSE old.head,
                        !.evidence = IF moved \/ ~Reviewed(snap, t) THEN NoEvidence
                                     ELSE old.evidence]), t, "review")
  /\ draft' = draft \union {t}
  /\ UNCHANGED <<main, health, used>>

(* Checks and reviews passed. *)
Accept(t) ==
  /\ worker[t] = "review"
  /\ MutateInWorker([Staged(snap, t, "MERGE_READY") EXCEPT !.task[t].evidence =
       [base |-> snap.task[t].base, head |-> snap.task[t].head]], t, "tail")
  /\ UNCHANGED <<main, draft, health, used>>

(* An implementation that ended without a result, or a conflict, a failed  *)
(* check or a finding.                                                     *)
Reject(t) ==
  /\ \/ /\ worker[t] = "implement"
        /\ \E s \in Retries(snap, t) : MutateInWorker(s, t, "none")
     \/ /\ worker[t] \in {"verify", "review"}
        /\ \E s \in Failures(snap, t) : MutateInWorker(s, t, "none")
  /\ UNCHANGED <<main, draft, health, used>>

(* updatePR(id, false): GitHub marks the pull request ready, and then the  *)
(* call returns; or the call fails, whether it had its effect or not.      *)
MarkReady(t) ==
  /\ worker[t] = "tail"
  /\ draft' = draft \ {t}
  /\ UNCHANGED <<snap, main, mode, sched, worker, train, health, used>>

UpdateReturns(t) ==
  /\ worker[t] = "tail"
  /\ \/ t \notin draft /\ worker' = [worker EXCEPT ![t] = "none"]
     \/ UpdateMayFail /\ worker' = [worker EXCEPT ![t] = "retry"]
  /\ UNCHANGED <<snap, main, draft, mode, sched, train, health, used>>

(* handleVerificationError and retry, after the failed update. *)
Retry(t) ==
  /\ worker[t] = "retry"
  /\ \E s \in Retries(snap, t) : MutateInWorker(s, t, "none")
  /\ UNCHANGED <<main, draft, health, used>>

-----------------------------------------------------------------------------
(* integrate: one task after the other. *)

(* The tail of integrate's gate, with evidence for the fetched main: the   *)
(* scope, the pull request and the merge are checked, and the task enters  *)
(* MERGE_TRAIN.                                                            *)
Admit(t) ==
  \/ /\ t \notin draft
     /\ MutateInTrain(Staged(snap, t, "MERGE_TRAIN"),
          [train EXCEPT !.pc = "checks", !.base = main.version, !.head = snap.task[t].head])
     /\ UNCHANGED draft
  \/ /\ \E s \in Retries(snap, t) \union {Blocked(snap, t, "SYNC_REQUIRED")} :
          MutateInTrain(s, Idle)
     /\ draft' \in {draft, draft \union {t}}

GateUnchecked ==   \* mutant: the evidence is not compared with the fetched main
  /\ train.pc = "gate"
  /\ snap.task[train.task].state = "MERGE_READY"
  /\ Admit(train.task)
  /\ UNCHANGED <<main, health, used>>

(* A task whose evidence is of another main is verified again, in this     *)
(* goroutine; one whose dependencies or policy cannot be confirmed is not. *)
Gate ==
  /\ train.pc = "gate"
  /\ snap.task[train.task].state = "MERGE_READY"
  /\ LET t == train.task
         fresh == Reviewed(snap, t) /\ snap.task[t].base = main.version
     IN \/ fresh /\ Admit(t)
        \/ /\ ~fresh
           /\ worker' = [worker EXCEPT ![t] = "verify"]
           /\ train' = [train EXCEPT !.pc = "review"]
           /\ UNCHANGED <<snap, mode, sched, draft>>
        \/ /\ \E s \in {Staged(snap, t, "SYNC_REQUIRED"), Blocked(snap, t, "SYNC_REQUIRED")} :
                MutateInTrain(s, Idle)
           /\ draft' \in {draft, draft \union {t}}
  /\ UNCHANGED <<main, health, used>>

(* After that verification; main may have moved again. *)
Regate ==
  /\ train.pc = "review"
  /\ LET t == train.task
         ready == snap.task[t].state = "MERGE_READY"
         fresh == snap.task[t].base = main.version
     IN /\ worker[t] = "none"
        /\ \/ ready /\ fresh /\ Admit(t)
           \/ /\ ready /\ ~fresh
              /\ MutateInTrain(Staged(snap, t, "SYNC_REQUIRED"), Idle)
              /\ draft' \in {draft, draft \union {t}}
           \/ /\ ~ready
              /\ train' = Idle
              /\ UNCHANGED <<snap, mode, sched, worker, draft>>
  /\ UNCHANGED <<main, health, used>>

(* The merge of base and head failed its checks. *)
ChecksFail ==
  /\ train.pc = "checks"
  /\ \E s \in Failures(snap, train.task) : MutateInTrain(s, Idle)
  /\ UNCHANGED <<main, draft, health, used>>

Counted(count, group) == [t \in Task |-> count[t] + (IF t \in group THEN 1 ELSE 0)]

(* persist has published the merge of the group, and saves it in the local *)
(* database; the error of that save is what the caller gets, and takes for *)
(* a publication that failed.                                              *)
Reported(group, saved) ==
  /\ main' = [version |-> main.version + 1,
              landed  |-> Counted(main.landed, group),
              missed  |-> IF saved THEN main.missed ELSE Counted(main.missed, group)]
  /\ ~saved => used.foreign < MaxForeign
  /\ used' = [used EXCEPT !.foreign = IF saved THEN used.foreign ELSE used.foreign + 1]

(* The snapshot in which main is the merge of the group. *)
Integrated(s, group) ==
  [s EXCEPT !.task = [t \in Task |->
     IF t \notin group THEN s.task[t]
     ELSE [s.task[t] EXCEPT !.state = "POST_VERIFY", !.head = s.task[t].head + 1,
                            !.merge = main.version + 1, !.by = used.starts]]]

(* The checks passed: main, the task's ref and the snapshot move together, *)
(* or, when main moved or the push is refused, nothing does.               *)
Publish ==
  /\ train.pc = "checks"
  /\ LET t == train.task
     IN \/ /\ snap.task[t].state = "MERGE_TRAIN"
           /\ snap.task[t].head = train.head
           /\ snap.task[t].evidence # NoEvidence
           /\ main.version = train.base
           /\ \E saved \in BOOLEAN :
                /\ Reported({t}, saved)
                /\ MutateInTrain(Integrated(snap, {t}),
                     [train EXCEPT !.pc = IF saved THEN "post" ELSE "settle"])
        \/ /\ train' = [train EXCEPT !.pc = "settle"]
           /\ UNCHANGED <<snap, main, mode, sched, worker, used>>
  /\ UNCHANGED <<draft, health>>

(* integrate, after a failed publication: a race on main is counted and    *)
(* synchronized, everything else asks the operator.  Its own merge, whose  *)
(* save failed, is a race like any other.                                  *)
Settle ==
  /\ train.pc = "settle"
  /\ LET t == train.task
         raced == [snap EXCEPT !.task[t].races = snap.task[t].races + 1]
     IN \/ /\ main.version # train.base
           /\ \/ /\ raced.task[t].races > RaceLimit
                 /\ MutateInTrain(Blocked(raced, t, "SYNC_REQUIRED"), Idle)
              \/ /\ raced.task[t].races <= RaceLimit
                 /\ MutateInTrain(Invalidated(raced, t), Idle)
        \/ MutateInTrain(Blocked(snap, t, "SYNC_REQUIRED"), Idle)
  /\ draft' \in {draft, draft \union {train.task}}
  /\ UNCHANGED <<main, health, used>>

-----------------------------------------------------------------------------
(* integrateBatch: the members of the reservation together. *)

Reservation == snap.batch # NoBatch /\ snap.batch = train.batch

FailBatchRepeating(s) == s   \* mutant: the reservation is admitted again
FailBatchKeeping(s) ==       \* mutant: the reservation outlives its first member
  Invalidated(s, First(Members(train.batch)))

(* failBatch: the reservation ends, and its first member must refresh from *)
(* main before it is admitted again.                                       *)
FailBatch(s) ==
  LET t    == First(Members(train.batch))
      open == [s EXCEPT !.batch = NoBatch]
  IN IF s.batch = NoBatch \/ s.batch # train.batch THEN s
     ELSE IF s.task[t].state = "MERGE_READY" /\ s.task[t].head = train.batch.heads[t]
     THEN Invalidated(open, t)
     ELSE open

Abandon ==
  /\ MutateInTrain(FailBatch(snap), Idle)
  /\ draft' \in {draft, draft \union {First(Members(train.batch))}}

(* The reservation is validated again before the candidate is built. *)
CheckBatch ==
  /\ train.pc = "batch"
  /\ \/ /\ ~Reservation
        /\ train' = Idle
        /\ UNCHANGED <<snap, mode, sched, worker, draft>>
     \/ /\ Reservation
        /\ StillCurrent(snap, train.batch)
        /\ Members(train.batch) \cap draft = {}
        /\ train' = [train EXCEPT !.pc = "candidate"]
        /\ UNCHANGED <<snap, mode, sched, worker, draft>>
     \/ Reservation /\ Abandon
  /\ UNCHANGED <<main, health, used>>

IntegratedBatch(s) == [Integrated(s, Members(train.batch)) EXCEPT !.batch = NoBatch]

BatchVerification ==
  [Idle EXCEPT !.pc = "post", !.task = First(Members(train.batch)), !.todo = Members(train.batch)]

(* The combined tree failed, or publishBatch did; or main, every member's  *)
(* ref and the snapshot, without the reservation, move together.  When the *)
(* save fails, failBatch finds no reservation and leaves the members to    *)
(* later ticks.                                                            *)
PublishBatch ==
  /\ train.pc = "candidate"
  /\ \/ /\ Reservation
        /\ \A t \in Members(train.batch) :
             /\ snap.task[t].state = "MERGE_READY"
             /\ snap.task[t].head = train.batch.heads[t]
             /\ snap.task[t].evidence # NoEvidence
        /\ main.version = train.batch.base
        /\ snap' = IntegratedBatch(snap)
        /\ \E saved \in BOOLEAN :
             /\ Reported(Members(train.batch), saved)
             /\ train' = IF saved THEN BatchVerification ELSE Idle
        /\ UNCHANGED <<mode, sched, worker, draft>>
     \/ Abandon /\ UNCHANGED <<main, used>>
  /\ UNCHANGED health

-----------------------------------------------------------------------------
(* postVerify, called by integrate, by a later tick or for each member of  *)
(* a batch in turn.  train.base is the commit that is verified.            *)

NextPost ==
  LET rest == train.todo \ {train.task}
  IN IF rest = {} THEN Idle ELSE [Idle EXCEPT !.pc = "post", !.task = First(rest), !.todo = rest]

Resume ==
  /\ train.pc = "gate"
  /\ snap.task[train.task].state = "POST_VERIFY"
  /\ train' = [train EXCEPT !.pc = "post"]
  /\ UNCHANGED <<snap, main, draft, mode, sched, worker, health, used>>

(* What is verified: the recorded merge, or after a failure the present    *)
(* main, which must contain the merge.  Checks that this supervisor ran on *)
(* this very commit when it integrated it are not repeated.                *)
PostVerify ==
  /\ train.pc = "post"
  /\ LET t          == train.task
         old        == snap.task[t]
         recovering == old.recovery \/ snap.held = t
         reused     == ~recovering /\ main.version = old.merge /\ old.by = used.starts
     IN \/ /\ train' = [train EXCEPT !.pc = IF reused THEN "finish" ELSE "postchecks",
                                    !.recovering = recovering,
                                    !.base = IF recovering THEN main.version ELSE old.merge]
           /\ UNCHANGED <<snap, mode, sched, worker>>
        \/ /\ recovering /\ main.version # old.merge
           /\ MutateInTrain(Blocked(snap, t, "POST_VERIFY"), NextPost)
  /\ UNCHANGED <<main, draft, health, used>>

UnhealthyUnheld(s, t) ==   \* mutant: the train is not held
  [Blocked(s, t, "POST_VERIFY") EXCEPT !.task[t].recovery = TRUE]
Unhealthy(s, t) ==
  [Blocked(s, t, "POST_VERIFY") EXCEPT !.task[t].recovery = TRUE, !.held = t]

PostChecks ==
  /\ train.pc = "postchecks"
  /\ LET t == train.task
     IN \/ /\ health' = "bad"
           /\ MutateInTrain(Unhealthy(snap, t), NextPost)
        \/ /\ health' = "good"
           /\ train' = [train EXCEPT !.pc =
                IF train.recovering /\ train.base # snap.task[t].merge THEN "qa" ELSE "finish"]
           /\ UNCHANGED <<snap, mode, sched, worker>>
  /\ UNCHANGED <<main, draft, used>>

(* The acceptance of a repaired main: QA could not run, rejected or passed. *)
RecoveryQA ==
  /\ train.pc = "qa"
  /\ LET t == train.task
         rejected == [Blocked(snap, t, "POST_VERIFY") EXCEPT
                        !.task[t].recovery = TRUE, !.held = None]
     IN \/ MutateInTrain(Blocked(snap, t, "POST_VERIFY"), NextPost)
        \/ MutateInTrain(rejected, NextPost)
        \/ /\ train' = [train EXCEPT !.pc = "finish"]
           /\ UNCHANGED <<snap, mode, sched, worker>>
  /\ UNCHANGED <<main, draft, health, used>>

FinishedHolding(s, t) ==   \* mutant: the hold is not released
  [Staged(s, t, "DONE") EXCEPT !.task[t].recovery = FALSE]
Finished(s, t) ==
  [Staged(s, t, "DONE") EXCEPT !.task[t].recovery = FALSE,
                               !.held = IF s.held = t THEN None ELSE s.held]

(* DONE once the scratch is removed; a failed removal is left to the next  *)
(* pass.  A task that is not in POST_VERIFY any more has no edge to DONE.  *)
Finish ==
  /\ train.pc = "finish"
  /\ IF snap.task[train.task].state = "POST_VERIFY"
     THEN MutateInTrain(Finished(snap, train.task), NextPost)
     ELSE Halt("failed") /\ UNCHANGED snap
  /\ UNCHANGED <<main, draft, health, used>>

ScratchRemains ==
  /\ train.pc = "finish"
  /\ train' = NextPost
  /\ UNCHANGED <<snap, main, draft, mode, sched, worker, health, used>>

-----------------------------------------------------------------------------
(* What a tick does for the train when no merge is running. *)
MergeTick == SelectBatch \/ LaunchHeld \/ (\E t \in Task : LaunchSerial(t))

Working(t) ==
  Implement(t) \/ Synchronize(t) \/ Accept(t) \/ Reject(t) \/ MarkReady(t)
    \/ UpdateReturns(t) \/ Retry(t)

Merging ==
  Gate \/ Regate \/ ChecksFail \/ Publish \/ Settle \/ CheckBatch \/ PublishBatch
    \/ Resume \/ PostVerify \/ PostChecks \/ RecoveryQA \/ Finish \/ ScratchRemains

Next ==
  \/ Start \/ Crash \/ ForeignPush
  \/ \E t \in Task : Launch(t) \/ Answer(t) \/ Working(t)
  \/ MergeTick \/ ReserveBatch
  \/ Merging

Spec == Init /\ [][Next]_vars

(* The scheduler ticks, goroutines run, and a supervisor that stopped is   *)
(* started again.                                                          *)
FairSpec ==
  /\ Spec
  /\ WF_vars(Start) /\ WF_vars(MergeTick) /\ WF_vars(ReserveBatch) /\ WF_vars(Merging)

-----------------------------------------------------------------------------
Batch == {NoBatch} \union [base : Nat, heads : [Task -> Nat]]

TypeOK ==
  /\ snap \in [task : [Task ->
        [state : State, base : Nat, head : Nat, merge : Nat, by : Nat, races : Nat,
         evidence : [base : Nat, head : Nat] \union {NoEvidence},
         resume : {"FIX", "SYNC_REQUIRED", "POST_VERIFY"}, recovery : BOOLEAN]],
        held : Task \union {None}, batch : Batch]
  /\ main \in [version : Nat, landed : [Task -> Nat], missed : [Task -> Nat]]
  /\ draft \subseteq Task
  /\ mode \in {"down", "up", "failed"}
  /\ sched \in Batch
  /\ worker \in [Task -> {"none", "implement", "verify", "review", "tail", "retry"}]
  /\ train \in [pc : {"idle", "gate", "review", "checks", "settle", "batch", "candidate",
                     "post", "postchecks", "qa", "finish"},
                task : Task \union {None}, base : Nat, head : Nat, batch : Batch,
                todo : SUBSET Task, recovering : BOOLEAN, reserved : BOOLEAN]
  /\ health \in {"good", "bad"}
  /\ used \in [starts : Nat, foreign : Nat, repairs : Nat]

(* What reaches main was reviewed as it is: the evidence of every task     *)
(* that lands is of its head on the main it lands on, whoever pushed or    *)
(* synchronized since its reviews.                                         *)
LandsAsReviewed ==
  [][\A t \in Task : main'.landed[t] # main.landed[t] =>
       snap.task[t].evidence = [base |-> main.version, head |-> snap.task[t].head]]_vars

(* Every task reaches main once, whatever is restarted, retried or         *)
(* answered, and again only for each time that the supervisor was told it  *)
(* did not; it is DONE only after it did, and does not land afterwards.    *)
Delivered == INSTANCE Deliveries WITH
  landed <- main.landed, missed <- main.missed, finished <- {t \in Task : snap.task[t].state = "DONE"}
DeliveriesSpec == Delivered!Spec

(* Tasks that land in one transaction are low-risk and do not overlap, and *)
(* there are no more than three of them.                                   *)
TogetherIndependent ==
  [][LET group == {t \in Task : main'.landed[t] # main.landed[t]}
     IN Cardinality(group) > 1 =>
          /\ group \subseteq LowRisk
          /\ Cardinality(group) <= 3
          /\ \A t, u \in group : t # u => {t, u} \notin Overlap]_vars

(* While the last check of an integrated main failed, no further task is   *)
(* integrated on it: the hold spans ticks, restarts and both kinds of      *)
(* train, and is not lost when another member of the batch is verified.    *)
NothingLandsOnBrokenMain ==
  [][main'.landed # main.landed => health = "good" /\ snap.held = None]_vars

(* A hold can always be lifted: the task it names has landed and waits for *)
(* its post-merge verification, or for the answer that leads back to it.   *)
HoldCanEnd ==
  snap.held # None =>
    LET t == snap.task[snap.held]
    IN /\ t.merge # 0
       /\ t.state = "POST_VERIFY" \/ (t.state = "BLOCKED_HUMAN" /\ t.resume = "POST_VERIFY")

(* No worker, restart or train makes a snapshot whose reservation is not   *)
(* valid: Decode would refuse it and the supervisor would stop.            *)
NeverRefused == mode # "failed"

(* A reservation, which keeps other tasks from being integrated, ends.     *)
ReservationEnds == snap.batch # NoBatch ~> snap.batch = NoBatch

(* The edges of the life cycle after integration: POST_VERIFY leads to     *)
(* DONE and BLOCKED_HUMAN, and DONE is final.                              *)
IntegratedEdges ==
  [][\A t \in Task :
       /\ snap.task[t].state = "DONE" => snap'.task[t].state = "DONE"
       /\ snap.task[t].state = "POST_VERIFY" =>
            snap'.task[t].state \in {"POST_VERIFY", "DONE", "BLOCKED_HUMAN"}]_vars
=============================================================================
