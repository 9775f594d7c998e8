---------------------------- MODULE TaskLifecycle ----------------------------
(***************************************************************************)
(* The life of one task from READY to MERGE_READY under one supervisor:    *)
(* internal/engine/workflow.go (work, implement, retry, syncTask,          *)
(* verificationFailure, verifyReview), preflight.go, and the parts of      *)
(* controller.go that start its jobs, apply the operator's commands,       *)
(* recover and shut down.                                                  *)
(*                                                                         *)
(* A publication of the snapshot is one step.  Between two publications of *)
(* the task's job the operator's commands, pushes to main, a shutdown and  *)
(* a crash can happen.  Tasks meet only in Dispatch and MergeTrain.        *)
(***************************************************************************)
EXTENDS Advice, Functions, FiniteSetsExt

CONSTANTS
  Reviewers,         \* review roles every task needs; "qa" runs after the others
  Assignable,        \* review roles the operator may assign
  FixLimit,          \* policy: review_cycles, for every kind of retry but implementation
  RotationLimit,     \* checkpoints before the operator is asked (24)
  Scenarios          \* bound: how many events of each kind may come together

Outside == {"push", "guide", "answer", "assign", "end"}
Readers == PreRoles \union Reviewers \union Assignable

(* A security review may be reused over a change of plain text             *)
(* (review_reuse.go); tasks that need one are not modelled.                *)
ASSUME LifecycleAssumption ==
  /\ "security" \notin Reviewers \union Assignable
  /\ FixLimit \in Nat /\ RotationLimit \in Nat \ {0}
  /\ Scenarios \subseteq [Outside -> Nat]
  /\ None \notin Readers \union {"clean", "advice"}
  /\ None \notin [base : Nat, policy : Nat, atHead : BOOLEAN,
                   roster : SUBSET Readers, done : SUBSET Readers]

VARIABLES
  task,      \* the task in the published snapshot
  worker,    \* its job: where it is, and the values it read before
  up,        \* the supervisor runs
  main,      \* the revision of main
  used,      \* events from outside so far
  history    \* operator guidance that was acknowledged; what each role advised on

vars == <<task, worker, up, main, used, history>>

State == {"PLANNED", "READY", "RUNNING", "IMPLEMENTED", "SYNC_REQUIRED", "VERIFYING",
          "REVIEW", "FIX", "MERGE_READY", "MERGE_TRAIN", "POST_VERIFY", "DONE", "BLOCKED_HUMAN"}

Edges == [
  PLANNED       |-> {"READY", "BLOCKED_HUMAN"},
  READY         |-> {"RUNNING", "BLOCKED_HUMAN"},
  RUNNING       |-> {"IMPLEMENTED", "READY", "FIX", "BLOCKED_HUMAN"},
  IMPLEMENTED   |-> {"SYNC_REQUIRED", "BLOCKED_HUMAN"},
  SYNC_REQUIRED |-> {"VERIFYING", "FIX", "BLOCKED_HUMAN"},
  VERIFYING     |-> {"REVIEW", "FIX", "SYNC_REQUIRED", "BLOCKED_HUMAN"},
  REVIEW        |-> {"FIX", "MERGE_READY", "SYNC_REQUIRED", "BLOCKED_HUMAN"},
  FIX           |-> {"RUNNING", "BLOCKED_HUMAN"},
  MERGE_READY   |-> {"MERGE_TRAIN", "SYNC_REQUIRED", "BLOCKED_HUMAN"},
  MERGE_TRAIN   |-> {"POST_VERIFY", "SYNC_REQUIRED", "FIX", "BLOCKED_HUMAN"},
  POST_VERIFY   |-> {"DONE", "BLOCKED_HUMAN"},
  DONE          |-> {},
  BLOCKED_HUMAN |-> {"READY", "FIX", "SYNC_REQUIRED", "POST_VERIFY", "PLANNED"}]

Idle == [pc |-> "idle", base |-> 0, role |-> None, start |-> 0, given |-> {},
         result |-> None, kind |-> None, after |-> "idle", todo |-> {},
         reading |-> {}, got |-> [r \in Readers |-> None], attempt |-> 0]

Init ==
  /\ task = [state |-> "READY", base |-> 0, syncBase |-> None, attempts |-> 0,
             cycles |-> [k \in {"verification"} \union Reviewers \union Assignable |-> 0],
             rotations |-> 0, advisor |-> FALSE, blocker |-> None,
             verification |-> None, evidence |-> None, preflight |-> None,
             retries |-> [r \in Readers |-> None], guidance |-> <<>>, roles |-> {},
             spent |-> {}, reviewed |-> {}]
  /\ worker = Idle
  /\ up = TRUE
  /\ main = 0
  /\ used = [k \in Outside |-> 0]
  /\ history = [acked |-> {}, advised |-> [r \in PreRoles |-> None]]

-----------------------------------------------------------------------------
(* Changes of the task. *)

At(t, state) == [t EXCEPT !.state = state]

Block(t, resume, origin) ==
  [t EXCEPT !.state = "BLOCKED_HUMAN", !.blocker = [resume |-> resume, origin |-> origin]]

(* A step of the job: the task becomes t, the job goes on as w says. *)
Step(t, w) ==
  /\ task' = t
  /\ worker' = w
  /\ UNCHANGED <<up, main, used>>

Quiet(t, w) == Step(t, w) /\ UNCHANGED history
Go(pc) == [worker EXCEPT !.pc = pc]

(* retry(kind): a step of its own, since it reads the task and the policy  *)
(* before it changes them.  The job then goes on at after.                 *)
RetryNext(kind, after) == [Idle EXCEPT !.pc = "retry", !.kind = kind, !.after = after]
Back == [Idle EXCEPT !.pc = worker.after]

(* handleVerificationError of an error that has no case of its own. *)
VerifyError == RetryNext("verification", "idle")

Required(t) == Reviewers \union t.roles

-----------------------------------------------------------------------------
(* preflight: the readers advise before a writer is admitted. *)

(* Serve and selectPreflights *)
StartPreflight ==
  /\ up /\ worker.pc = "idle"
  /\ task.state \in {"READY", "FIX"}
  /\ task.preflight # None => task.preflight.phase # "ready"
  /\ Quiet(task, [Idle EXCEPT !.pc = "prepare"])

(* The worktree, a pending merge, and the record of the advice. *)
PreparePreflight ==
  /\ worker.pc = "prepare"
  /\ \/ LET reused == ReusePreflight(task, main, {"FIX"}, FALSE)
            t == CASE PreflightMatches(task, main) -> task
                   [] reused # task                -> reused
                   [] OTHER -> [task EXCEPT !.preflight = NewPreflight(task, main)]
        IN Quiet(t, [Idle EXCEPT !.pc = "ask", !.base = main])
     \/ Quiet(Block(task, "READY", ""), Idle)
     \/ task.syncBase # None /\ Quiet(Block(task, "FIX", ""), Idle)

(* The next role that has not advised; its request begins. *)
AskPreRole ==
  /\ worker.pc = "ask"
  /\ \/ /\ ~PreflightMatches(task, worker.base)
        /\ Quiet(task, Idle)
     \/ /\ PreflightMatches(task, worker.base)
        /\ \E r \in PreRoles \ task.preflight.completed :
             IF ReaderMayBegin(task, r, worker.base)
             THEN LET spending == IF Guard(task, r, worker.base) = 1
                                  THEN {<<r, Policy(worker.base)>>} ELSE {}
                      t == BeginReadOnlyAttempt(task, {r}, worker.base)
                  IN Quiet([t EXCEPT !.preflight.phase = "running", !.spent = @ \union spending],
                           [worker EXCEPT !.pc = "advising", !.role = r])
             ELSE Quiet(Block(task, "READY", "verification_only"), Idle)
     \/ /\ PreflightMatches(task, worker.base)
        /\ Complete(task.preflight)
        /\ Quiet([task EXCEPT !.preflight.phase = "ready"], Idle)

(* The role's answer counts while its preflight still matches. *)
Advised ==
  /\ worker.pc = "advising"
  /\ LET r == worker.role
         matches == PreflightMatches(task, worker.base)
     IN \/ /\ matches
           /\ Step([task EXCEPT !.preflight.completed = @ \union {r}, !.preflight.phase = "queued"],
                   [Idle EXCEPT !.pc = "ask", !.base = worker.base])
           /\ history' = [history EXCEPT !.advised[r] =
                            [base |-> worker.base, scope |-> PreflightScope(task, worker.base)]]
        \/ ~matches /\ Quiet(task, Idle)
        \* a question, a blocking concern, or evidence that cannot be had
        \/ matches /\ Quiet(Block(task, "READY", ""), Idle)
        \* the role failed
        \/ matches /\ Quiet(task, RetryNext("implementation", "idle"))
        \* the provider's login failed
        \/ matches /\ Quiet(Block(task, task.state, ""), Idle)
        \* the deadline passed
        \/ LET late == RecordReadOnlyDeadline(task, {r}, worker.base)
           IN IF ReaderMayRetry(task, r, worker.base)
              THEN Quiet(IF late.preflight = None THEN late
                         ELSE [late EXCEPT !.preflight.phase = "queued"], Idle)
              ELSE Quiet(IF matches THEN Block(late, "READY", "verification_only") ELSE late, Idle)

(* admitWriter: the scheduler fetches main and its policy.  Pushes, and    *)
(* guidance of other tasks, may arrive before it publishes.                *)
FetchForWriter ==
  /\ up /\ worker.pc = "idle"
  /\ task.state \in {"READY", "FIX"}
  /\ task.preflight # None /\ task.preflight.phase = "ready"
  /\ Quiet(task, [Idle EXCEPT !.pc = "admitting", !.base = main])

AdmitUnmatched ==   \* mutant: advice that was matched before the fetch counts
  /\ worker.pc = "admitting"
  /\ Quiet([At(task, "RUNNING") EXCEPT !.preflight.phase = "writing"],
           [Idle EXCEPT !.pc = "implement"])
(* The advice is compared with what was fetched, in the publication.       *)
AdmitWriter ==
  /\ worker.pc = "admitting"
  /\ IF PreflightMatches(task, worker.base) /\ Complete(task.preflight)
     THEN Quiet([At(task, "RUNNING") EXCEPT !.preflight.phase = "writing"],
                [Idle EXCEPT !.pc = "implement"])
     ELSE Quiet([task EXCEPT !.preflight = None], Idle)

(* The fetch failed: Serve drops the error and comes back.                 *)
AdmissionFails ==
  /\ worker.pc = "admitting"
  /\ Quiet(task, Idle)

-----------------------------------------------------------------------------
(* implement: one invocation of the implementer. *)

(* Policy, scope and a pending merge are in order; the prompt holds the    *)
(* guidance that is eligible now.                                          *)
CallImplementer ==
  /\ worker.pc = "implement"
  /\ \/ Quiet(task, [Idle EXCEPT !.pc = "calling", !.base = main,
                       !.start = Len(task.guidance),
                       !.given = Ids(EligibleGuidance(task, main))])
     \/ Quiet(Block(task, "READY", ""), Idle)
     \/ task.syncBase # None /\ Quiet(Block(task, "FIX", ""), Idle)

(* runWithCheckpoint: a worker that is active at the soft deadline gets one *)
(* pass more, with the same prompt, to end with a result.                  *)
CheckpointPass ==
  /\ worker.pc = "calling"
  /\ Quiet(task, Go("checkpointing"))

(* A structured result acknowledges the operator guidance in the prompt; a *)
(* call that failed does not.  "handoff" is the result that is made up of  *)
(* the worker's edits when the hard deadline ends the pass.                *)
Results == {"completed", "in_progress", "failed", "native", "blocked"}
ImplementerReturns ==
  /\ worker.pc \in {"calling", "checkpointing"}
  /\ \/ \E result \in Results \union (IF worker.pc = "checkpointing" THEN {"handoff"} ELSE {}) :
          /\ Step(MarkOperatorGuidanceDelivered(task, worker.given),
                  [worker EXCEPT !.pc = "checkpoint", !.result = result])
          /\ history' = [history EXCEPT !.acked = @ \union worker.given]
     \/ \E result \in {"error", "auth"} :
          Quiet(task, [worker EXCEPT !.pc = "checkpoint", !.result = result])

(* checkpointAtBase: the edits become the task's head, on the base it was  *)
(* merged with.                                                            *)
Checkpointed(t) ==
  [Moved(t) EXCEPT !.base = IF t.syncBase = None THEN @ ELSE t.syncBase,
                   !.syncBase = None, !.evidence = None]

(* recoveredCheckpoint keeps the evidence of the old head. *)
Recheckpointed(t) ==
  IF t.syncBase = None THEN Moved(t) ELSE Checkpointed(t)

(* The head after a checkpoint: a merge always makes a new one. *)
Heads(t) == {Checkpointed(t)} \union (IF t.syncBase = None THEN {t} ELSE {})

(* in_progress and handoff: another slice, without asking the readers again *)
(* when nothing they advised on has changed.                                *)
Rotated(t, base, findings) ==
  LET next == [t EXCEPT !.rotations = @ + 1]
      ready == At(next, "READY")
  IN IF next.rotations >= RotationLimit THEN Block(next, "READY", "")
     ELSE IF findings THEN ready
     ELSE ReusePreflight(ready, base, {"READY", "FIX"}, FALSE)

Checkpoint ==
  /\ worker.pc = "checkpoint"
  /\ \/ Quiet(Block(task, "READY", ""), Idle)
     \/ worker.result = "handoff" /\ \E t \in {task, Recheckpointed(task)}, findings \in BOOLEAN :
          Quiet(Rotated(t, main, findings), Idle)
     \/ worker.result = "auth" /\ \E t \in Heads(task) \union {task} :
          Quiet(t, Go("signed_out"))
     \/ worker.result \notin {"handoff", "auth"} /\ \E t \in Heads(task) : Quiet(t, Go("conclude"))

SignedOut ==
  /\ worker.pc = "signed_out"
  /\ Quiet(Block(task, "READY", ""), Idle)

NeverLate(t, start) == FALSE   \* mutant: late guidance is not looked for
Late(t, start) == Len(t.guidance) > start

NativeGuard(t) == [class |-> "", attempts |-> 0, atHead |-> TRUE, env |-> None, native |-> TRUE]

(* What the result means for the task.  Guidance that arrived during the   *)
(* call sends the task through one more invocation.                        *)
Conclude ==
  /\ worker.pc = "conclude"
  /\ \/ /\ worker.result \in {"completed", "native"}
        /\ IF Late(task, worker.start)
           THEN Quiet(At(CarryLateOperatorGuidance(task, worker.start), "READY"), Idle)
           ELSE Quiet([At(task, "IMPLEMENTED") EXCEPT
                         !.verification = IF worker.result = "native" THEN NativeGuard(task) ELSE @],
                      [Idle EXCEPT !.pc = "verify"])
     \/ /\ worker.result = "in_progress"
        /\ \E findings \in BOOLEAN : Quiet(Rotated(task, worker.base, findings), Idle)
     \/ /\ worker.result = "blocked"
        /\ Quiet(Block(task, "READY", ""), Idle)
     \/ /\ worker.result \in {"failed", "error"}
        /\ Quiet(task, RetryNext("implementation", "idle"))

-----------------------------------------------------------------------------
(* retry: a bounded return to FIX. *)

Count(t, kind) == IF kind = "implementation" THEN t.attempts ELSE t.cycles[kind]
LimitOf(kind) == IF kind = "implementation" THEN ReuseLimit ELSE FixLimit

UnchargedFix(t, kind) == ReusePreflight(At(t, "FIX"), main, {"FIX"}, FALSE)   \* mutant
ChargedFix(t, kind) ==
  ReusePreflight(IF kind = "implementation"
                 THEN [At(t, "FIX") EXCEPT !.attempts = @ + 1]
                 ELSE [At(t, "FIX") EXCEPT !.cycles[kind] = @ + 1],
                 main, {"FIX"}, FALSE)

Retry ==
  /\ worker.pc = "retry"
  /\ LET kind == worker.kind
         over == Count(task, kind) >= LimitOf(kind)
     IN \/ ~over /\ Quiet(ChargedFix(task, kind), Back)
        \/ over /\ ~task.advisor /\ Quiet([task EXCEPT !.advisor = TRUE], Go("advisor"))
        \/ over /\ task.advisor /\ Quiet(Block(task, "FIX", ""), Back)
        \* canonical policy cannot be read
        \/ Quiet(Block(task, "FIX", ""), Back)

(* The Advisor recommends one last approach, or the operator is asked. *)
AdvisorReturns ==
  /\ worker.pc = "advisor"
  /\ \E t \in {At(task, "FIX"), Block(task, "FIX", "")} : Quiet(t, Back)

-----------------------------------------------------------------------------
(* verifyReview: fresh main, native checks, reviews. *)

(* Serve: jobs for tasks beyond implementation. *)
LaunchVerification ==
  /\ up /\ worker.pc = "idle"
  /\ task.state \in {"IMPLEMENTED", "SYNC_REQUIRED", "VERIFYING", "REVIEW"}
  /\ Quiet(task, [Idle EXCEPT !.pc = "verify"])

(* A transient failure is checked again at the same head, without a merge. *)
ExactTransientRetry(t, base) ==
  /\ t.verification # None
  /\ t.verification.attempts = 1
  /\ t.verification.class # ""
  /\ t.verification.atHead
  /\ t.verification.env = Policy(base)

SyncTarget ==
  /\ worker.pc = "verify"
  /\ \/ Quiet(task, VerifyError)   \* main cannot be fetched
     \/ IF ExactTransientRetry(task, main)
        THEN Quiet(task, [Idle EXCEPT !.pc = "checks", !.base = main])
        ELSE IF task.syncBase \notin {None, main}
        THEN Quiet(task, VerifyError)
        ELSE Quiet([task EXCEPT !.syncBase = main], [Idle EXCEPT !.pc = "sync", !.base = main])

CurrentAnyHead(t, base) ==   \* mutant: the head is not compared
  /\ t.evidence # None
  /\ t.evidence.base = t.base
  /\ t.evidence.policy = Policy(base)
(* The evidence is of this head on the task's base, under base's policy. *)
Current(t, base) ==
  /\ t.evidence # None
  /\ t.evidence.atHead
  /\ t.evidence.base = t.base
  /\ t.evidence.policy = Policy(base)

(* The merge with main is published with its base; what was reviewed of    *)
(* exactly this head and base stays.                                       *)
SyncTask ==
  /\ worker.pc = "sync"
  /\ LET base == worker.base
         merged == IF task.base = base THEN task ELSE Moved(task)
     IN \/ Quiet([At(merged, "VERIFYING") EXCEPT !.base = base, !.syncBase = None,
                    !.evidence = IF task.base = base /\ Current(task, base) THEN @ ELSE None],
                 Go("checks"))
        \* a conflict, or the merge cannot be published
        \/ task.base # base /\ Quiet(task, VerifyError)
        \* the merge is out of the task's scope
        \/ Quiet(Block(task, "READY", ""), Idle)

RepeatedTransient(g, env) ==
  g # None /\ g.attempts > 0 /\ g.class # "" /\ g.atHead /\ g.env = env
RepeatedFailure(g, env) ==
  g # None /\ g.attempts > 0 /\ g.class = "" /\ g.atHead /\ g.env = env

Failed(t, class, attempts, native) ==
  [t EXCEPT !.verification =
     [class |-> class, attempts |-> attempts, atHead |-> TRUE, env |-> Policy(main), native |-> native]]

Native(g) == g # None /\ g.native

(* verificationFailure of a check that timed out, whose tool is missing,   *)
(* or that failed.  The repetition of an exact failure asks the operator.  *)
VerificationFailure(failure) ==
  LET g == task.verification
      env == Policy(main)
      attempts(repeated) == IF repeated THEN g.attempts + 1 ELSE 1
  IN \/ Quiet(Block(task, "SYNC_REQUIRED", ""), Idle)   \* policy cannot be read
     \/ /\ failure = "timeout"
        /\ LET repeated == RepeatedTransient(g, env)
               t == Failed(task, "timeout", attempts(repeated), Native(g))
           IN Quiet(IF repeated THEN Block(t, "SYNC_REQUIRED", "verification_only")
                    ELSE At(t, "SYNC_REQUIRED"), Idle)
     \/ /\ failure = "missing"
        /\ Quiet(Block(AdvancePreflightHead(Failed(task, "", attempts(RepeatedFailure(g, env)), TRUE)),
                       "SYNC_REQUIRED", "verification_only"), Idle)
     \/ /\ failure = "failed"
        /\ LET t == Failed(task, "", attempts(RepeatedFailure(g, env)), Native(g))
           IN IF RepeatedFailure(g, env) THEN Quiet(Block(t, "FIX", ""), Idle)
              ELSE Quiet(t, VerifyError)

(* Roles that need not run again for exactly this head, base and policy. *)
InProgressReviews(t, base) ==
  IF Current(t, base) /\ t.evidence.roster = Required(t)
  THEN t.evidence.done ELSE {}

Checks ==
  /\ worker.pc = "checks"
  /\ \/ LET done == InProgressReviews(task, worker.base)
            t == [At(task, "REVIEW") EXCEPT !.verification = None,
                    !.evidence = [base |-> task.base, policy |-> Policy(worker.base), atHead |-> TRUE,
                                  roster |-> Required(task), done |-> done],
                    !.reviewed = {v \in @ : v[1] \in done}]
        IN \/ Quiet(t, [Go("review") EXCEPT !.todo = Required(task) \ done, !.attempt = 1])
           \/ Quiet(t, VerifyError)   \* updatePR failed
     \/ \E failure \in {"timeout", "missing", "failed"} : VerificationFailure(failure)
     \/ Quiet(task, VerifyError)                     \* no changes, an unsafe diff, or no pull request
     \/ Quiet(Block(task, "READY", ""), Idle)        \* out of scope
     \/ Quiet(Block(task, "SYNC_REQUIRED", ""), Idle) \* visual capture is unavailable

(* reviewWaves: QA follows the other roles. *)
Wave(todo) == IF todo \subseteq {"qa"} THEN todo ELSE todo \ {"qa"}

BeginWave ==
  /\ worker.pc = "review"
  /\ worker.todo # {}
  /\ LET wave == Wave(worker.todo)
         reading == {r \in wave : ReaderMayBegin(task, r, worker.base)}
         spending == {<<r, Policy(worker.base)>> :
                        r \in {q \in reading : Guard(task, q, worker.base) = 1}}
     IN Quiet([BeginReadOnlyAttempt(task, reading, worker.base) EXCEPT !.spent = @ \union spending],
              [worker EXCEPT !.pc = "reading", !.reading = reading, !.todo = @ \ wave,
                 !.got = [r \in Readers |-> IF r \in wave \ reading THEN "exhausted" ELSE @[r]]])

(* "advice" is a completed review with findings that do not block. *)
Answers == {"clean", "advice", "finding", "human", "evidence", "error", "auth", "deadline"}
Failures == {"error", "auth", "deadline", "exhausted"}

With(got, outcome) == {r \in Readers : got[r] \in outcome}

(* The wave's answers; what is clean is published at once.  A failure, or  *)
(* a finding that the changed paths caused, keeps QA from running.         *)
EndWave ==
  /\ worker.pc = "reading"
  /\ \E answer \in [worker.reading -> Answers], causal \in BOOLEAN :
       LET late == {r \in worker.reading : answer[r] = "deadline"}
           got == [r \in Readers |->
                     IF r \notin worker.reading THEN worker.got[r]
                     ELSE IF answer[r] = "deadline" /\ ~ReaderMayRetry(task, r, worker.base)
                     THEN "exhausted" ELSE answer[r]]
           stops == With(got, Failures \union (IF causal THEN {"finding"} ELSE {})) # {}
           t == [RecordReadOnlyDeadline(task, late, worker.base) EXCEPT
                   !.evidence.done = @ \union {r \in worker.reading : answer[r] = "clean"},
                   !.reviewed = @ \union {<<r, Policy(worker.base)>> :
                     r \in {q \in worker.reading : answer[q] \in {"clean", "advice"}}}]
       IN \/ Quiet(t, [worker EXCEPT !.pc = IF stops \/ worker.todo = {} THEN "assess" ELSE "review",
                                     !.todo = IF stops THEN {} ELSE @,
                                     !.reading = {}, !.got = got])
          \/ Quiet(t, VerifyError)   \* refreshDraftPR failed

NothingToReview ==
  /\ worker.pc = "review"
  /\ worker.todo = {}
  /\ Quiet(task, Go("assess"))

(* assessReviews, and what verifyReview does with it: the first of an      *)
(* authentication failure, a finding, a question, a failure and a request  *)
(* for evidence that applies, unless the pull request cannot be refreshed. *)
Assess ==
  /\ worker.pc = "assess"
  /\ LET got == worker.got
         only(outcome, others) == With(got, outcome) # {} /\ With(got, others) = {}
     IN \/ /\ With(got, {"auth"}) # {}
           /\ Quiet(Block(task, "REVIEW", ""), Idle)
        \/ With(got, {"auth"}) = {} /\ Quiet(task, VerifyError)
        \/ /\ only({"finding"}, {"auth"})
           /\ \E r \in With(got, {"finding"}) : Quiet(task, RetryNext(r, "tail"))
        \/ /\ only({"human"}, {"auth", "finding"})
           /\ Quiet(Block(task, "SYNC_REQUIRED", ""), [Idle EXCEPT !.pc = "tail"])
        \/ /\ only({"error", "deadline", "exhausted"}, {"auth", "finding", "human"})
           /\ \/ With(got, {"error"}) # {} /\ Quiet(task, VerifyError)
              \/ With(got, {"deadline"}) # {} /\ Quiet(task, Idle)
              \/ /\ With(got, {"exhausted"}) # {}
                 /\ Quiet(Block(task, "SYNC_REQUIRED", "verification_only"), Idle)
        \/ /\ only({"evidence"}, Failures \union {"finding", "human"})
           /\ IF worker.attempt = 1 THEN Quiet(task, Go("refresh"))
              ELSE Quiet(task, RetryNext("verification", "tail"))
        \/ /\ With(got, Failures \union {"finding", "human", "evidence"}) = {}
           /\ Quiet([task EXCEPT !.evidence.done = @ \union With(got, {"clean", "advice"})],
                    [Idle EXCEPT !.pc = "accept", !.base = worker.base])

(* One refresh of the evidence for the roles that asked for it. *)
Refresh ==
  /\ worker.pc = "refresh"
  /\ \/ Quiet(task, [worker EXCEPT !.pc = "review", !.attempt = 2,
                       !.todo = With(worker.got, {"evidence"}),
                       !.got = [r \in Readers |-> IF @[r] = "evidence" THEN None ELSE @[r]]])
     \/ \E failure \in {"timeout", "missing", "failed"} : VerificationFailure(failure)
     \/ Quiet(Block(task, "SYNC_REQUIRED", ""), Idle)

(* Every required role has a disposition: the task is ready to merge.      *)
(* (Dependencies that are not complete send it to SYNC_REQUIRED: Dispatch.) *)
Accept ==
  /\ worker.pc = "accept"
  /\ IF Required(task) \subseteq task.evidence.done
     THEN \/ Quiet(At(task, "MERGE_READY"), Idle)
          \/ Quiet(At(task, "MERGE_READY"), VerifyError)   \* updatePR failed
     ELSE Quiet(task, VerifyError)

(* refreshDraftPR after the outcome is published: its error counts as an   *)
(* error of the verification, whatever the outcome was.                    *)
RefreshDraftPR ==
  /\ worker.pc = "tail"
  /\ \/ Quiet(task, Idle)
     \/ Quiet(task, [VerifyError EXCEPT !.result = "unrefreshed"])

(* integrate: a task that was reviewed on an older main is not merged. *)
Invalidate ==
  /\ up /\ worker.pc = "idle"
  /\ task.state = "MERGE_READY"
  /\ task.base # main
  /\ Quiet([At(task, "SYNC_REQUIRED") EXCEPT !.evidence = None], Idle)

-----------------------------------------------------------------------------
(* Events from outside. *)

Happens(kind) ==
  /\ used' = [used EXCEPT ![kind] = @ + 1]
  /\ \E bound \in Scenarios : \A k \in Outside : used'[k] <= bound[k]

Push ==
  /\ Happens("push")
  /\ main' = main + 1
  /\ UNCHANGED <<task, worker, up, history>>

(* The scheduler takes no command and does not stop while it admits. *)
Attentive == worker.pc # "admitting"

Command(kind, t) ==
  /\ up
  /\ Happens(kind)
  /\ task' = t
  /\ UNCHANGED <<worker, up, main, history>>

(* guide: guidance of the operator or of another task. *)
Guide ==
  \E operator \in BOOLEAN :
    /\ GuidanceAccepted(task, operator)
    /\ operator => Attentive
    /\ Command("guide", QueueGuidance(task, used["guide"] + 1, operator, main))

AnsweredRotated(t) ==   \* mutant: the window of rotations does not start again
  [At(t, t.blocker.resume) EXCEPT !.blocker = None, !.retries = [r \in DOMAIN @ |-> None],
                                  !.spent = {}]
(* The answer's transition; a window of rotations and of reader budgets    *)
(* starts again.                                                           *)
Answered(t) ==
  [At(t, t.blocker.resume) EXCEPT
     !.blocker = None,
     !.retries = [r \in DOMAIN @ |-> None],
     !.spent = {},
     !.rotations = IF @ >= RotationLimit THEN 0 ELSE @]

(* answer: the exact acknowledgement of a verification-only block keeps    *)
(* the advice and sends the task to FIX; any other answer drops it.        *)
Answer ==
  /\ task.state = "BLOCKED_HUMAN"
  /\ task.blocker.resume \in Edges["BLOCKED_HUMAN"]
  /\ \E exact \in BOOLEAN :
       LET t == Answered(task)
           reused == ReusePreflight(t, main, {"READY", "FIX", "SYNC_REQUIRED"}, TRUE)
       IN Command("answer",
            IF exact /\ task.blocker.origin = "verification_only" /\ reused # t
            THEN (IF t.state = "SYNC_REQUIRED" THEN At(reused, "FIX") ELSE reused)
            ELSE [t EXCEPT !.preflight = None])

Assigned(t, r) ==
  [t EXCEPT !.roles = @ \union {r}, !.evidence = None, !.reviewed = {}, !.preflight = None]

AssignRole ==
  /\ task.state \in {"READY", "FIX", "BLOCKED_HUMAN"}
  /\ Attentive
  /\ \E r \in Assignable : Command("assign", Assigned(task, r))

-----------------------------------------------------------------------------
(* The supervisor ends and starts. *)

Ends ==
  /\ up
  /\ Happens("end")
  /\ up' = FALSE
  /\ worker' = Idle
  /\ UNCHANGED <<main, history>>

Crash == Ends /\ UNCHANGED task

(* Serve's end: edits are checkpointed, interrupted work is released. *)
Stopped(t) ==
  ResetInterruptedPreflight(IF t.state = "RUNNING" THEN At(t, "READY") ELSE t)

Stop ==
  /\ Ends /\ Attentive
  /\ \E t \in {task} \union (IF task.state \in {"RUNNING", "READY", "FIX"} THEN Heads(task) ELSE {}) :
       task' = Stopped(t)

RecoveredBlocked(t) ==   \* mutant: a question counts as interrupted verification
  IF t.state \in {"IMPLEMENTED", "VERIFYING", "REVIEW", "BLOCKED_HUMAN"}
  THEN At(t, "SYNC_REQUIRED") ELSE Stopped(t)
(* recoverSnapshot *)
Recovered(t) ==
  ResetInterruptedPreflight(
    CASE t.state = "RUNNING" -> At(t, "READY")
      [] t.state \in {"IMPLEMENTED", "VERIFYING", "REVIEW"} -> At(t, "SYNC_REQUIRED")
      [] OTHER -> t)

Start ==
  /\ ~up
  /\ up' = TRUE
  /\ task' = Recovered(task)
  /\ UNCHANGED <<worker, main, used, history>>

Job ==
  \/ PreparePreflight \/ AskPreRole \/ Advised
  \/ CallImplementer \/ CheckpointPass \/ ImplementerReturns \/ Checkpoint \/ SignedOut \/ Conclude
  \/ Retry \/ AdvisorReturns
  \/ SyncTarget \/ SyncTask \/ Checks \/ BeginWave \/ EndWave \/ NothingToReview
  \/ Assess \/ Refresh \/ Accept \/ RefreshDraftPR

Scheduler ==
  StartPreflight \/ FetchForWriter \/ AdmitWriter \/ AdmissionFails \/ LaunchVerification \/ Invalidate

Environment == Push \/ Guide \/ Answer \/ AssignRole \/ Crash \/ Stop \/ Start

Next == Job \/ Scheduler \/ Environment

Spec == Init /\ [][Next]_vars

(* Serve ticks, and every call of a job ends or times out. *)
FairSpec == Spec /\ WF_vars(Job) /\ WF_vars(Scheduler)

-----------------------------------------------------------------------------
(* Properties. *)

Records(t) ==
  /\ t.blocker = None \/ t.blocker.resume \in State
  /\ t.syncBase \in (0..main) \union {None}
  /\ t.base \in 0..main
  /\ t.verification # None => t.verification.attempts \in Nat
  /\ t.evidence # None => t.evidence.done \subseteq Readers
  /\ t.preflight # None => /\ t.preflight.completed \subseteq PreRoles
                           /\ t.preflight.reused \in 0..ReuseLimit
  /\ Len(t.guidance) <= GuidanceLimit

(* The records the code keeps have the values it can give them: retries,   *)
(* rotations and reuse stay within their limits, whatever order failures,  *)
(* answers and restarts come in.  Repeated checks are counted without one. *)
TypeOK ==
  /\ task.state \in State
  /\ task.attempts \in 0..ReuseLimit
  /\ \A k \in DOMAIN task.cycles : task.cycles[k] \in 0..FixLimit
  /\ task.rotations \in 0..RotationLimit
  /\ Records(task)
  /\ up \in BOOLEAN /\ main = used["push"]
  /\ ~up => worker = Idle

(* A task that is ready to merge was reviewed as it is: by every role it   *)
(* needs, at its head, on its base (verifyReview, checkpointAtBase,        *)
(* syncTask and the reuse of reviews after an interruption).               *)
AcceptedReviewed ==
  task.state = "MERGE_READY" =>
    /\ task.evidence # None
    /\ task.evidence.atHead
    /\ task.evidence.base = task.base
    /\ \A r \in Required(task) : <<r, task.evidence.policy>> \in task.reviewed

(* The narrower request of a reader is the last one for the same head and  *)
(* policy until the operator answers, whatever supervisor asks             *)
(* (beginReadOnlyAttempt: a restart never turns an interrupted second      *)
(* request into a fresh full-budget request).                              *)
ReaderBudgetHolds ==
  [][\A r \in Readers :
       (/\ worker'.pc \in {"advising", "reading"}
        /\ worker.pc \in {"ask", "review"}
        /\ r = worker'.role \/ r \in worker'.reading)
         => <<r, Policy(worker.base)>> \notin task.spent]_vars

(* An implementation is complete only when the call that completed it had  *)
(* every correction of other tasks in its prompt, those that arrived while *)
(* it ran included (completeImplementation, replayLateGuidance).           *)
GuidanceReconciled ==
  [][(task.state # "IMPLEMENTED" /\ task'.state = "IMPLEMENTED")
       => \A i \in DOMAIN task.guidance :
            ~task.guidance[i].operator => task.guidance[i].id \in worker.given]_vars

(* Operator guidance that a call acknowledged is in no later prompt, after *)
(* late delivery, retries and restarts (MarkOperatorGuidanceDelivered).    *)
DeliveredOnce ==
  worker.pc \in {"calling", "checkpointing"} =>
    \A i \in DOMAIN task.guidance :
      task.guidance[i].operator => task.guidance[i].id \notin worker.given \intersect history.acked

(* A writer starts only with advice on what it is about to do: every       *)
(* pre-implementation role saw the guidance that is queued now, what other *)
(* tasks sent during the admission included, on the main and policy that   *)
(* the admission fetched.  A push after that fetch is not seen before the  *)
(* task synchronizes (preflight.go:785, preflight.go:831-854).             *)
AdviceIsFresh ==
  [][(task.state # "RUNNING" /\ task'.state = "RUNNING")
       => \A r \in PreRoles :
            history.advised[r] = [base |-> worker.base, scope |-> PreflightScope(task, worker.base)]]_vars

(* Only the operator's answer takes a task out of BLOCKED_HUMAN, so that   *)
(* an answer that was found valid on a copy can still be applied.  The one *)
(* exception is a job that published its question and then could not       *)
(* refresh the pull request: retry and the Advisor set the task's state    *)
(* without looking at it (workflow.go:2512-2513, workflow.go:1976).        *)
HumanWaits ==
  [][(task.state = "BLOCKED_HUMAN" /\ task'.state # "BLOCKED_HUMAN")
       => \/ used'["answer"] > used["answer"]
          \/ worker.result = "unrefreshed"]_vars

(* The operator can resume every blocked task (model.Answer).              *)
BlockedAnswerable ==
  task.state = "BLOCKED_HUMAN" => task.blocker.resume \in Edges["BLOCKED_HUMAN"]

(* Automatic work ends: without new events from outside a task comes to    *)
(* rest before the merge train or at the operator, since retries,          *)
(* rotations, readers, the Advisor and transient checks are all bounded.   *)
(* Two things are not: admissions whose fetch fails every time, and checks *)
(* that time out only when a reviewer asked for fresh evidence, since the  *)
(* retry passes and clears the count of the timeout (workflow.go:2444).    *)
AtRest == ~up \/ (task.state \in {"MERGE_READY", "BLOCKED_HUMAN"} /\ worker.pc = "idle")
RefreshTimesOut ==
  Refresh /\ task'.verification # None /\ task'.verification.class = "timeout"
WorkRests ==
  <>[]AtRest \/ []<><<AdmissionFails>>_vars \/ []<><<RefreshTimesOut>>_vars
=============================================================================
