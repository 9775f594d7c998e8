# A formal model of ai-agentic-harness

AIH runs coding agents on the tasks of a Git project. One *supervisor* per
machine keeps the project's durable state as a JSON snapshot on the remote
branch `aih-state`, takes a lease on it, starts workers, verifies and reviews
their branches and integrates them into `main`. This directory holds TLA+
modules of that program, TLC configurations that check them on small instances,
and TLAPS proofs of the properties that matter most.

## Inventory

### Components, their state and their operations

| component | code | state | operations |
|---|---|---|---|
| controller | `internal/engine/controller.go` | cached snapshot and head (`Controller.s`, `.head`, under `.mu`), fatal channel, contexts, active set | `acquire`, `persist`/`save`/`mutate`, `renewLeaseLocked`, `heartbeat`, `recover`, `Serve`, `commands` |
| publication | `internal/gitx/git.go` | the remote refs `aih-state`, `main`, `aih/*` | `Load`, `StateCommit`, `LeaseCommit`, `Publish`, `publishWithRetry` |
| local store | `internal/store/store.go` | SQLite: snapshot cache, command queue, events, runtime values | `Save`, `Submit`, `Pending`, `Ack` |
| integration | `engine/integration.go`, `batch_*.go` | task state, `IntegrationBlocked`, `IntegrationBatch` | `integrate`, `postVerify`, `reserveBatchIntegration`, `integrateBatch`, `publishBatch`, `failBatch` |
| task workflow | `engine/workflow.go` | task state, retry counters, evidence, findings, blocker | `work`, `implement`, `retry`, `syncTask`, `verifyReview`, `checkpoint`, `plan`, `provision` |
| durable model | `internal/model/model.go` | the snapshot | `Transition`, `Block`, `Answer`, `Decode`, guidance queue, plan validation, batch selection |
| dispatch | `engine/capacity.go`, `Serve` | active set, capacity record | `decideCapacity`, `persistCapacity`, `admitWriter` |
| routing | `engine/area_ownership.go`, `native_failure_route.go` | dependencies, areas | routing of findings and failures to the task that owns the area |
| preflight | `engine/preflight.go` | `Task.Preflight` | `preflight`, reuse and invalidation |
| offline transactions | `engine/replan.go`, `scope_recovery.go` | snapshot and task refs under an own lease | `Replan`, `RecoverScope` |
| review evidence | `engine/review_*.go`, `validation_plan.go` | `Task.Evidence` | reuse of dispositions over text-only changes, follow-up issues (not modelled) |
| permits | `engine/check_resources.go`, `platform/slots.go` | channels, file locks | `checkPermit`, `AcquireSlot` |
| worker deadline | `engine/worker_deadline.go` | contexts of one worker | `runWithCheckpoint` |

Providers, roles, configuration, the GitHub client, the command line, the
release tools and the demo are I/O around these; `PROJECT.json` lists them with
the reason why they are not modelled.

### How they interact

* Every durable change goes through `persist`: clone the cached snapshot, apply
  a function, commit, push `aih-state` (with `main` and task refs when sources
  move) with `--atomic --force-with-lease`, then replace the cache and save it to
  SQLite. `Controller.mu` is held throughout, so the goroutines of a supervisor
  (scheduler, heartbeat, workers, merge goroutine) publish one after the other.
* Supervisors on different machines share only the remote refs. The lease in the
  snapshot and the compare-and-swap of the push are all that keeps them apart.
* The command line writes commands into SQLite; the scheduler takes them every
  400 ms.
* A goroutine reads a clone of the snapshot, works for minutes without the lock
  and then persists a function of the *current* snapshot. What it checked may be
  gone.

### What is hard

Ambiguous pushes, takeover against delayed renewals, clock skew, crashes between
the remote publication and SQLite, main moving under a prepared integration,
decisions on stale clones, budgets that must bound retries, and resume states
that must be reachable. `PROJECT.json` lists each hazard with its line and the
property that covers it, or what it waits for.

### What makes each component correct

* controller, publication, store: one controller at a time; nothing is stolen;
  what was acknowledged is durable; a command takes effect once; a publication
  returns.
* integration: main and the snapshot move together; main only advances; an
  integrated task never runs again.
* workflow and model: every task ends `DONE` or waits for the operator within
  its budgets; every blocker can be answered.
* dispatch, routing, offline transactions: no two writers with overlapping
  areas; dependencies stay acyclic.
* review evidence, preflight: nothing is accepted on another head, base or
  configuration than the one examined.

## Modules

| module | what it is |
|---|---|
| `StateAuthority` | abstract specification: what the remote state promises, whatever network, clocks and crashes do |
| `ControllerLease` | supervisors, their publications, the Git server, the command queue, serial integration |
| `MCControllerLease` | values for TLC |
| `ControllerLeaseProofs` | type correctness |
| `ControllerLeaseSafety` | the inductive invariant, the safety theorems and the refinement of `StateAuthority` |
| `Deliveries` | abstract specification: what a merge train promises |
| `MergeTrain` | the merge train of one supervisor: scheduler, workers, serial and batch integration, post-merge verification |
| `MCMergeTrain` | values for TLC |
| `MergeTrainProofs` | type correctness, what lands together, what was reviewed |
| `MergeTrainSafety` | the inductive invariant of the train, its safety theorems and the refinement of `Deliveries` |
| `Advice` | operators: guidance, pre-implementation advice, reader budgets of one task |
| `TaskLifecycle` | one task from `READY` to `MERGE_READY`: implementation, retries, synchronization, checks, reviews, blockers, answers, restarts |
| `MCTaskLifecycle` | values for TLC |
| `TaskLifecycleProofs` | the inductive invariant of a task and its job, and every safety property of `TaskLifecycle` |
| `Ownership` | operators: dependencies, areas, owners, routing, replanning, scope recovery |
| `Dispatch` | all tasks of a project: planning, admission of readers and writers, routing, offline transactions |
| `MCDispatch` | values for TLC and the situations it begins with |
| `OwnershipProofs` | lemmas: chains of dependencies, circles, replacements, what is done |
| `DispatchProofs` | type correctness, the kinds of steps, writers, dependencies, circles and overlaps |
| `CheckSlots` | native checks and release gates that share the slots of a machine |
| `MCCheckSlots` | values for TLC |
| `CheckSlotsProofs` | type correctness, who holds which permit, turns |

`ControllerLease` and `MergeTrain` divide the system: the first has several
machines and takes a publication apart, with integration reduced to what a
publication carries; the second has one supervisor whose publications are atomic,
which is what the first shows, and takes integration apart. `TaskLifecycle` has
one task and the steps of its job; `Dispatch` has several tasks, and a job
is one of the results that `TaskLifecycle` can end with; an integration there is
one step. `CheckSlots` is the wait for a permit inside `TaskLifecycle`'s
`Checks`, between the supervisors of one machine.

### ControllerLease and the code

* `remote`, `main` are the refs; a `Commit` is a snapshot reduced to the lease,
  the applied command IDs, how often each command changed something (`effects`,
  a history the code has no field for), the tasks it records as merged and the
  integration states. `depth` stands for the ancestry that `Publish` checks
  with `Ancestor`. `landed` is the history of `aih-state`.
* `head[m]` is `Controller.s` with `Controller.head`; a dead process has the
  initial value. `mode[m]` is where `Serve` is: acquiring, recovering, serving,
  stopping on an error, stopping in order, or gone.
* `op[m] # NoOp` means that somebody on `m` holds `Controller.mu` inside
  `persist`; `pub[m]` is the position in `publishWithRetry`. `Push` sends, `Land`
  is the server applying a push (also after its sender gave up or died),
  `Acknowledged`, `PushFails`, `ReadMain`, `Diverged` and `GiveUp` are what the
  sender can see, and `Return` is the rest of `persist` together with what its
  caller does with the result.
* `flight` keeps only pushes that can still be applied: `depth` grows with every
  commit and `aih-state` only advances, so an outdated push stays outdated.
* A push is sent only before the deadline `leasePublicationContext` sets, but the
  server may apply it at any time later.
* `ack[m]` is the command between `persist` and `Ack`; `status` is its row.
* `train[m]` is the merge goroutine: reserve, publish, settle after an error. The
  review evidence, the checks and the pull request are guards that only make it
  return earlier; what follows a publication (`postVerify`,
  `updatePR`) belongs to `MergeTrain`.
* `Crash` may happen in every state. `Tick` is true time; the clock of `m` is
  `Skew[m]` ahead.
* Stage `SYNC_REQUIRED` and `BLOCKED_HUMAN` tasks stay where they are: the
  workflow that brings them back is not part of this module.

### MergeTrain and the code

* `snap` is the published snapshot: `state`, `evidence` (base and head that the
  reviews examined), `base` and `head` of every task, `merge` (`MergeSHA`, as a
  version of main), `by` (`Evidence.IntegrationOwner`, as the number of the start),
  `resume` (`Blocker.Resume`), `races` (`FixCycles["integration_races"]`),
  `recovery` (`RecoveryRequired`); `held` is `IntegrationBlocked` and `batch` is
  `IntegrationBatch`.
* `main` counts versions, and how often each task was merged. Others only add
  to main; where the code asks whether main still contains a merge, both
  answers are followed. `draft` is GitHub's view of the pull requests, which is
  outside of every transaction.
* `FIX` stands for `PLANNED`, `READY`, `RUNNING` and `FIX`; `SYNC_REQUIRED` for
  `IMPLEMENTED`, `SYNC_REQUIRED`, `VERIFYING` and `REVIEW`. Integration treats the
  members of each group alike.
* `mode` is the process; `"failed"` is only the case in which `mutate` refused
  the supervisor's own change (a snapshot that `Decode` would not read, a
  transition without an edge). `Crash` is every other end: a crash, a stop, an
  I/O error that reaches `c.fail`.
* `worker[t]` is where the goroutine of `work` is; `train` is the merge goroutine,
  `sched` the batch between its selection on a clone and its reservation. The end
  of a goroutine and the scheduler's notice of it on `done` are one step. A serial
  integration reserves its task in `active` (`train.reserved`); a batch and a held
  task's verification do not, and neither does the model.
* A worker that a failed verification sends back uses `retry` or
  `verificationFailure`, which set the state whatever it was (`Failures`,
  `Retries`); the budgets that choose among these results are TaskLifecycle's.
* Dependencies, policy, scopes, capability and the content of a review are
  outcomes of `Gate`, `Admit`, `CheckBatch` and `PublishBatch`: each may fail at
  any time for a reason the model does not have.
* `health` is a history: whether the last native check of an integrated main
  passed.
* A publication that carries main may succeed and its save in SQLite fail
  (`Reported`): `persist` then returns an error although the refs moved
  (`controller.go:328-335`). `integrate` takes its own merge for a race (`Settle`), and
  `failBatch` finds no reservation any more. `main.missed` is the history of these
  false reports, and each counts against `MaxForeign` as a push of somebody else, which is what
  the code takes it for. A save that fails inside `mutate` ends the supervisor
  (`controller.go:383-389`): it is the publication followed by `Crash`.

### TaskLifecycle, Advice and the code

* `task` is one entry of `Snapshot.Tasks`; `worker` is the goroutine of `work` or
  `preflight` with what it read before (`base`, `given`, `start`). A publication is
  one step; between two of them come the operator's commands, pushes to main, a
  stop and a crash, because a job holds no lock while it works.
* A head never comes back. What the code keeps a head's hash in (`Preflight`,
  `Evidence`, `Verification`, `Guidance`) keeps `atHead`, which `Moved` makes
  false. A revision of main is a number; `Policy(m)` numbers the configuration
  and rules (`effective.Hash`, `roles.Hash()`).
* `Retry` is a step after the one that decides on it, because `retry` reads the
  snapshot again; `RefreshDraftPR` likewise comes after the review's outcome is
  published.
* A checkpoint leaves the head or moves it (`Heads`); one that completes a merge
  always moves it. `Recheckpointed` is `recoveredCheckpoint`, which keeps the
  evidence of the old head: it does not match the new one.
* `admitWriter` is two steps. `FetchForWriter` reads main and its policy
  (`preflight.go:785`), `AdmitWriter` compares the advice with them and publishes; in between
  main may be pushed and guidance of other tasks may come, but no command, because the
  scheduler admits and takes commands in one goroutine (`Attentive`). `AdmissionFails`
  is a fetch that failed.
* Every update of the pull request may fail (`Checks`, `EndWave`, `Assess`, `Accept`,
  `RefreshDraftPR`), and the job goes on as after any error of the verification. A job
  whose question or finding is published and whose update then failed is marked
  `unrefreshed`, which `HumanWaits` names.
* `verification.attempts` counts repeated failures without a cap, as the code does.
* `EndWave` chooses freely whether a finding was caused by the changed paths, which
  decides whether QA still runs.
* `history`, `spent` and `reviewed` are histories: what a call acknowledged, what
  each role advised on, which narrower requests began and which reviews of the present
  head its evidence rests on.
* The scope of advice (`PreflightScope`) holds guidance and roles. The code binds the
  objective, acceptance, areas, domains, risk and dependencies as well; none of them
  changes in this module.
* `ReviewCycles`, `QACycles` and `DesignCycles` are one limit, `FixLimit`. A task
  whose advice comes from the designer may get that advice waived
  (`directFixRoute`), and a security review may be reused over a change of plain
  text (`reusableReviewDispositions`): the assumptions leave such tasks out.
* What checks and providers answer is chosen freely, including errors, missing
  tools, a lost login, a question and a deadline.

### Dispatch, Ownership and the code

* `tasks`, `objectives`, `backlog` and `cursor` (`Capacity.BacklogCursor`) are the
  snapshot, `job` is `active` with the goroutines behind it, `planning` the
  objective of the planner. `left` counts down the events from outside; `apart`
  is a history of the pairs that overlap after a replan or a recovery, `unseen` of
  those among them that the replan did not see. A job's end and its notice on `done` are one
  step; the sequence of a tick is separate actions.
* `queue` is what is left of the tick's list of writers. `Decide` makes the list on
  one state (`decideCapacity`), and chooses the objective to plan; `AdmitWriter` takes its
  first task and checks it again, as `admitWriter` does, against what runs by then:
  between two admissions jobs end and tasks change. What only the scheduler's
  goroutine does (`Scheduling`) waits until the list is done. An admission may find
  the advice out of date and drop it, and one that fails ends the list
  (`AdmissionFails`), because `Serve` breaks out of its loop and forgets the error.
  Either check alone keeps writers apart, since one goroutine makes both: the list
  keeps its members from each other, the second look keeps each from what runs.
* Areas are the sets of the files they cover, as `ClassifyAreasAtRef` reads them. A replan
  compares its request's areas before they are classified (`replan.go:539` and
  `546`), as strings (`areasOverlap`): `dir/` is no prefix of `dir/a.go`. `request.spelled` are
  the files of a request that such a comparison finds, `AsSpelled` is the replacement as
  it is compared. A pair missed in this way goes to `unseen`, and both of it may be
  written at once: the run reaches such states, and `OverlapApart` leaves out these pairs
  only. The code refuses a request that spells an area of its own originals
  in another way, as a duplicate; the model accepts it.
* A preflight may end before its worktree is there, block, spend a retry or be
  ready, with or without readers; a writer may block although its areas are known. Which
  of these it is, and whether advice is reused (`Spent`), is `TaskLifecycle`'s and `Advice`'s.
* A manifest of `RecoverScope` has one task; the code takes up to 32 in one
  publication and checks them against each other.
* The grace period in which a routed failure is reproduced, the order in which
  idle capacity is filled and the readers' answers are free choices.
* `WorkLimit` bounds how often a task goes back to `FIX`; `WorkRests` of
  `TaskLifecycle` is the reason that there is a bound.
* Replanning and recovery need the lease (`ControllerLease`), so they happen while
  no supervisor runs.
* `AfterReplan = FALSE` keeps findings from being routed and scopes from being
  recovered once a task has been replaced; see `routed_cycle`.
* `Files` and `Domains` are what areas and conflict domains consist of: their only
  use is the type of a task.

### CheckSlots and the code

* `call[p][c]` is where the goroutine of `checkPermit` is; `tokens` is how many
  of the project's own permits of a class are taken, `waiters` and `slot` are the
  file locks of the machine, `records` is `Capacity.Verification` in the snapshot.
  `gate` is where a release gate is.
* The operating system frees the locks of a process that ends (`End`).
* `Sees` and `Spare` are probes: a probe takes a lock for a moment, so that
  another probe may find it held. Both answers are followed.
* A gate (`cmd/release`) polls for a slot, looks for waiters again, and watches for
  them while its tests run; it yields a bounded number of times.
* A call may end at every place of `checkPermit`, because its context ends, a lock fails or a
  publication does (`Abandon`). What `MaxFailures` bounds are the failures that leave
  a record behind: the publication that queues the check moved and its save failed
  (`check_resources.go:22-24`, no clear), the announcement did, or the clear failed, which is
  ignored (line 25). Such a record stands before every later check of its class until
  its task asks for that check again or the supervisor restarts.

### Mutants

The operators marked `mutant` are what a plausible bug would make of the
definition below them. `PROJECT.json` names for every property the mutant that
violates it.

## Runs

| run | instance | checks | result |
|---|---|---|---|
| `lease_takeover` | two machines, clocks one unit apart, three starts, one command, one push per publication, failing SQLite, clock to 3 | `TypeOK`, `OneController`, `AcknowledgedDurable`, `NoStealing`, `AuthoritySpec` | holds |
| `lease_integration` | one machine, two starts, one task, one foreign push to main, two pushes per publication | `AcknowledgedDurable`, `AuthoritySpec`, `MainAdvances`, `PublicationReturns` | holds |
| `command_verdict` | one machine, one command | `FailedNotAccepted` | violated, see below |
| `integrated_resync` | one machine, one task, failing SQLite | `IntegratedStays` | violated, see below |
| `train_batch` | two compatible low-risk tasks, two starts, one foreign push or publication whose save fails, one repair or answer | `TypeOK`, `HoldCanEnd`, `NeverRefused`, `LandsAsReviewed`, `DeliveriesSpec`, `NothingLandsOnBrokenMain`, `ReservationEnds` | holds |
| `train_overlap` | three tasks of which two overlap and one is reviewed already, two starts, pull request updates that fail | `LandsAsReviewed`, `TogetherIndependent`, `NothingLandsOnBrokenMain` | holds |
| `task_life` | one task, one pre-implementation role, one reviewer, QA that the operator may assign; one push that changes policy, or one answer, or one assignment, or one guidance and one end of the supervisor; failing updates of the pull request, admissions and refreshes without bound | `TypeOK`, `AcceptedReviewed`, `ReaderBudgetHolds`, `HumanWaits`, `DeliveredOnce`, `GuidanceReconciled`, `AdviceIsFresh`, `WorkRests` | holds |
| `blocked_review` | the same | `BlockedAnswerable` | violated, see below |
| `dispatch` | two objectives, four tasks, two writers, one reader, nine situations, admissions that fail without bound | `TypeOK`, `WritersApart`, `NoCircularWait`, `OverlapApart`, `DependenciesFirst`, `NobodyWaitsForever`, `ObjectivesPlanned` | holds |
| `routed_cycle` | a replan, then a routed finding | `NoCircularWait` | violated, see below |
| `check_slots` | two projects, two classes of checks, two gates, one slot, one failed publication that leaves a record, one supervisor that dies | `TypeOK`, `PermitsMatch`, `OnlyFailuresLeave`, `InTurn`, `Served` | holds |
| `integrated_edges` | two tasks, one start, pull request updates that fail | `IntegratedEdges` | violated, see below |

Bounds. A lease of 2 and a grace of 1 give every order of half-life, expiry,
grace and takeover within a clock of 3; a second start of a machine is enough to
meet its own earlier lease, commands and reservation; two machines are enough
for a race on one ref, since each publication competes with at most the one that
lands. Two tasks are the smallest batch, and one that leaves the batch becomes a
serial integration; the third task of `train_overlap` gives a choice of groups.
One foreign push overtakes any one integration, one restart meets every state a
crash leaves, and one repair leads back from `FIX` or from a blocker. `RaceLimit`
is 5 in the code and 1 here; with one foreign push a race is counted and
synchronized, and the question to the operator after too many of them, which
blocks the task as every other failed publication does, is not reached. `train_batch` assumes that `updatePR(id, false)` does not return
an error to `verifyReview`; what happens when it does is `integrated_edges`, and
`train_overlap` shows what holds nevertheless. Deadlock is not checked: with the clock, the starts and the foreign
pushes bounded, and after an orderly stop, nothing has to be enabled.

`task_life`: `ReuseLimit` 1, `RotationLimit` 2 (24 in the code), `GuidanceLimit` 2
(8) and `FixLimit` 0 (legal: `config.go:330`) are the smallest limits that are
reached on the way; a larger one adds the same cycle once more. `FixLimit` 0 sends
every failed review to the Advisor and then to the operator, and
implementation retries still go around once. Events from outside come one kind at
a time, guidance together with an end of the supervisor: each is followed by
everything the job can do, and a second one meets states of the same kinds. No
failure is switched off. Two properties name what the code does not keep:

* `HumanWaits`: when `refreshDraftPR` fails after a question was published
  (`workflow.go:2512-2513`), `retry` sets `FIX` over the question (`workflow.go:1976`); an answer that was found
  valid then fails in `mutate` and stops the supervisor (`controller.go:797`). Nothing
  else takes a question back: no restart, push, guidance or late result.
* `WorkRests`: a task does not come to rest when its admission fails every time, or when
  checks keep timing out in evidence refreshes that reviewers keep asking
  for: entering `REVIEW` drops the verification record (`workflow.go:2444`), so each of these is a first
  one. Both are stated as recurring for ever (`[]<><<...>>_vars`), so that everything else that
  circles, and each of them when it stops, is still a violation.

`dispatch`: two objectives are enough for a turn in the backlog and for conflicts
between objectives; X and A depend on each other, B shares X's domain, N is what X
is replanned to, alone or together with the area of A, of B, or of B in another spelling. The nine
situations put the start where it matters: a backlog,
an interrupted plan, work that is under way or almost used up, and a project of an
older version without known areas. `NobodyWaitsForever` and `ObjectivesPlanned` except
admissions that fail for ever: listed work counts as dispatched, so that they stop the backlog too. Recovery after replanning is in no situation of
this run; `OverlapsApart` covers it.

`check_slots`: two waiters of one class and one of another give every order of
turns; a second project asks for the same slot; two gates meet each other's probes.
The code yields up to 3 times, here 2. The number of checks is bounded
(`MaxAsks`), so one project starving another with ever new checks is outside of the
instance. One publication may fail in a way that leaves a record, which is enough to
stand before another check for ever. `Served` excepts the checks behind such a
record and no others, and `OnlyFailuresLeave` says that nothing but such a failure leaves one:
no other way out of `checkPermit`, and no restart.

Fairness. `FairSpec` asks weak fairness only of the steps of a publication in
progress: the code runs them under deadlines (`publicationAttemptTimeout`, 15 s
per read, the lease's expiry), and `platform` kills a child that overruns. It is
not assumed that the server answers, that a push is applied, that time passes or
that a command is submitted. The process may crash at any point; the mutex is
then gone with it.

`MergeTrain!FairSpec` asks weak fairness of the scheduler's tick (`MergeTick`,
`ReserveBatch`: `Serve` runs it every 400 ms), of the merge goroutine (`Merging`:
its checks run under deadlines) and of `Start` (a service manager starts the
supervisor again). Workers, the operator and others get none.

`TaskLifecycle!FairSpec`: the scheduler ticks, and every call of a job ends or
times out (`runWithCheckpoint`, the roles' deadlines, the deadlines of checks). The
operator, pushes, stops and starts get none. `Dispatch!FairSpec`: the supervisor
does something while it can, and is started again (`Start` is one of its steps). Every
kind of job gets its turn without an assumption of its own, because what can
happen in between is bounded by `WorkLimit`, `PlanRetries` and `left`.
`CheckSlots`: weak fairness for each project's checks and for each gate's polling and
watching. A gate's tests need never end.

### What the violated runs show

* `command_verdict`: `commands` (`controller.go:937`) writes `failed` whenever
  `mutate` returned an error. When the publication's outcome was unknown, and the
  push is applied, the row says *failed* while the snapshot holds the command.
  No later supervisor corrects the row, because it is no longer queued.
* `integrated_resync`: `persist` returns an error when the refs moved and only
  SQLite failed. `integrate` (`integration.go:149`) then finds that main is not
  `base` any more (it is the task's own merge) and sends the integrated task to
  `SYNC_REQUIRED`. `train_batch` follows the task from there: it is reviewed and may land
  once more, which is the only second landing that `Deliveries` allows.
* `integrated_edges`: `verifyReview` publishes `MERGE_READY` and then calls
  `updatePR(id, false)`. The scheduler does not consult `active` for a batch, so
  another task's tick may integrate both while the call is on its way. When it
  returns an error after GitHub marked the pull request ready, `retry`
  (`workflow.go:1976`) sets `FIX` on a task that is in `POST_VERIFY` or `DONE`.
  When the error arrives before the integration, the reservation in the snapshot
  is no longer valid, `Decode` refuses the change and the supervisor stops.
  With one more implementation the task is reviewed and merged a second time, so
  `DeliveriesSpec`, which `train_batch` checks without these errors, fails with
  them. The same `retry` takes back a published question, which is the exception
  that `HumanWaits` names.
* `blocked_review`: `verifyReview` (`workflow.go:2473`) blocks the task with
  `Resume = REVIEW` when a provider is signed out. `edges` has no way from
  `BLOCKED_HUMAN` to `REVIEW`, so `Answer` refuses every answer. The comment at
  `workflow.go:1522` says that this gate resumes.
* `routed_cycle`: `introducesDependencyCycle` follows `Dependencies` and not
  `SupersededBy`. A depends on X, X is replanned to N, a finding of N is routed to
  A: N waits for A, and A, through X, for N. Both are in states that the scheduler
  owns, and nobody is asked. `AfterReplan` keeps the case out of `dispatch`.
  `hasDependencyCycle` and `taskDependsOn` of `scope_recovery.go` look at
  `Dependencies` in the same way.

Smaller disagreements that no run checks: a comment in `model.go:435` says that
delivery of guidance is recorded before the provider starts, the code records it
after a structured result, a hand-off made up at the hard deadline included;
guidance that was announced for the next call (`controller.go:862`) is not
eligible after main, policy or the head moved; a crash between the record of
a failed check and `retry` makes the next failure a repetition, which asks the
operator without a fix; main moving between the publication of `SyncBase` and the
merge, over a restart, costs a fix.

## Proofs

Every theorem holds for all values of the constants that satisfy the named
assumptions of the model; TLC evaluates these on every run.

| module | theorem | property | hypothesis |
|---|---|---|---|
| `ControllerLeaseProofs` | `TypeCorrect` | `TypeOK` | |
| `ControllerLeaseSafety` | `LeaseIsExclusive`, `AcknowledgementsLast`, `TakeoverIsFenced`, `MainOnlyAdvances`, `Implements` | `OneController`, `AcknowledgedDurable`, `NoStealing`, `MainAdvances`, `AuthoritySpec` | |
| `MergeTrainProofs` | `TypeCorrect`, `LandedTogether`, `LandsReviewed` | `TypeOK`, `TogetherIndependent`, `LandsAsReviewed` | |
| `MergeTrainSafety` | `HoldsCanEnd`, `NoneRefused`, `BrokenMainHolds`, `Implements` | `HoldCanEnd`, `NeverRefused`, `NothingLandsOnBrokenMain`, `DeliveriesSpec` | `~UpdateMayFail` |
| `TaskLifecycleProofs` | `TypeCorrect`, `ReadyIsReviewed`, `GuidanceDeliveredOnce` | `TypeOK`, `AcceptedReviewed`, `DeliveredOnce` | |
| `TaskLifecycleProofs` | `CompletionReconciles`, `WritersAdvised`, `ReadersWithinBudget` | `GuidanceReconciled`, `AdviceIsFresh`, `ReaderBudgetHolds` | |
| `TaskLifecycleProofs` | `BlockedTaskWaits` | `HumanWaits` | |
| `DispatchProofs` | `TypeCorrect`, `WritersAlwaysApart`, `DependenciesLandFirst`, `OverlapsApart` | `TypeOK`, `WritersApart`, `DependenciesFirst`, `OverlapApart` | |
| `DispatchProofs` | `NeverCircular` | `NoCircularWait` | `~AfterReplan` |
| `CheckSlotsProofs` | `TypeCorrect`, `PermitsAlwaysMatch`, `ChecksRunInTurn` | `TypeOK`, `PermitsMatch`, `InTurn` | |

### ControllerLease

Assumptions: `ConstantsAssumption` (the constants are of their types, a lease
lasts at least two units), `ClocksAssumption` (the clocks of two machines differ
by no more than the grace `acquire` adds; without it two controllers are
possible) and `NullsAssumption` (the null values are different from the values).

`OneController` speaks of cached snapshots and is far from
inductive. `Inductive` says for *every commit that ever was the head* of
`aih-state` that it is contained in the current one and that its owner is
finished (its lease is over by some clock with the grace, or the process is gone
or giving its lease back), or that the current lease is the same owner's and at
least as long (`History`). Every publication, sent or not, is a takeover of a free
or expired lease, a release by an owner that is finished, or a change by the owner
that does not shorten the lease (`Publications`); a cached head is in the history
and expires at most a lease from now (`Cached`); a command is acknowledged only
when its publication landed (`Commands`). Two live controllers then have cached
leases of which the older cannot be over on any clock but the grace's margin, so
both are the current owner. `NoStealing` follows because a push in flight carries
the expiry it was built on, and the compare-and-swap makes that the expiry it
replaces. TLC checks `Inductive` on the instances above.

`Implements` is the refinement of `StateAuthority`. Besides `Inductive` it needs `Governed`: main
and the snapshot record the same integrations; every publication, in flight
or held by its supervisor, is `Lawful`, which is to say a takeover by a start that has
never had the lease, a release, or a change by the holder that keeps the content, adds the
effect of one command not yet applied, or adds one integration together with main; an
owner's number is that of a start that happened (`Known`); the goroutine that integrates has
captured a main (`Captured`). A push lands on exactly the head it was built on, so what
is lawful for a publication is the abstract step that its landing takes.

### MergeTrain

Assumptions: `TaskAssumption` (task IDs are finitely many numbers, since the
order of a snapshot's tasks decides which group is taken; the null values are none of the values)
and `LimitAssumption` (bounds in their ranges).

* Types. `TypeOK` asks of every snapshot but a refused one that it decodes; `Types`
  says it of every snapshot, and adds the type of the merge goroutine's step, since a
  train that reserved a batch has its members.
* `LandsAsReviewed` holds also when updates of pull requests fail. `Reviews` says
  that a task that is ready to merge, or being merged, has reviews of its present head
  and base, and that what is being checked is the merge with that base. Every step
  but `Admit` and an accepted review only withdraws reviews (`Withdraws`).
* The four theorems of `MergeTrainSafety` need `~UpdateMayFail`, because `integrated_edges`
  shows that they fail without it: `retry` takes a landed task back to `FIX`. `Safe` relates
  the goroutines to the snapshot: between selection and reservation nothing merges (`Turns`);
  a worker has a task in preparation to itself (`Workers`); the task that is integrated is
  in the state its step expects (`Integration`); what is verified after a merge is in
  `POST_VERIFY` (`Verifications`); a reservation is all that merges (`Reserved`); the snapshot tells what main
  has received (`Landing`); a failed main is held by a task that landed and is not
  finished (`Holds`). `NoneRefused` follows because each change of the supervisor leads
  along an edge and keeps a reserved batch valid.
* `Implements` is the refinement of `Deliveries`: each step is a delivery,
  the end of one, or a stutter. A task in preparation has landed only as often as it was
  told that it did not (`Landing`), so each further landing has its false report.
* That the scheduler's selection is a valid batch is proved from the definition of the
  order on groups (`FirstGroupExists`, `SelectionIsValid`).

### TaskLifecycle and Advice

Assumptions: `AdviceAssumption` and `LifecycleAssumption` (limits in their ranges; the roles whose
work the models leave out are not configured; policy changes with revisions of main; the null
value is none of the roles, records and answers). `Scenarios` may be any set of bounds on the
events from outside, so the theorems hold for any number of pushes, answers, guidance and
restarts.

One invariant, `Inductive`, carries all seven theorems. Its parts say what the snapshot and the
job, which works on what it read minutes ago, know of each other:

* `Types`: the records. Main is at the revision of the last push, and what a job or the task
  remembers of main is not later; the counters that have a limit are within it, and a task whose
  rotations are used up waits for the operator.
* `Where`: which states of the task fit which step of the job. A review works on a task in
  `REVIEW`, also when the snapshot changes under it, and nothing that is about to change a task is under way while
  it is `MERGE_READY`. This is what keeps `AcceptedReviewed` true after acceptance.
* `Guided`: corrections have numbers of their own, what was acknowledged is marked, what the
  prompt of a call in flight holds is not, and everything that a call found in the queue when it
  started is in its prompt. `DeliveredOnce` and `GuidanceReconciled` follow; `Late` is the question that has to be
  asked between the two for the corrections that arrive during the call.
* `Budgeted`: a narrower request that began is its reader's last under that policy, and no budget is of
  a policy later than main's. Without the second half a job that read an older main
  could begin a request under a policy that has had its last one.
* `Judged`: evidence of the present head is of the present base, whoever is done with it
  reviewed exactly that, and a review in progress has the evidence of its own start.
* `Consulted`: a role that counts as complete gave its advice on what the record of the
  preflight says; `AdviceIsFresh` is this, and the comparison that `admitWriter` makes in its
  publication with the main that it fetched. A push after the fetch is not in the
  comparison, and not in the theorem.
* `Questioned` says that nothing but a look at the pull request, or what follows after that
  failed, goes on while a task is blocked: every other job has ended with its question. This
  is `BlockedTaskWaits`.

### Dispatch and Ownership

Assumptions: `DispatchAssumption` (limits in their ranges), `PlanAssumption`
(what `ValidatePlan` accepts: the dependencies of a plan are its own tasks, without circle;
the IDs of two objectives are apart), `RequestAssumption` (the ID of a replacement is new and
belongs to no plan) and `ScenarioAssumption` (a situation it may begin
with is linked, grounded and without circle, see below, as every snapshot that the
operations themselves leave).

* Types. Every step of a task changes that task alone and leaves its contract as it
  is or adds to its dependencies (`Moves`); the others restate all tasks
  (`Restates`), add tasks (`Plans`, `Replaces`), change scopes (`Recovers`) or no
  task at all (`Bystands`).
* `WritersApart` is inductive with `Types`: a writer's domains do not change
  while it writes, and `AdmitWriter` counts and compares at the moment of admission. Nothing is
  assumed of the list, which may be as old as it likes.
* `DependenciesFirst` needs `Grounded` (what is written, merged or `DONE` has all its
  dependencies complete) and `Transferred` (a replacement waits for what the
  replaced one waited for, unless it replaces that as well). For chains of any length
  `OwnershipProofs` shows that `Closure` is closed and the least closed set, from its definition as
  the last of finitely many steps; the numbers are handled by `LeastNat`, because the
  library's induction takes an operator.
* `NoCircularWait`: plans, routes and replans each keep the relation of waiting, with
  replacements, without circle. A route adds `t -> o` only when `o` does not depend on
  `t`; that question follows dependencies only, and it is the right one as long as nothing is
  replaced, hence `~AfterReplan`. `routed_cycle` is the counterexample otherwise.
* `OverlapApart` needs no such hypothesis. Its invariant is that of each pair that overlaps, and
  is not in `unseen`, one is finished or one waits for the other (`Serial`), and that replacements form
  no circle (`Chained`). Other circles of waiting, if there are any, keep their tasks from being
  written.

### CheckSlots

Assumption: `SlotsAssumption` (finite sets of projects, checks and gates, apart from each
other; numbers of slots in their ranges).

`TypeOK` says that permits stay between none and the project's limit. That needs who
holds them (`Limited`): a permit is only given back by a call that has one.
`Permits` adds to `PermitsMatch` which calls stand at a place where they hold a token, a
machine slot or a waiter lock. The slot of a dead process is free, so every step of `End` and every error
path must give back exactly what was taken. `InTurn` follows from `Queues`: no check is
recorded twice, every call has its record while its supervisor is up, and whoever took its turn has none of its
class before it.

### What is only model-checked

* Liveness under fairness is out of the prover's reach: `PublicationReturns`,
  `ReservationEnds`, `WorkRests`, `NobodyWaitsForever`, `ObjectivesPlanned`, `Served`.
* `OnlyFailuresLeave` of `CheckSlots`, which counts records against failures.
* That the bounds of the instances are enough for these: no proof relates a run to larger
  constants.

No module declares a RECURSIVE operator, and nothing is proved by induction over data.

## Plan

Done: all models; every invariant, action property and refinement that a passing run checks is
also proved, with the hypotheses that the table of proofs names, but for `OnlyFailuresLeave`. What
else a run checks and no theorem states is liveness.

Left to do, in this order:

1. `MergeTrain` with `UpdateMayFail`: what remains of the four theorems that assume the
   opposite, as `train_overlap` checks it (`NothingLandsOnBrokenMain`).
2. `OnlyFailuresLeave`, by an injection from the records left to the failures.
3. Manifests of several tasks in `RecoverScope`.
4. `Dispatch` after replanning: which routes keep `NoCircularWait`, given that
   `IntroducesDependencyCycle` does not follow replacements.

## Not modelled

* The direct FIX route, the reuse of security reviews and visual evidence, see
  above; they choose among results on what texts and images say.
* The candidate branch of a replan and the reconciliation of issues
  (`replan.go`): they prepare or report what the one modelled publication does.
* Most of `Decode`: consistency of a snapshot that the program itself wrote; the
  check that can refuse a change in operation, the batch's, is in `MergeTrain`.
* Processes and locks, providers, configuration, rules, the GitHub client, the
  command line, diagnostics, the service, visual capture and the demo are I/O, data
  or text. `PROJECT.json` gives the reason for each.
