------------------------- MODULE TaskLifecycleProofs -------------------------
(***************************************************************************)
(* What TaskLifecycle keeps, for any roles, limits and events from outside: *)
(* counters within their limits, reviews of what is merged, guidance and   *)
(* advice that is current, readers within their budgets, and questions     *)
(* that end with an answer or with a failed update of the pull request.    *)
(***************************************************************************)
EXTENDS TaskLifecycle, FiniteSetTheorems, SequenceTheorems, TLAPS

Kinds == {"verification"} \union Reviewers \union Assignable
Correct == [id : Nat, operator : BOOLEAN, base : Nat, atHead : BOOLEAN, pending : BOOLEAN,
            delivered : BOOLEAN]
Queues == {q \in Seq(Correct) : Len(q) <= GuidanceLimit}
Origins == {"", "verification_only"}
Blocker == [resume : State, origin : Origins] \union {None}
Classes == {"", "timeout"}
Verification == [class : Classes, attempts : Nat, atHead : BOOLEAN,
                 env : Nat \union {None}, native : BOOLEAN] \union {None}
Reviewed == [base : Nat, policy : Nat, atHead : BOOLEAN, roster : SUBSET Readers, done : SUBSET Readers]
Evidence == Reviewed \union {None}
Scopes == [guidance : SUBSET (Nat \X BOOLEAN), roles : SUBSET Assignable]
Advisory == [phase : {"queued", "running", "ready", "writing"}, base : Nat, atHead : BOOLEAN,
            scope : Scopes, completed : SUBSET PreRoles, reused : 0..ReuseLimit]
Preflight == Advisory \union {None}
Budget == [policy : Nat, attempts : {1, 2}]
Budgets == [Readers -> Budget \union {None}]

(* The task, while main is at m. *)
Tasks(m) ==
  [state : State, base : 0..m, syncBase : (0..m) \union {None}, attempts : 0..ReuseLimit,
   cycles : [Kinds -> 0..FixLimit], rotations : 0..RotationLimit, advisor : BOOLEAN,
   blocker : Blocker, verification : Verification, evidence : Evidence,
   preflight : Preflight, retries : Budgets, guidance : Queues, roles : SUBSET Assignable,
   spent : SUBSET (Readers \X Nat), reviewed : SUBSET (Readers \X Nat)]

(* Where a job has nothing of a request or of a review in hand. *)
Resting == {"idle", "retry", "advisor", "tail"}
Reviewing == {"review", "reading", "assess", "refresh", "accept"}
Pcs == Resting \union Reviewing \union
       {"prepare", "ask", "advising", "admitting", "implement", "calling", "checkpointing",
        "checkpoint", "signed_out", "conclude", "verify", "sync", "checks"}
Outcomes == Answers \union {"exhausted", None}
Workers(m) ==
  [pc : Pcs, base : 0..m, role : Readers \union {None}, start : Nat, given : SUBSET Nat,
   result : Results \union {"handoff", "error", "auth", "unrefreshed", None},
   kind : Readers \union {"verification", "implementation", None}, after : {"idle", "tail"},
   todo : SUBSET Readers, reading : SUBSET Readers, got : [Readers -> Outcomes], attempt : Nat]

Histories ==
  [acked : SUBSET Nat, advised : [PreRoles -> [base : Nat, scope : Scopes] \union {None}]]

Types ==
  /\ main \in Nat /\ up \in BOOLEAN
  /\ task \in Tasks(main)
  /\ worker \in Workers(main)
  /\ used \in [Outside -> Nat] /\ main = used["push"]
  /\ history \in Histories
  /\ ~up => worker = Idle
  /\ task.rotations = RotationLimit => task.state = "BLOCKED_HUMAN" /\ worker.pc = "idle"

-----------------------------------------------------------------------------
(* The invariant, besides the types. *)

(* Where the job is when the task is in some states. *)
Where ==
  /\ worker.pc \in Reviewing => task.state = "REVIEW"
  /\ task.state = "MERGE_READY" => worker.pc \in {"idle", "retry", "advisor"}
  /\ worker.pc \in {"prepare", "ask"} => worker.reading = {}
  /\ worker.pc = "advising" => worker.role \in PreRoles
  /\ worker.pc \in {"verify", "sync", "checks"} \union Reviewing => worker.role = None

(* Every correction has a number of its own. *)
Numbered(queue, last) ==
  /\ \A i \in DOMAIN queue : queue[i].id <= last
  /\ \A i, j \in DOMAIN queue : queue[i].id = queue[j].id => i = j
(* What was acknowledged is marked as delivered. *)
Marked(queue, acked) ==
  \A i \in DOMAIN queue : queue[i].operator /\ queue[i].id \in acked => queue[i].delivered
(* What the prompt of a call in flight holds. *)
Prompted ==
  /\ \A n \in worker.given \union history.acked : n <= used["guide"]
  /\ worker.pc \in {"calling", "checkpointing"} =>
       \A i \in DOMAIN task.guidance :
         task.guidance[i].operator /\ task.guidance[i].id \in worker.given => ~task.guidance[i].delivered
  /\ worker.pc \in {"calling", "checkpointing", "checkpoint", "conclude"} =>
       /\ worker.start <= Len(task.guidance)
       /\ \A i \in DOMAIN task.guidance :
            i <= worker.start /\ ~task.guidance[i].operator => task.guidance[i].id \in worker.given
Guided ==
  /\ Numbered(task.guidance, used["guide"])
  /\ Marked(task.guidance, history.acked)
  /\ Prompted

(* A role that counts as complete advised on what the record says. *)
Consulted(p, advised) ==
  p # None => \A r \in p.completed : advised[r] = [base |-> p.base, scope |-> p.scope]

(* A narrower request that began is its reader's last under its policy. *)
Charged(retries, spent) ==
  \A e \in spent :
    /\ retries[e[1]] # None /\ e[2] <= retries[e[1]].policy
    /\ retries[e[1]].policy = e[2] => retries[e[1]].attempts = 2
(* No budget is of a policy later than the one at m. *)
Until(retries, m) ==
  \A r \in Readers : retries[r] # None => retries[r].policy <= Policy(m)
Budgeted ==
  /\ Charged(task.retries, task.spent)
  /\ Until(task.retries, main)
  /\ worker.pc \in {"ask", "advising", "sync", "checks"} \union Reviewing =>
       Until(task.retries, worker.base)

(* Evidence of the present head is of the present base, and who is done    *)
(* with it has reviewed it.                                                *)
Founded(t) ==
  t.evidence # None /\ t.evidence.atHead =>
    /\ t.evidence.base = t.base
    /\ \A r \in t.evidence.done : <<r, t.evidence.policy>> \in t.reviewed
Judged ==
  /\ Founded(task)
  /\ worker.pc \in Reviewing =>
       /\ task.evidence # None /\ task.evidence.atHead
       /\ task.evidence.policy = Policy(worker.base)
       /\ \A r \in Readers : worker.got[r] \in {"clean", "advice"} =>
            <<r, task.evidence.policy>> \in task.reviewed
  /\ worker.pc \in {"sync", "checks"} => \A r \in Readers : worker.got[r] = None

(* A job whose task asks the operator has nothing more to publish, unless  *)
(* the update of the pull request failed after the question.               *)
Questioned(t, w) ==
  t.state = "BLOCKED_HUMAN" =>
    \/ w.pc \in {"idle", "tail"}
    \/ w.pc \in {"retry", "advisor"} /\ w.result = "unrefreshed"

Inductive ==
  /\ Types /\ Where /\ Guided /\ Budgeted /\ Judged /\ AcceptedReviewed
  /\ Consulted(task.preflight, history.advised)
  /\ Questioned(task, worker)

-----------------------------------------------------------------------------
(* Policy counts. *)

LEMMA PolicyCounts ==
  ASSUME NEW m \in Nat, NEW n \in Nat, m <= n
  PROVE  Policy(m) \in Nat /\ Policy(m) <= Policy(n)
<1> DEFINE P(k) == {p \in PolicyChanges : p <= k}
<1>1. PolicyChanges \subseteq Nat
  BY AdviceAssumption
<1>2. P(n) \subseteq 0..n /\ P(m) \subseteq P(n)
  <2>1. ASSUME NEW p \in P(n) PROVE p \in 0..n
    BY <1>1, <2>1
  <2>2. ASSUME NEW p \in P(m) PROVE p \in P(n)
    BY <1>1, <2>2
  <2> QED BY <2>1, <2>2, Zenon
<1>3. IsFiniteSet(0..n)
  BY FS_Interval
<1>4. IsFiniteSet(P(n))
  BY <1>2, <1>3, FS_Subset
<1>5. IsFiniteSet(P(m)) /\ Cardinality(P(m)) <= Cardinality(P(n))
  BY <1>2, <1>4, FS_Subset
<1>6. Cardinality(P(m)) \in Nat
  BY <1>5, FS_CardinalityType
<1> QED BY <1>5, <1>6 DEF Policy

-----------------------------------------------------------------------------
(* What a change leaves as it is. *)

SameReview(t, u) ==
  u.base = t.base /\ u.evidence = t.evidence /\ u.reviewed = t.reviewed /\ u.roles = t.roles
SameBudget(t, u) == u.retries = t.retries /\ u.spent = t.spent

(* Neither corrections nor advice, budgets or reviews. *)
Plain(t, u) ==
  /\ u.guidance = t.guidance /\ u.preflight = t.preflight
  /\ SameBudget(t, u) /\ SameReview(t, u)

LEMMA AtIsPlain ==
  ASSUME NEW m \in Nat, NEW t \in Tasks(m), NEW s \in State
  PROVE  /\ At(t, s) \in Tasks(m) /\ Plain(t, At(t, s))
         /\ At(t, s).state = s /\ At(t, s).rotations = t.rotations
<1>1. At(t, s) \in Tasks(m)
  BY DEF At, Tasks
<1> QED BY <1>1 DEF At, Plain, SameBudget, SameReview, Tasks

LEMMA BlockIsPlain ==
  ASSUME NEW m \in Nat, NEW t \in Tasks(m), NEW s \in State, NEW o \in Origins
  PROVE  /\ Block(t, s, o) \in Tasks(m) /\ Plain(t, Block(t, s, o))
         /\ Block(t, s, o).state = "BLOCKED_HUMAN" /\ Block(t, s, o).rotations = t.rotations
<1>1. [resume |-> s, origin |-> o] \in Blocker /\ "BLOCKED_HUMAN" \in State
  BY DEF Blocker, State
<1> QED BY <1>1 DEF Block, Plain, SameBudget, SameReview, Tasks

-----------------------------------------------------------------------------
(* Corrections. *)

QueueKept(q, f) ==
  /\ DOMAIN f = DOMAIN q /\ Len(f) = Len(q)
  /\ \A i \in DOMAIN q : /\ f[i].id = q[i].id /\ f[i].operator = q[i].operator
                         /\ f[i].delivered = q[i].delivered

LEMMA QueueTypes ==
  ASSUME NEW q \in Queues
  PROVE  /\ q \in Seq(Correct) /\ Len(q) \in Nat /\ Len(q) <= GuidanceLimit
         /\ DOMAIN q = 1..Len(q) /\ \A i \in DOMAIN q : q[i] \in Correct
<1>1. q \in Seq(Correct) /\ Len(q) <= GuidanceLimit
  BY DEF Queues
<1> QED BY <1>1, LenProperties

LEMMA IntervalsEqual ==
  ASSUME NEW a \in Nat, NEW b \in Nat, 1..a = 1..b
  PROVE  a = b
<1>1. \A i \in Nat : i \in 1..a <=> i \in 1..b
  OBVIOUS
<1>2. a > 0 => a <= b
  BY <1>1
<1>3. b > 0 => b <= a
  BY <1>1
<1> QED BY <1>2, <1>3

LEMMA QueueMapped ==
  ASSUME NEW q \in Queues, NEW f, f = [i \in DOMAIN q |-> f[i]], \A i \in DOMAIN q : f[i] \in Correct
  PROVE  f \in Queues /\ DOMAIN f = DOMAIN q /\ Len(f) = Len(q)
<1>1. DOMAIN q = 1..Len(q) /\ Len(q) \in Nat /\ Len(q) <= GuidanceLimit
  BY QueueTypes
<1>2. f \in [1..Len(q) -> Correct]
  BY <1>1
<1>3. f \in Seq(Correct)
  BY <1>1, <1>2, SeqDef
<1>4. Len(f) \in Nat /\ DOMAIN f = 1..Len(f)
  BY <1>3, LenProperties
<1>5. 1..Len(f) = 1..Len(q)
  BY <1>2, <1>4
<1>6. Len(f) = Len(q)
  BY <1>1, <1>4, <1>5, IntervalsEqual
<1> QED BY <1>1, <1>2, <1>3, <1>6 DEF Queues

LEMMA ScopeTypes ==
  ASSUME NEW m \in Nat, NEW t \in Tasks(m), NEW base
  PROVE  PreflightScope(t, base) \in Scopes
<1>1. t.guidance \in Queues
  BY DEF Tasks
<1>2. ASSUME NEW g \in EligibleGuidance(t, base) PROVE <<g.id, g.pending>> \in Nat \X BOOLEAN
  <2>1. PICK i \in DOMAIN t.guidance : g = t.guidance[i]
    BY DEF EligibleGuidance, ToSet
  <2>2. g \in Correct
    BY <1>1, <2>1, QueueTypes
  <2> QED BY <2>2 DEF Correct
<1>3. t.roles \in SUBSET Assignable
  BY DEF Tasks
<1>4. {<<g.id, g.pending>> : g \in EligibleGuidance(t, base)} \in SUBSET (Nat \X BOOLEAN)
  BY <1>2
<1> QED BY <1>3, <1>4 DEF PreflightScope, Scopes

-----------------------------------------------------------------------------
(* Advice. *)

AdviceKept(p, f) ==
  f # None => \/ f.completed = {}
              \/ p # None /\ f.base = p.base /\ f.scope = p.scope /\ f.completed = p.completed

(* Only the advice changes, and what counts as complete is what counted. *)
Advises(t, u) ==
  /\ u.guidance = t.guidance /\ SameBudget(t, u) /\ SameReview(t, u)
  /\ u.state = t.state /\ u.rotations = t.rotations
  /\ AdviceKept(t.preflight, u.preflight)

LEMMA AdviceChanges ==
  ASSUME NEW m \in Nat, NEW t \in Tasks(m), NEW p \in Preflight,
         NEW u, u = [t EXCEPT !.preflight = p]
  PROVE  /\ u \in Tasks(m) /\ u.preflight = p
         /\ u.guidance = t.guidance /\ SameBudget(t, u) /\ SameReview(t, u)
         /\ u.state = t.state /\ u.rotations = t.rotations
BY DEF Tasks, SameBudget, SameReview

LEMMA AdviceAdvises ==
  ASSUME NEW m \in Nat, NEW t \in Tasks(m), NEW p \in Preflight, AdviceKept(t.preflight, p),
         NEW u, u = [t EXCEPT !.preflight = p]
  PROVE  u \in Tasks(m) /\ Advises(t, u)
BY AdviceChanges DEF Advises

LEMMA NothingAdvises ==
  ASSUME NEW t
  PROVE  Advises(t, t)
BY DEF Advises, AdviceKept, SameBudget, SameReview

LEMMA NewAdvises ==
  ASSUME NEW m \in Nat, NEW t \in Tasks(m), NEW base \in Nat
  PROVE  LET u == [t EXCEPT !.preflight = NewPreflight(t, base)]
         IN  u \in Tasks(m) /\ Advises(t, u)
<1>1. PreflightScope(t, base) \in Scopes
  BY ScopeTypes
<1>2. ReuseLimit \in Nat
  BY AdviceAssumption
<1>3. NewPreflight(t, base) \in Advisory /\ NewPreflight(t, base).completed = {}
  BY <1>1, <1>2 DEF NewPreflight, Advisory
<1> QED BY <1>3, AdviceAdvises DEF AdviceKept, Preflight

LEMMA AdvisoryChanges ==
  ASSUME NEW p \in Advisory, NEW h \in BOOLEAN, NEW n \in 0..ReuseLimit,
         NEW phase \in {"queued", "running", "ready", "writing"}
  PROVE  LET f == [p EXCEPT !.atHead = h, !.phase = phase, !.reused = n]
         IN  f \in Advisory /\ f.base = p.base /\ f.scope = p.scope /\ f.completed = p.completed
BY DEF Advisory

LEMMA ReuseAdvises ==
  ASSUME NEW m \in Nat, NEW t \in Tasks(m), NEW base, NEW states, NEW head
  PROVE  LET u == ReusePreflight(t, base, states, head)
         IN  u \in Tasks(m) /\ Advises(t, u)
<1>1. CASE Reusable(t, base, states, head)
  <2>1. t.preflight \in Advisory /\ t.preflight # None /\ t.preflight.reused < ReuseLimit
    BY <1>1 DEF Reusable, Tasks, Preflight
  <2>2. ReuseLimit \in Nat
    BY AdviceAssumption
  <2>3. /\ Reused(t.preflight) \in Advisory
        /\ Reused(t.preflight).base = t.preflight.base
        /\ Reused(t.preflight).scope = t.preflight.scope
        /\ Reused(t.preflight).completed = t.preflight.completed
    <3>1. t.preflight.reused + 1 \in 0..ReuseLimit
      BY <2>1, <2>2 DEF Advisory
    <3> QED BY <2>1, <3>1, AdvisoryChanges DEF Reused
  <2>4. AdviceKept(t.preflight, Reused(t.preflight))
    BY <2>1, <2>3 DEF AdviceKept
  <2>5. Reused(t.preflight) \in Preflight
    BY <2>3 DEF Preflight
  <2> QED BY <1>1, <2>4, <2>5, AdviceAdvises DEF ReusePreflight
<1>2. CASE ~Reusable(t, base, states, head)
  BY <1>2, NothingAdvises DEF ReusePreflight
<1> QED BY <1>1, <1>2

LEMMA PhaseAdvises ==
  ASSUME NEW m \in Nat, NEW t \in Tasks(m), t.preflight # None,
         NEW phase \in {"queued", "running", "ready", "writing"}
  PROVE  LET u == [t EXCEPT !.preflight.phase = phase]
         IN  u \in Tasks(m) /\ Advises(t, u)
<1>1. t.preflight \in Advisory
  BY DEF Tasks, Preflight
<1> DEFINE p == [t.preflight EXCEPT !.phase = phase]
<1>2. p \in Advisory /\ p.base = t.preflight.base /\ p.scope = t.preflight.scope
      /\ p.completed = t.preflight.completed
  BY <1>1 DEF Advisory
<1>3. p \in Preflight /\ AdviceKept(t.preflight, p)
  BY <1>2 DEF AdviceKept, Preflight
<1>4. [t EXCEPT !.preflight.phase = phase] = [t EXCEPT !.preflight = p]
  OBVIOUS
<1> HIDE DEF p
<1> QED BY <1>3, <1>4, AdviceAdvises

LEMMA ResetAdvises ==
  ASSUME NEW m \in Nat, NEW t \in Tasks(m)
  PROVE  LET u == ResetInterruptedPreflight(t)
         IN  u \in Tasks(m) /\ Advises(t, u)
BY PhaseAdvises, NothingAdvises DEF ResetInterruptedPreflight

LEMMA AdvanceAdvises ==
  ASSUME NEW m \in Nat, NEW t \in Tasks(m)
  PROVE  LET u == AdvancePreflightHead(t)
         IN  u \in Tasks(m) /\ Advises(t, u)
<1>1. CASE t.preflight # None /\ t.preflight.phase = "writing"
  <2>1. t.preflight \in Advisory
    BY <1>1 DEF Tasks, Preflight
  <2> DEFINE p == [t.preflight EXCEPT !.atHead = TRUE]
  <2>2. p \in Advisory /\ p.base = t.preflight.base /\ p.scope = t.preflight.scope
        /\ p.completed = t.preflight.completed
    BY <2>1 DEF Advisory
  <2>3. p \in Preflight /\ AdviceKept(t.preflight, p)
    BY <1>1, <2>2 DEF AdviceKept, Preflight
  <2>4. AdvancePreflightHead(t) = [t EXCEPT !.preflight = p]
    BY <1>1 DEF AdvancePreflightHead
  <2> HIDE DEF p
  <2> QED BY <2>3, <2>4, AdviceAdvises
<1>2. CASE ~(t.preflight # None /\ t.preflight.phase = "writing")
  BY <1>2, NothingAdvises DEF AdvancePreflightHead
<1> QED BY <1>1, <1>2

-----------------------------------------------------------------------------
(* What most steps do to the task: corrections keep their numbers and what *)
(* was delivered, advice and budgets are kept or dropped, and so is        *)
(* evidence of the head.                                                   *)

BudgetKept(t, u) ==
  \/ SameBudget(t, u)
  \/ u.spent = {} /\ \A r \in Readers : u.retries[r] = None
ReviewKept(t, u) ==
  u.evidence # None /\ u.evidence.atHead =>
    u.evidence = t.evidence /\ u.base = t.base /\ u.reviewed = t.reviewed
Kept(t, u) ==
  /\ QueueKept(t.guidance, u.guidance)
  /\ AdviceKept(t.preflight, u.preflight)
  /\ BudgetKept(t, u)
  /\ ReviewKept(t, u)

LEMMA PlainKept ==
  ASSUME NEW t, NEW u, Plain(t, u)
  PROVE  Kept(t, u)
BY DEF Plain, Kept, QueueKept, AdviceKept, BudgetKept, ReviewKept, SameReview

LEMMA AdvisesKept ==
  ASSUME NEW t, NEW u, Advises(t, u)
  PROVE  Kept(t, u)
BY DEF Advises, Kept, QueueKept, BudgetKept, ReviewKept, SameReview

LEMMA NothingKept ==
  ASSUME NEW t
  PROVE  Kept(t, t)
BY PlainKept DEF Plain, SameBudget, SameReview

LEMMA KeptAgain ==
  ASSUME NEW t, NEW u, NEW v, Kept(t, u), Kept(u, v)
  PROVE  Kept(t, v)
<1>1. QueueKept(t.guidance, v.guidance)
  BY DEF Kept, QueueKept
<1>2. AdviceKept(t.preflight, v.preflight)
  BY DEF Kept, AdviceKept
<1>3. BudgetKept(t, v)
  BY DEF Kept, BudgetKept, SameBudget
<1>4. ReviewKept(t, v)
  BY DEF Kept, ReviewKept
<1> QED BY <1>1, <1>2, <1>3, <1>4 DEF Kept

-----------------------------------------------------------------------------
(* The head moves. *)

LEMMA MovedQueue ==
  ASSUME NEW q \in Queues
  PROVE  LET f == [i \in DOMAIN q |-> [q[i] EXCEPT !.atHead = FALSE]]
         IN  f \in Queues /\ QueueKept(q, f)
<1> DEFINE f == [i \in DOMAIN q |-> [q[i] EXCEPT !.atHead = FALSE]]
<1>1. \A i \in DOMAIN q : q[i] \in Correct /\ f[i] = [q[i] EXCEPT !.atHead = FALSE]
  BY QueueTypes
<1>2. f = [i \in DOMAIN q |-> f[i]]
  BY <1>1
<1> HIDE DEF f
<1>3. \A i \in DOMAIN q : f[i] \in Correct /\ f[i].id = q[i].id
                          /\ f[i].operator = q[i].operator /\ f[i].delivered = q[i].delivered
  BY <1>1 DEF Correct
<1>4. f \in Queues /\ DOMAIN f = DOMAIN q /\ Len(f) = Len(q)
  BY <1>2, <1>3, QueueMapped
<1>5. f \in Queues /\ QueueKept(q, f)
  BY <1>3, <1>4 DEF QueueKept
<1> QED BY <1>5 DEF f

(* A record of the old head. *)
LEMMA OldRecords ==
  ASSUME NEW m \in Nat, NEW t \in Tasks(m)
  PROVE  LET p == IF t.preflight = None THEN None ELSE [t.preflight EXCEPT !.atHead = FALSE]
             v == IF t.verification = None THEN None ELSE OtherHead(t.verification.native)
             e == IF t.evidence = None THEN None ELSE [t.evidence EXCEPT !.atHead = FALSE]
         IN  /\ p \in Preflight /\ AdviceKept(t.preflight, p)
             /\ v \in Verification
             /\ e \in Evidence /\ (e # None => ~e.atHead)
<1>1. t.preflight \in Preflight /\ t.verification \in Verification /\ t.evidence \in Evidence
  BY DEF Tasks
<1>2. ASSUME t.preflight # None
      PROVE  /\ [t.preflight EXCEPT !.atHead = FALSE] \in Preflight
             /\ AdviceKept(t.preflight, [t.preflight EXCEPT !.atHead = FALSE])
  BY <1>1, <1>2 DEF Preflight, Advisory, AdviceKept
<1>3. ASSUME t.verification # None
      PROVE  OtherHead(t.verification.native) \in Verification
  BY <1>1, <1>3 DEF Verification, OtherHead, Classes
<1>4. ASSUME t.evidence # None
      PROVE  [t.evidence EXCEPT !.atHead = FALSE] \in Evidence /\ ~[t.evidence EXCEPT !.atHead = FALSE].atHead
  BY <1>1, <1>4 DEF Evidence, Reviewed
<1>5. AdviceKept(None, None) /\ None \in Preflight /\ None \in Verification /\ None \in Evidence
  BY DEF AdviceKept, Preflight, Verification, Evidence
<1> QED BY <1>2, <1>3, <1>4, <1>5, Zenon

(* The records are kept or drop their head, and all budgets are new. *)
Moves(t, u) ==
  /\ Kept(t, u)
  /\ u.rotations = t.rotations /\ u.state = t.state /\ u.roles = t.roles
  /\ u.evidence # None => ~u.evidence.atHead

LEMMA FreshBudgets ==
  ASSUME NEW m \in Nat, NEW t \in Tasks(m)
  PROVE  LET r == [q \in DOMAIN t.retries |-> None]
         IN  r \in Budgets /\ \A q \in Readers : r[q] = None
BY DEF Tasks, Budgets

LEMMA MovedMoves ==
  ASSUME NEW m \in Nat, NEW t \in Tasks(m)
  PROVE  /\ Moved(t) \in Tasks(m) /\ Moves(t, Moved(t))
         /\ Moved(t).base = t.base /\ Moved(t).syncBase = t.syncBase
<1> DEFINE g == [i \in DOMAIN t.guidance |-> [t.guidance[i] EXCEPT !.atHead = FALSE]]
           p == IF t.preflight = None THEN None ELSE [t.preflight EXCEPT !.atHead = FALSE]
           v == IF t.verification = None THEN None ELSE OtherHead(t.verification.native)
           e == IF t.evidence = None THEN None ELSE [t.evidence EXCEPT !.atHead = FALSE]
           r == [q \in DOMAIN t.retries |-> None]
<1>1. g \in Queues /\ QueueKept(t.guidance, g)
  BY MovedQueue DEF Tasks
<1>2. /\ p \in Preflight /\ AdviceKept(t.preflight, p) /\ v \in Verification
      /\ e \in Evidence /\ (e # None => ~e.atHead)
  BY OldRecords, Zenon
<1>3. r \in Budgets /\ \A q \in Readers : r[q] = None
  BY FreshBudgets
<1> DEFINE u == [t EXCEPT !.guidance = g, !.preflight = p, !.verification = v, !.evidence = e,
                          !.retries = r, !.spent = {}, !.reviewed = {}]
<1>4. Moved(t) = u
  BY Zenon DEF Moved
<1> HIDE DEF g, p, v, e, r
<1>5. /\ u.guidance = g /\ u.preflight = p /\ u.evidence = e
      /\ u.retries = r /\ u.spent = {}
      /\ u.state = t.state /\ u.rotations = t.rotations /\ u.base = t.base
      /\ u.syncBase = t.syncBase /\ u.roles = t.roles
  BY DEF Tasks
<1>6. u \in Tasks(m)
  BY <1>1, <1>2, <1>3 DEF Tasks
<1> HIDE DEF u
<1> QED BY <1>1, <1>2, <1>3, <1>4, <1>5, <1>6 DEF Moves, Kept, BudgetKept, ReviewKept

LEMMA CheckpointMoves ==
  ASSUME NEW m \in Nat, NEW t \in Tasks(m)
  PROVE  Checkpointed(t) \in Tasks(m) /\ Moves(t, Checkpointed(t))
<1> DEFINE s == Moved(t)
           base == IF t.syncBase = None THEN s.base ELSE t.syncBase
           u == [s EXCEPT !.base = base, !.syncBase = None, !.evidence = None]
<1>1. s \in Tasks(m) /\ Moves(t, s) /\ s.base = t.base
  BY MovedMoves
<1>2. base \in 0..m /\ None \in Evidence
  BY <1>1 DEF Tasks, Evidence
<1>3. Checkpointed(t) = u
  BY Zenon DEF Checkpointed
<1> HIDE DEF s, base
<1>4. /\ u \in Tasks(m) /\ u.evidence = None /\ u.guidance = s.guidance
      /\ u.preflight = s.preflight /\ SameBudget(s, u)
      /\ u.state = s.state /\ u.rotations = s.rotations /\ u.roles = s.roles
  BY <1>1, <1>2 DEF Tasks, SameBudget
<1> HIDE DEF u
<1>5. Kept(s, u)
  BY <1>4 DEF Kept, QueueKept, AdviceKept, BudgetKept, ReviewKept
<1>6. Kept(t, u)
  BY <1>1, <1>5, KeptAgain DEF Moves
<1> QED BY <1>1, <1>3, <1>4, <1>6 DEF Moves


LEMMA HeadsMove ==
  ASSUME NEW m \in Nat, NEW t \in Tasks(m), NEW u \in Heads(t) \union {t, Recheckpointed(t)}
  PROVE  /\ u \in Tasks(m) /\ Kept(t, u)
         /\ u.state = t.state /\ u.rotations = t.rotations /\ u.roles = t.roles
<1>1. u = t \/ u = Moved(t) \/ u = Checkpointed(t)
  BY DEF Heads, Recheckpointed
<1> QED BY <1>1, MovedMoves, CheckpointMoves, NothingKept DEF Moves

-----------------------------------------------------------------------------
(* Budgets of the readers. *)

(* Only the budgets change. *)
Grants(t, u) ==
  /\ u.guidance = t.guidance /\ u.preflight = t.preflight
  /\ u.spent = t.spent /\ SameReview(t, u)
  /\ u.state = t.state /\ u.rotations = t.rotations

Granted(t, u, n, roles, base) ==
  /\ Grants(t, u)
  /\ \A r \in Readers :
       /\ r \in roles => u.retries[r] = [policy |-> Policy(base), attempts |-> n]
       /\ r \notin roles => u.retries[r] = t.retries[r]

LEMMA GuardsSet ==
  ASSUME NEW m \in Nat, NEW t \in Tasks(m), NEW base \in Nat, NEW n \in {1, 2}, NEW roles
  PROVE  /\ SetGuards(t, n, roles, base) \in Tasks(m)
         /\ Granted(t, SetGuards(t, n, roles, base), n, roles, base)
<1> DEFINE g == [r \in DOMAIN t.retries |->
                   IF r \in roles THEN [policy |-> Policy(base), attempts |-> n] ELSE t.retries[r]]
           u == [t EXCEPT !.retries = g]
<1>1. t.retries \in Budgets /\ Policy(base) \in Nat
  BY PolicyCounts DEF Tasks
<1>2. [policy |-> Policy(base), attempts |-> n] \in Budget
  BY <1>1 DEF Budget
<1>3. g \in Budgets
  BY <1>1, <1>2 DEF Budgets
<1>4. \A r \in Readers :
        /\ r \in roles => g[r] = [policy |-> Policy(base), attempts |-> n]
        /\ r \notin roles => g[r] = t.retries[r]
  BY <1>1 DEF Budgets
<1>5. SetGuards(t, n, roles, base) = u
  BY Zenon DEF SetGuards
<1> HIDE DEF g
<1>6. u \in Tasks(m) /\ u.retries = g /\ Grants(t, u)
  BY <1>3 DEF Tasks, Grants, SameReview
<1> HIDE DEF u
<1> QED BY <1>4, <1>5, <1>6 DEF Granted

(* No budget was used up under the policy at the base when it is granted   *)
(* again.                                                                  *)
LEMMA GrantCharged ==
  ASSUME NEW m \in Nat, NEW t \in Tasks(m), NEW base \in Nat, NEW n \in {1, 2}, NEW roles,
         Charged(t.retries, t.spent), Until(t.retries, base),
         n = 1 => \A r \in roles : Guard(t, r, base) = 0
  PROVE  LET u == SetGuards(t, n, roles, base)
         IN  Charged(u.retries, u.spent) /\ Until(u.retries, base)
<1> DEFINE u == SetGuards(t, n, roles, base)
<1>0. Granted(t, u, n, roles, base)
  BY GuardsSet, Zenon
<1>1. u.spent = t.spent
  BY <1>0 DEF Granted, Grants
<1>2. \A r \in Readers :
        /\ r \in roles => u.retries[r] = [policy |-> Policy(base), attempts |-> n]
        /\ r \notin roles => u.retries[r] = t.retries[r]
  BY <1>0 DEF Granted
<1> HIDE DEF u
<1>3. Policy(base) \in Nat /\ t.spent \subseteq Readers \X Nat /\ t.retries \in Budgets
  BY PolicyCounts DEF Tasks
<1>4. None \notin [policy : Nat, attempts : Nat]
  BY AdviceAssumption
<1>5. ASSUME NEW e \in t.spent, e[1] \in roles
      PROVE  /\ u.retries[e[1]] # None /\ e[2] <= u.retries[e[1]].policy
             /\ u.retries[e[1]].policy = e[2] => u.retries[e[1]].attempts = 2
  <2>1. e[1] \in Readers /\ e[2] \in Nat
    BY <1>3
  <2>2. u.retries[e[1]] = [policy |-> Policy(base), attempts |-> n]
    BY <1>2, <1>5, <2>1
  <2>3. /\ t.retries[e[1]] # None /\ e[2] <= t.retries[e[1]].policy
        /\ t.retries[e[1]].policy = e[2] => t.retries[e[1]].attempts = 2
    BY DEF Charged
  <2>4. t.retries[e[1]].policy <= Policy(base) /\ t.retries[e[1]].policy \in Nat
    BY <1>3, <2>1, <2>3 DEF Until, Budgets, Budget
  <2>5. e[2] = Policy(base) => Guard(t, e[1], base) = 2
    BY <1>3, <2>1, <2>3, <2>4 DEF Guard
  <2>6. e[2] = Policy(base) => n = 2
    BY <1>5, <2>5
  <2>7. u.retries[e[1]] # None
    BY <1>3, <1>4, <2>2
  <2> QED BY <1>3, <2>1, <2>2, <2>3, <2>4, <2>6, <2>7
<1>6. Charged(u.retries, t.spent)
  BY <1>2, <1>3, <1>5 DEF Charged
<1>7. Until(u.retries, base)
  BY <1>2, <1>3 DEF Until
<1> QED BY <1>1, <1>6, <1>7 DEF u

LEMMA DeadlineCharged ==
  ASSUME NEW m \in Nat, NEW t \in Tasks(m), NEW base \in Nat, NEW late,
         Charged(t.retries, t.spent), Until(t.retries, base)
  PROVE  LET u == RecordReadOnlyDeadline(t, late, base)
         IN  /\ u \in Tasks(m) /\ Grants(t, u)
             /\ Charged(u.retries, u.spent) /\ Until(u.retries, base)
<1> DEFINE first == {r \in late : ReaderMayRetry(t, r, base)}
           s == SetGuards(t, 1, first, base)
           u == SetGuards(s, 2, late \ first, base)
<1>1. \A r \in first : Guard(t, r, base) = 0
  BY DEF ReaderMayRetry
<1> HIDE DEF first
<1>2. s \in Tasks(m) /\ Grants(t, s) /\ Charged(s.retries, s.spent) /\ Until(s.retries, base)
  <2>1. 1 \in {1, 2} /\ (1 = 1 => \A r \in first : Guard(t, r, base) = 0)
    BY <1>1
  <2>2. s \in Tasks(m) /\ Granted(t, s, 1, first, base)
    BY <2>1, GuardsSet, Zenon
  <2>3. Charged(s.retries, s.spent) /\ Until(s.retries, base)
    BY <2>1, GrantCharged, Zenon
  <2> QED BY <2>2, <2>3 DEF Granted
<1> HIDE DEF s
<1>3. u \in Tasks(m) /\ Grants(s, u) /\ Charged(u.retries, u.spent) /\ Until(u.retries, base)
  <2>1. 2 \in {1, 2} /\ (2 = 1 => \A r \in late \ first : Guard(s, r, base) = 0)
    OBVIOUS
  <2>2. u \in Tasks(m) /\ Granted(s, u, 2, late \ first, base)
    BY <1>2, <2>1, GuardsSet, Zenon
  <2>3. Charged(u.retries, u.spent) /\ Until(u.retries, base)
    BY <1>2, <2>1, GrantCharged, Zenon
  <2> QED BY <2>2, <2>3 DEF Granted
<1>4. RecordReadOnlyDeadline(t, late, base) = u
  BY Zenon DEF RecordReadOnlyDeadline, first, s
<1> HIDE DEF u
<1> QED BY <1>2, <1>3, <1>4 DEF Grants, SameReview

(* The narrower requests that begin are used up. *)
Narrower(t, roles, base) == {<<r, Policy(base)>> : r \in {q \in roles : Guard(t, q, base) = 1}}

LEMMA BeginCharged ==
  ASSUME NEW m \in Nat, NEW t \in Tasks(m), NEW base \in Nat, NEW roles \in SUBSET Readers,
         Charged(t.retries, t.spent), Until(t.retries, base)
  PROVE  LET u == BeginReadOnlyAttempt(t, roles, base)
         IN  /\ u \in Tasks(m) /\ Grants(t, u) /\ Until(u.retries, base)
             /\ Charged(u.retries, t.spent \union Narrower(t, roles, base))
             /\ Narrower(t, roles, base) \subseteq Readers \X Nat
<1> DEFINE narrow == {q \in roles : Guard(t, q, base) = 1}
           u == SetGuards(t, 2, narrow, base)
<1>1. narrow \subseteq Readers
  OBVIOUS
<1>2. Narrower(t, roles, base) = {<<r, Policy(base)>> : r \in narrow}
  BY DEF Narrower
<1>3. BeginReadOnlyAttempt(t, roles, base) = u
  BY Zenon DEF BeginReadOnlyAttempt
<1> HIDE DEF narrow
<1>4. /\ u \in Tasks(m) /\ Grants(t, u) /\ Charged(u.retries, u.spent) /\ Until(u.retries, base)
      /\ \A r \in narrow : u.retries[r] = [policy |-> Policy(base), attempts |-> 2]
  <2>1. 2 \in {1, 2} /\ (2 = 1 => \A r \in narrow : Guard(t, r, base) = 0)
    OBVIOUS
  <2>2. u \in Tasks(m) /\ Granted(t, u, 2, narrow, base)
    BY <2>1, GuardsSet, Zenon
  <2>3. Charged(u.retries, u.spent) /\ Until(u.retries, base)
    BY <2>1, GrantCharged, Zenon
  <2> QED BY <1>1, <2>2, <2>3 DEF Granted
<1> HIDE DEF u
<1>5. Policy(base) \in Nat /\ None \notin [policy : Nat, attempts : Nat]
  BY PolicyCounts, AdviceAssumption
<1>6. ASSUME NEW r \in narrow
      PROVE  /\ u.retries[r] # None /\ Policy(base) <= u.retries[r].policy
             /\ u.retries[r].policy = Policy(base) => u.retries[r].attempts = 2
  BY <1>1, <1>4, <1>5
<1>7. Charged(u.retries, t.spent \union Narrower(t, roles, base))
  BY <1>2, <1>4, <1>6 DEF Charged, Grants
<1>8. Narrower(t, roles, base) \subseteq Readers \X Nat
  BY <1>1, <1>2, <1>5
<1> QED BY <1>3, <1>4, <1>7, <1>8

(* A reader that may begin has not used up its budget. *)
LEMMA MayBegin ==
  ASSUME NEW m \in Nat, NEW t \in Tasks(m), NEW base \in Nat, NEW r \in Readers,
         Charged(t.retries, t.spent), Until(t.retries, base), ReaderMayBegin(t, r, base)
  PROVE  <<r, Policy(base)>> \notin t.spent
<1> SUFFICES ASSUME <<r, Policy(base)>> \in t.spent PROVE FALSE
  OBVIOUS
<1>1. /\ t.retries[r] # None /\ Policy(base) <= t.retries[r].policy
      /\ t.retries[r].policy = Policy(base) => t.retries[r].attempts = 2
  BY DEF Charged
<1>2. t.retries[r].policy <= Policy(base) /\ t.retries[r].policy \in Nat /\ Policy(base) \in Nat
  BY <1>1, PolicyCounts DEF Until, Tasks, Budgets, Budget
<1>3. Guard(t, r, base) = 2
  BY <1>1, <1>2 DEF Guard
<1> QED BY <1>3 DEF ReaderMayBegin

-----------------------------------------------------------------------------
(* Workers. *)

LEMMA IdleWorker ==
  ASSUME NEW m \in Nat
  PROVE  Idle \in Workers(m)
<1>1. {} \subseteq Readers /\ {} \subseteq Nat /\ 0 \in 0..m
  OBVIOUS
<1>2. [r \in Readers |-> None] \in [Readers -> Outcomes]
  BY DEF Outcomes
<1>3. "idle" \in Pcs
  BY DEF Pcs, Resting
<1> QED BY <1>1, <1>2, <1>3 DEF Idle, Workers

(* The job goes on elsewhere with the values it has. *)
LEMMA WorkerMoves ==
  ASSUME NEW m \in Nat, NEW w \in Workers(m), NEW pc \in Pcs
  PROVE  [w EXCEPT !.pc = pc] \in Workers(m)
BY DEF Workers

(* A new job, or a new beginning of one. *)
Starting(pc, base) == [Idle EXCEPT !.pc = pc, !.base = base]

LEMMA WorkerStarts ==
  ASSUME NEW m \in Nat, NEW pc \in Pcs, NEW base \in 0..m, NEW w, w = Starting(pc, base)
  PROVE  /\ w \in Workers(m) /\ w.pc = pc /\ w.base = base
         /\ w.given = {} /\ w.reading = {} /\ w.role = None
         /\ \A r \in Readers : w.got[r] = None
<1>1. Idle \in Workers(m)
  BY IdleWorker
<1>2. /\ Idle.given = {} /\ Idle.reading = {} /\ Idle.role = None
      /\ \A r \in Readers : Idle.got[r] = None
  BY DEF Idle
<1> QED BY <1>1, <1>2 DEF Workers, Starting

LEMMA WorkerBegins ==
  ASSUME NEW m \in Nat, NEW pc \in Pcs, NEW w, w = [Idle EXCEPT !.pc = pc]
  PROVE  /\ w \in Workers(m) /\ w.pc = pc
         /\ w.given = {} /\ w.reading = {} /\ w.role = None
<1>1. Idle \in Workers(m)
  BY IdleWorker
<1>2. Idle.given = {} /\ Idle.reading = {} /\ Idle.role = None
  BY DEF Idle
<1> QED BY <1>1, <1>2 DEF Workers

LEMMA WorkerRetries ==
  ASSUME NEW m \in Nat, NEW kind \in Readers \union {"verification", "implementation"},
         NEW after \in {"idle", "tail"}
  PROVE  /\ RetryNext(kind, after) \in Workers(m) /\ RetryNext(kind, after).pc = "retry"
         /\ RetryNext(kind, after).given = {}
<1>1. Idle \in Workers(m) /\ Idle.given = {}
  BY IdleWorker DEF Idle
<1>2. "retry" \in Pcs
  BY DEF Pcs, Resting
<1> QED BY <1>1, <1>2 DEF Workers, RetryNext

-----------------------------------------------------------------------------
(* Tasks that a step of the job may publish, and the steps that end with   *)
(* nothing in hand.                                                        *)

Good(t) ==
  /\ t \in Tasks(main)
  /\ QueueKept(task.guidance, t.guidance)
  /\ AdviceKept(task.preflight, t.preflight)
  /\ ReviewKept(task, t)
  /\ Charged(t.retries, t.spent)
  /\ Until(t.retries, main)

LEMMA GoodKept ==
  ASSUME NEW t, NEW u \in Tasks(main), Good(t), Kept(t, u)
  PROVE  Good(u)
<1>1. QueueKept(task.guidance, u.guidance)
  BY DEF Good, Kept, QueueKept
<1>2. AdviceKept(task.preflight, u.preflight)
  BY DEF Good, Kept, AdviceKept
<1>3. Charged(u.retries, u.spent) /\ Until(u.retries, main)
  BY DEF Good, Kept, BudgetKept, SameBudget, Charged, Until
<1>4. ReviewKept(task, u)
  BY DEF Good, Kept, ReviewKept
<1> QED BY <1>1, <1>2, <1>3, <1>4 DEF Good

LEMMA GoodTask ==
  ASSUME Types, Budgeted
  PROVE  Good(task)
<1>1. Kept(task, task)
  BY NothingKept
<1> QED BY <1>1 DEF Good, Kept, Types, Budgeted

LEMMA GoodAt ==
  ASSUME Types, NEW t, Good(t), NEW s \in State
  PROVE  Good(At(t, s)) /\ At(t, s).state = s /\ At(t, s).rotations = t.rotations
BY GoodKept, AtIsPlain, PlainKept DEF Types, Good

LEMMA GoodBlock ==
  ASSUME Types, NEW t, Good(t), NEW s \in State, NEW o \in Origins
  PROVE  /\ Good(Block(t, s, o)) /\ Block(t, s, o).state = "BLOCKED_HUMAN"
         /\ Block(t, s, o).rotations = t.rotations
BY GoodKept, BlockIsPlain, PlainKept DEF Types, Good

Idling == Resting \union {"prepare", "admitting", "implement", "verify", "signed_out"}

Rests ==
  /\ up /\ UNCHANGED <<up, main, used, history>>
  /\ Good(task')
  /\ worker' \in Workers(main) /\ worker'.pc \in Idling
  /\ worker'.given \subseteq worker.given
  /\ worker'.pc = "prepare" => worker'.reading = {}
  /\ worker'.pc = "verify" => worker'.role = None
  /\ task'.rotations = RotationLimit => task'.state = "BLOCKED_HUMAN" /\ worker'.pc = "idle"
  /\ task'.state = "MERGE_READY" =>
       /\ task.state = "MERGE_READY" /\ SameReview(task, task')
       /\ worker'.pc \in {"idle", "retry", "advisor"}
  /\ Questioned(task', worker')

(* Such a step neither begins nor completes an implementation. *)
Settles == Rests /\ (task'.state \in {"RUNNING", "IMPLEMENTED"} => task'.state = task.state)

Calls == {"calling", "checkpointing", "checkpoint", "conclude"}

LEMMA GuidedKept ==
  ASSUME Types, Guided, QueueKept(task.guidance, task'.guidance),
         history'.acked = history.acked, used'["guide"] = used["guide"],
         worker'.given \subseteq worker.given,
         \/ worker'.pc \notin Calls
         \/ /\ worker'.given = worker.given /\ worker'.start = worker.start
            /\ worker.pc \in Calls
            /\ worker'.pc \in {"calling", "checkpointing"} => worker.pc \in {"calling", "checkpointing"}
  PROVE  Guided'
<1>1. Numbered(task.guidance, used["guide"])'
  BY DEF Guided, Numbered, QueueKept
<1>2. Marked(task.guidance, history.acked)'
  BY DEF Guided, Marked, QueueKept
<1>3. Prompted'
  <2>1. \A n \in (worker.given \union history.acked)' : n <= used'["guide"]
    BY DEF Guided, Prompted
  <2>2. CASE worker'.pc \notin Calls
    BY <2>1, <2>2 DEF Prompted, Calls
  <2>3. CASE worker'.pc \in Calls
    BY <2>1, <2>3 DEF Guided, Prompted, Calls, QueueKept
  <2> QED BY <2>2, <2>3
<1> QED BY <1>1, <1>2, <1>3 DEF Guided

LEMMA ConsultedKept ==
  ASSUME NEW p, NEW f, NEW advised, AdviceKept(p, f), Consulted(p, advised)
  PROVE  Consulted(f, advised)
BY DEF AdviceKept, Consulted

LEMMA FoundedKept ==
  ASSUME NEW t, NEW u, ReviewKept(t, u), Founded(t)
  PROVE  Founded(u)
BY DEF ReviewKept, Founded

LEMMA RestsKeeps ==
  ASSUME Inductive, Rests
  PROVE  Inductive'
<1>1. Types'
  BY DEF Inductive, Types, Rests, Good
<1>2. Where'
  BY DEF Rests, Where, Idling, Resting, Reviewing
<1>3. Guided'
  BY GuidedKept DEF Inductive, Rests, Good, Idling, Resting, Calls
<1>4. Budgeted'
  BY DEF Rests, Good, Budgeted, Idling, Resting, Reviewing
<1>5. Judged'
  <2>1. Founded(task)'
    BY FoundedKept DEF Inductive, Judged, Rests, Good
  <2> QED BY <2>1 DEF Judged, Rests, Idling, Resting, Reviewing
<1>6. AcceptedReviewed'
  BY DEF Inductive, AcceptedReviewed, Rests, SameReview, Required
<1>7. Consulted(task.preflight, history.advised)'
  BY ConsultedKept DEF Inductive, Rests, Good
<1> QED BY <1>1, <1>2, <1>3, <1>4, <1>5, <1>6, <1>7 DEF Inductive, Rests

-----------------------------------------------------------------------------
(* The common endings of a step. *)

LEMMA Busy ==
  ASSUME Inductive, worker.pc # "idle"
  PROVE  up /\ task.rotations # RotationLimit
BY DEF Inductive, Types, Idle

LEMMA SettleIdle ==
  ASSUME Inductive, up, NEW t, Good(t),
         t.rotations = RotationLimit => t.state = "BLOCKED_HUMAN",
         t.state \in {"MERGE_READY", "RUNNING", "IMPLEMENTED"} =>
           t.state = task.state /\ SameReview(task, t),
         Quiet(t, Idle)
  PROVE  Settles
<1>1. Idle \in Workers(main) /\ Idle.pc = "idle" /\ Idle.given = {}
  BY IdleWorker DEF Inductive, Types, Idle
<1>2. UNCHANGED <<up, main, used, history>> /\ task' = t /\ worker' = Idle
  BY DEF Quiet, Step
<1> QED BY <1>1, <1>2 DEF Questioned, Settles, Rests, Idling, Resting

LEMMA BlockIdle ==
  ASSUME Inductive, up, NEW t, Good(t), NEW s \in State, NEW o \in Origins,
         Quiet(Block(t, s, o), Idle)
  PROVE  Settles
BY SettleIdle, GoodBlock DEF Inductive

LEMMA TaskIdle ==
  ASSUME Inductive, worker.pc # "idle", Quiet(task, Idle)
  PROVE  Settles
BY Busy, SettleIdle, GoodTask DEF Inductive, SameReview

LEMMA TaskBlock ==
  ASSUME Inductive, worker.pc # "idle",
         NEW s \in {"READY", "FIX", "SYNC_REQUIRED", "REVIEW"}, NEW o \in Origins,
         Quiet(Block(task, s, o), Idle)
  PROVE  Settles
<1>1. Good(task) /\ up
  BY Busy, GoodTask DEF Inductive
<1>2. s \in State
  BY DEF State
<1> QED BY <1>1, <1>2, BlockIdle, Zenon

LEMMA SettleRetry ==
  ASSUME Inductive, worker.pc # "idle", NEW t, Good(t), t.rotations # RotationLimit,
         t.state \in {"MERGE_READY", "RUNNING", "IMPLEMENTED"} =>
           t.state = task.state /\ SameReview(task, t),
         t.state # "BLOCKED_HUMAN",
         NEW kind \in Readers \union {"verification", "implementation"},
         NEW after \in {"idle", "tail"}, Quiet(t, RetryNext(kind, after))
  PROVE  Settles
<1>1. /\ RetryNext(kind, after) \in Workers(main) /\ RetryNext(kind, after).pc = "retry"
      /\ RetryNext(kind, after).given = {}
  BY WorkerRetries DEF Inductive, Types
<1>2. UNCHANGED <<up, main, used, history>> /\ task' = t /\ worker' = RetryNext(kind, after)
  BY DEF Quiet, Step
<1> QED BY <1>1, <1>2, Busy DEF Questioned, Settles, Rests, Idling, Resting

LEMMA TaskRetry ==
  ASSUME Inductive, worker.pc \notin {"idle", "tail", "retry", "advisor"},
         NEW kind \in Readers \union {"verification", "implementation"},
         NEW after \in {"idle", "tail"}, Quiet(task, RetryNext(kind, after))
  PROVE  Settles
<1>1. Good(task) /\ task.rotations # RotationLimit
  BY Busy, GoodTask DEF Inductive
<1>2. task.state # "BLOCKED_HUMAN" /\ worker.pc # "idle"
  BY DEF Inductive, Questioned
<1>3. SameReview(task, task)
  BY DEF SameReview
<1> QED BY <1>1, <1>2, <1>3, SettleRetry

LEMMA TaskError ==
  ASSUME Inductive, worker.pc \notin {"idle", "tail", "retry", "advisor"},
         Quiet(task, VerifyError)
  PROVE  Settles
BY TaskRetry DEF VerifyError

(* The job ends, or goes on to update the pull request.                    *)
LEMMA SettleGo ==
  ASSUME Inductive, worker.pc # "idle", NEW t, Good(t), t.rotations # RotationLimit,
         t.state \notin {"MERGE_READY", "RUNNING", "IMPLEMENTED"},
         NEW pc \in {"idle", "tail"}, Quiet(t, [Idle EXCEPT !.pc = pc])
  PROVE  Settles
<1> DEFINE w == [Idle EXCEPT !.pc = pc]
<1>1. w \in Workers(main) /\ w.pc = pc /\ w.given = {}
  BY WorkerBegins DEF Inductive, Types, Pcs, Resting
<1>2. UNCHANGED <<up, main, used, history>> /\ task' = t /\ worker' = w
  BY DEF Quiet, Step
<1> HIDE DEF w
<1> QED BY <1>1, <1>2, Busy DEF Questioned, Settles, Rests, Idling, Resting

-----------------------------------------------------------------------------
(* What the job does, action by action. *)

LEMMA StartPreflightSettles ==
  ASSUME Inductive, StartPreflight
  PROVE  Settles
<1> DEFINE w == [Idle EXCEPT !.pc = "prepare"]
<1>1. UNCHANGED <<up, main, used, history>> /\ task' = task /\ worker' = w /\ up
      /\ task.state \in {"READY", "FIX"}
  BY DEF StartPreflight, Quiet, Step
<1>2. w \in Workers(main) /\ w.pc = "prepare" /\ w.given = {} /\ w.reading = {}
  BY WorkerBegins DEF Inductive, Types, Pcs
<1> HIDE DEF w
<1>3. Good(task)
  BY GoodTask DEF Inductive
<1>4. task.rotations # RotationLimit
  BY <1>1 DEF Inductive, Types
<1> QED BY <1>1, <1>2, <1>3, <1>4 DEF Questioned, Settles, Rests, Idling

LEMMA LaunchVerificationSettles ==
  ASSUME Inductive, LaunchVerification
  PROVE  Settles
<1> DEFINE w == [Idle EXCEPT !.pc = "verify"]
<1>1. UNCHANGED <<up, main, used, history>> /\ task' = task /\ worker' = w /\ up
      /\ task.state \in {"IMPLEMENTED", "SYNC_REQUIRED", "VERIFYING", "REVIEW"}
  BY DEF LaunchVerification, Quiet, Step
<1>2. w \in Workers(main) /\ w.pc = "verify" /\ w.given = {} /\ w.role = None
  BY WorkerBegins DEF Inductive, Types, Pcs
<1> HIDE DEF w
<1>3. Good(task)
  BY GoodTask DEF Inductive
<1>4. task.rotations # RotationLimit
  BY <1>1 DEF Inductive, Types
<1> QED BY <1>1, <1>2, <1>3, <1>4 DEF Questioned, Settles, Rests, Idling

LEMMA InvalidateSettles ==
  ASSUME Inductive, Invalidate
  PROVE  Settles
<1> DEFINE s == At(task, "SYNC_REQUIRED")
           u == [s EXCEPT !.evidence = None]
<1>1. up /\ task.state = "MERGE_READY" /\ Quiet(u, Idle)
  BY DEF Invalidate
<1>2. Good(s) /\ s.state = "SYNC_REQUIRED" /\ s.rotations = task.rotations
  BY GoodTask, GoodAt DEF Inductive, State
<1> HIDE DEF s
<1>3. /\ u \in Tasks(main) /\ u.evidence = None /\ u.guidance = s.guidance
      /\ u.preflight = s.preflight /\ SameBudget(s, u) /\ u.state = s.state /\ u.rotations = s.rotations
  BY <1>2 DEF Good, Tasks, Evidence, SameBudget
<1> HIDE DEF u
<1>4. Kept(s, u)
  BY <1>3 DEF Kept, QueueKept, AdviceKept, BudgetKept, ReviewKept
<1>5. Good(u) /\ task.rotations # RotationLimit
  BY <1>1, <1>2, <1>3, <1>4, GoodKept DEF Inductive, Types
<1> QED BY <1>1, <1>2, <1>3, <1>5, SettleIdle

(* The invariant stays, and no implementation begins or is completed. *)
Proceeds == Inductive' /\ (task'.state \in {"RUNNING", "IMPLEMENTED"} => task'.state = task.state)

LEMMA SettlesProceeds ==
  ASSUME Inductive, Settles
  PROVE  Proceeds
BY RestsKeeps DEF Settles, Proceeds

(* A step of the job that goes on with a request or a review. *)
Works ==
  /\ up /\ UNCHANGED <<up, main, used>>
  /\ task' \in Tasks(main) /\ task'.rotations # RotationLimit
  /\ worker' \in Workers(main)

LEMMA WorksTypes ==
  ASSUME Inductive, Works, history' \in Histories
  PROVE  Types'
BY DEF Inductive, Types, Works

LEMMA PrepareProceeds ==
  ASSUME Inductive, PreparePreflight
  PROVE  Proceeds
<1>0. worker.pc = "prepare" /\ up /\ task.rotations # RotationLimit /\ Good(task) /\ Types
  BY Busy, GoodTask DEF PreparePreflight, Inductive
<1>1. ASSUME NEW s \in {"READY", "FIX"}, Quiet(Block(task, s, ""), Idle) PROVE Settles
  BY <1>0, <1>1, TaskBlock DEF Origins
<1>2. ASSUME NEW t, NEW w, w = Starting("ask", main), Quiet(t, w),
             \/ t = task
             \/ t = ReusePreflight(task, main, {"FIX"}, FALSE)
             \/ t = [task EXCEPT !.preflight = NewPreflight(task, main)]
      PROVE  Proceeds
  <2>1. t \in Tasks(main) /\ Advises(task, t)
    <3>1. main \in Nat /\ task \in Tasks(main)
      BY <1>0 DEF Types
    <3>2. CASE t = task
      BY <3>1, <3>2, NothingAdvises
    <3>3. CASE t = ReusePreflight(task, main, {"FIX"}, FALSE)
      BY <3>1, <3>3, ReuseAdvises, Zenon
    <3>4. CASE t = [task EXCEPT !.preflight = NewPreflight(task, main)]
      BY <3>1, <3>4, NewAdvises, Zenon
    <3> QED BY <1>2, <3>2, <3>3, <3>4
  <2>2. Good(t)
    BY <1>0, <2>1, AdvisesKept, GoodKept
  <2>3. t.state = task.state /\ t.rotations = task.rotations
    BY <2>1 DEF Advises
  <2>4. w \in Workers(main) /\ w.pc = "ask" /\ w.base = main /\ w.given = {} /\ w.reading = {}
    <3>1. "ask" \in Pcs /\ main \in Nat /\ main \in 0..main
      BY <1>0 DEF Types, Pcs
    <3> QED BY <1>2, <3>1, WorkerStarts
  <2>5. UNCHANGED <<up, main, used, history>> /\ task' = t /\ worker' = w
    BY <1>2 DEF Quiet, Step
  <2>6. Types'
    BY <1>0, <2>2, <2>3, <2>4, <2>5, WorksTypes DEF Works, Good, Types
  <2>7. Where'
    BY <1>0, <2>3, <2>4, <2>5 DEF Where, Inductive, Reviewing
  <2>8. Guided'
    BY <1>0, <2>2, <2>4, <2>5, GuidedKept DEF Inductive, Good, Calls
  <2>9. Budgeted'
    BY <2>2, <2>4, <2>5 DEF Budgeted, Good
  <2>10. Judged'
    BY <2>2, <2>4, <2>5, FoundedKept DEF Judged, Inductive, Good, Reviewing
  <2>11. AcceptedReviewed' /\ task'.state # "BLOCKED_HUMAN"
    BY <1>0, <2>3, <2>5 DEF Questioned, AcceptedReviewed, Inductive, Where
  <2>12. Consulted(task.preflight, history.advised)'
    BY <2>2, <2>5, ConsultedKept DEF Inductive, Good
  <2>13. AcceptedReviewed'
    BY <1>0, <2>3, <2>5 DEF AcceptedReviewed, Inductive, Where
  <2> QED BY <2>3, <2>5, <2>6, <2>7, <2>8, <2>9, <2>10, <2>11, <2>12, <2>13 DEF Questioned, Inductive, Proceeds
<1>3. CASE Settles
  BY <1>3, SettlesProceeds
<1>4. PICK t, w : /\ Quiet(t, w)
                  /\ \/ /\ w = Starting("ask", main)
                        /\ \/ t = task
                           \/ t = ReusePreflight(task, main, {"FIX"}, FALSE)
                           \/ t = [task EXCEPT !.preflight = NewPreflight(task, main)]
                     \/ w = Idle /\ \E s \in {"READY", "FIX"} : t = Block(task, s, "")
  BY Zenon DEF PreparePreflight, Starting
<1> QED BY <1>1, <1>2, <1>3, <1>4, Zenon

LEMMA AskProceeds ==
  ASSUME Inductive, AskPreRole
  PROVE  Proceeds /\ (worker'.pc \in {"advising", "reading"} =>
           worker'.reading = {} /\ <<worker'.role, Policy(worker.base)>> \notin task.spent)
<1> DEFINE base == worker.base
           Goal == Proceeds /\ (worker'.pc \in {"advising", "reading"} =>
             worker'.reading = {} /\ <<worker'.role, Policy(worker.base)>> \notin task.spent)
<1>0. /\ worker.pc = "ask" /\ up /\ task.rotations # RotationLimit /\ Good(task) /\ Types
      /\ base \in 0..main /\ base \in Nat /\ worker.reading = {}
      /\ Charged(task.retries, task.spent) /\ Until(task.retries, base)
  <2>1. worker.pc = "ask" /\ Types /\ Where /\ Budgeted
    BY DEF AskPreRole, Inductive
  <2>2. up /\ task.rotations # RotationLimit /\ Good(task)
    BY <2>1, Busy, GoodTask
  <2>3. base \in 0..main /\ base \in Nat
    BY <2>1 DEF Types, Workers
  <2> QED BY <2>1, <2>2, <2>3 DEF Where, Budgeted
<1>1. ASSUME Settles PROVE Goal
  BY <1>1, SettlesProceeds DEF Settles, Rests, Idling, Resting
<1>2. ASSUME NEW r \in PreRoles, PreflightMatches(task, base), ReaderMayBegin(task, r, base),
             NEW spending, spending = (IF Guard(task, r, base) = 1 THEN {<<r, Policy(base)>>} ELSE {}),
             Quiet([BeginReadOnlyAttempt(task, {r}, base) EXCEPT
                      !.preflight.phase = "running", !.spent = @ \union spending],
                   [worker EXCEPT !.pc = "advising", !.role = r])
      PROVE  Goal
  <2> DEFINE t == BeginReadOnlyAttempt(task, {r}, base)
             p == [t.preflight EXCEPT !.phase = "running"]
             u == [t EXCEPT !.preflight = p, !.spent = t.spent \union spending]
             w == [worker EXCEPT !.pc = "advising", !.role = r]
  <2>1. spending = Narrower(task, {r}, base) /\ r \in Readers
    BY <1>2 DEF Narrower, Readers
  <2>2. /\ t \in Tasks(main) /\ Grants(task, t) /\ Until(t.retries, base)
        /\ Charged(t.retries, task.spent \union spending) /\ spending \subseteq Readers \X Nat
    <3>1. {r} \in SUBSET Readers /\ main \in Nat /\ task \in Tasks(main)
      BY <1>0, <2>1 DEF Types
    <3> QED BY <1>0, <2>1, <3>1, BeginCharged, Zenon
  <2>3. [BeginReadOnlyAttempt(task, {r}, base) EXCEPT
                      !.preflight.phase = "running", !.spent = @ \union spending] = u
    OBVIOUS
  <2> HIDE DEF t
  <2>4. t.preflight \in Advisory /\ t.preflight # None
    BY <1>2, <2>2 DEF PreflightMatches, Grants, Tasks, Preflight
  <2>5. p \in Preflight /\ AdviceKept(t.preflight, p)
    BY <2>4 DEF Preflight, Advisory, AdviceKept
  <2> HIDE DEF p
  <2>6. t.spent = task.spent /\ t.spent \union spending \in SUBSET (Readers \X Nat)
    BY <1>0, <2>2 DEF Grants, Types, Tasks
  <2>7. /\ u \in Tasks(main) /\ u.guidance = t.guidance /\ u.preflight = p
        /\ u.retries = t.retries /\ u.spent = t.spent \union spending /\ SameReview(t, u)
        /\ u.state = t.state /\ u.rotations = t.rotations
    BY <2>2, <2>5, <2>6 DEF Tasks, SameReview
  <2>8. /\ w \in Workers(main) /\ w.pc = "advising" /\ w.role = r
        /\ w.reading = {} /\ w.base = base /\ w.given = worker.given
    BY <1>0, <2>1 DEF Types, Workers, Pcs
  <2>9. UNCHANGED <<up, main, used, history>> /\ task' = u /\ worker' = w
    BY <1>2, <2>3 DEF Quiet, Step
  <2> HIDE DEF u, w
  <2>10. /\ task'.guidance = task.guidance /\ AdviceKept(task.preflight, task'.preflight)
         /\ SameReview(task, task') /\ task'.state = task.state /\ task'.rotations = task.rotations
         /\ Charged(task'.retries, task'.spent) /\ Until(task'.retries, base)
    BY <2>2, <2>5, <2>6, <2>7, <2>9 DEF Grants, SameReview
  <2>11. Types'
    BY <1>0, <2>7, <2>8, <2>9, <2>10, WorksTypes DEF Works, Types
  <2>12. Where'
    BY <1>0, <2>8, <2>9, <2>10 DEF Where, Inductive, Reviewing
  <2>13. Guided'
    BY <1>0, <2>8, <2>9, <2>10, GuidedKept DEF Inductive, QueueKept, Calls
  <2>14. Until(task'.retries, main)
    <3>1. Policy(base) <= Policy(main) /\ Policy(base) \in Nat /\ Policy(main) \in Nat
      BY <1>0, PolicyCounts DEF Types
    <3>2. task'.retries \in Budgets
      BY <2>7, <2>9 DEF Tasks
    <3> QED BY <2>10, <3>1, <3>2 DEF Until, Budgets, Budget
  <2>15. Budgeted'
    BY <2>8, <2>9, <2>10, <2>14 DEF Budgeted
  <2>16. Judged'
    BY <2>8, <2>9, <2>10 DEF Judged, Founded, Inductive, Reviewing, SameReview
  <2>17. AcceptedReviewed' /\ task'.state # "BLOCKED_HUMAN"
    BY <1>0, <2>9, <2>10 DEF Questioned, AcceptedReviewed, Inductive, Where
  <2>18. Consulted(task.preflight, history.advised)'
    BY <2>9, <2>10, ConsultedKept DEF Inductive
  <2>19. <<r, Policy(base)>> \notin task.spent
    BY <1>0, <1>2, <2>1, MayBegin DEF Types
  <2> QED BY <2>8, <2>9, <2>10, <2>11, <2>12, <2>13, <2>15, <2>16, <2>17, <2>18, <2>19
          DEF Questioned, Inductive, Proceeds
<1>3. ASSUME Quiet(task, Idle) PROVE Settles
  BY <1>0, <1>3, TaskIdle
<1>4. ASSUME Quiet(Block(task, "READY", "verification_only"), Idle) PROVE Settles
  BY <1>0, <1>4, TaskBlock DEF Origins
<1>5. ASSUME PreflightMatches(task, base), Quiet([task EXCEPT !.preflight.phase = "ready"], Idle)
      PROVE  Settles
  <2> DEFINE u == [task EXCEPT !.preflight.phase = "ready"]
  <2>1. u \in Tasks(main) /\ Advises(task, u)
    BY <1>0, <1>5, PhaseAdvises DEF PreflightMatches, Types
  <2> HIDE DEF u
  <2>2. Good(u) /\ u.state = task.state /\ u.rotations = task.rotations /\ SameReview(task, u)
    BY <1>0, <2>1, AdvisesKept, GoodKept DEF Advises
  <2>3. Quiet(u, Idle)
    BY <1>5 DEF u
  <2> QED BY <1>0, <2>2, <2>3, SettleIdle
<1> HIDE DEF Goal, base
<1> USE DEF base
<1> QED BY <1>1, <1>2, <1>3, <1>4, <1>5 DEF AskPreRole, Goal

LEMMA UntilLater ==
  ASSUME NEW b \in Nat, NEW m \in Nat, b <= m, NEW r \in Budgets, Until(r, b)
  PROVE  Until(r, m)
<1>1. Policy(b) <= Policy(m) /\ Policy(b) \in Nat /\ Policy(m) \in Nat
  BY PolicyCounts
<1> QED BY <1>1 DEF Until, Budgets, Budget

LEMMA GoodDeadline ==
  ASSUME Inductive, NEW base \in 0..main, Until(task.retries, base), NEW late
  PROVE  /\ Good(RecordReadOnlyDeadline(task, late, base))
         /\ Grants(task, RecordReadOnlyDeadline(task, late, base))
         /\ Until(RecordReadOnlyDeadline(task, late, base).retries, base)
<1> DEFINE u == RecordReadOnlyDeadline(task, late, base)
<1>1. main \in Nat /\ base \in Nat /\ base <= main /\ task \in Tasks(main)
      /\ Charged(task.retries, task.spent)
  BY DEF Inductive, Types, Budgeted
<1>2. /\ u \in Tasks(main) /\ Grants(task, u)
      /\ Charged(u.retries, u.spent) /\ Until(u.retries, base)
  BY <1>1, DeadlineCharged, Zenon
<1> HIDE DEF u
<1>3. u.retries \in Budgets
  BY <1>2 DEF Tasks
<1>4. Until(u.retries, main)
  BY <1>1, <1>2, <1>3, UntilLater
<1>5. Good(u)
  BY <1>2, <1>4 DEF Good, Grants, QueueKept, AdviceKept, ReviewKept, SameReview
<1> QED BY <1>2, <1>5 DEF u

LEMMA AnswerProceeds ==
  ASSUME Inductive, worker.pc = "advising", PreflightMatches(task, worker.base),
         NEW r, r = worker.role,
         Step([task EXCEPT !.preflight.completed = @ \union {r}, !.preflight.phase = "queued"],
              [Idle EXCEPT !.pc = "ask", !.base = worker.base]),
         history' = [history EXCEPT !.advised[r] =
                       [base |-> worker.base, scope |-> PreflightScope(task, worker.base)]]
  PROVE  Proceeds
<1> DEFINE base == worker.base
           c == task.preflight.completed \union {r}
           p == [task.preflight EXCEPT !.completed = c, !.phase = "queued"]
           u == [task EXCEPT !.preflight = p]
           w == Starting("ask", base)
           x == [base |-> base, scope |-> PreflightScope(task, base)]
<1>1. /\ up /\ task.rotations # RotationLimit /\ Types
      /\ base \in 0..main /\ base \in Nat /\ main \in Nat /\ task \in Tasks(main) /\ r \in PreRoles
  BY Busy DEF Inductive, Types, Workers, Where
<1>2. /\ task.preflight \in Advisory /\ task.preflight # None
      /\ task.preflight.base = base /\ task.preflight.scope = PreflightScope(task, base)
  BY <1>1 DEF PreflightMatches, Tasks, Preflight
<1>3. c \in SUBSET PreRoles
  BY <1>1, <1>2 DEF Advisory
<1>4. UNCHANGED <<up, main, used>> /\ task' = u /\ worker' = w
  BY DEF Step, Starting
<1>5. history' = [history EXCEPT !.advised = [history.advised EXCEPT ![r] = x]]
  OBVIOUS
<1>6. x \in [base : Nat, scope : Scopes]
  BY <1>1, ScopeTypes
<1>7. x.base = base /\ x.scope = PreflightScope(task, base)
  OBVIOUS
<1> HIDE DEF c, x
<1>8. /\ p \in Preflight /\ p.base = task.preflight.base /\ p.scope = task.preflight.scope
      /\ p.completed = c
  BY <1>2, <1>3 DEF Advisory, Preflight
<1> HIDE DEF p
<1>9. /\ u \in Tasks(main) /\ u.preflight = p /\ u.guidance = task.guidance /\ SameBudget(task, u)
      /\ SameReview(task, u) /\ u.state = task.state /\ u.rotations = task.rotations
  BY <1>1, <1>8, AdviceChanges
<1>10. w \in Workers(main) /\ w.pc = "ask" /\ w.base = base /\ w.given = {} /\ w.reading = {}
  <2>1. "ask" \in Pcs
    BY DEF Pcs
  <2> QED BY <1>1, <2>1, WorkerStarts
<1> HIDE DEF u, w
<1>11. /\ history'.acked = history.acked /\ history' \in Histories
       /\ history'.advised = [history.advised EXCEPT ![r] = x]
  BY <1>1, <1>5, <1>6 DEF Types, Histories
<1>12. Types'
  BY <1>1, <1>4, <1>9, <1>10, <1>11, WorksTypes DEF Works
<1>13. Where'
  BY <1>4, <1>9, <1>10 DEF Where, Inductive, Reviewing
<1>14. Guided'
  BY <1>1, <1>4, <1>9, <1>10, <1>11, GuidedKept DEF Inductive, QueueKept, Calls
<1>15. Budgeted'
  BY <1>4, <1>9, <1>10 DEF Budgeted, Inductive, SameBudget
<1>16. Judged'
  BY <1>4, <1>9, <1>10 DEF Judged, Founded, Inductive, Reviewing, SameReview
<1>17. AcceptedReviewed' /\ task'.state # "BLOCKED_HUMAN"
  BY <1>4, <1>9 DEF Questioned, AcceptedReviewed, Inductive, Where
<1>18. Consulted(task.preflight, history.advised)'
  <2>1. /\ Consulted(task.preflight, history.advised)
        /\ history.advised \in [PreRoles ->
             [base : Nat, scope : Scopes] \union {None}]
    BY <1>1 DEF Inductive, Types, Histories
  <2>2. ASSUME NEW q \in c PROVE history'.advised[q] = [base |-> p.base, scope |-> p.scope]
    <3>1. q \in PreRoles
      BY <1>3 DEF c
    <3>2. CASE q = r
      BY <1>2, <1>8, <1>11, <2>1, <3>1, <3>2 DEF x
    <3>3. CASE q # r
      BY <1>2, <1>8, <1>11, <2>1, <3>1, <3>3 DEF c, Consulted
    <3> QED BY <3>2, <3>3
  <2> QED BY <1>4, <1>8, <1>9, <2>2 DEF Consulted
<1> QED BY <1>4, <1>9, <1>10, <1>12, <1>13, <1>14, <1>15, <1>16, <1>17, <1>18 DEF Questioned, Inductive, Proceeds

LEMMA AdvisedProceeds ==
  ASSUME Inductive, Advised
  PROVE  Proceeds
<1> DEFINE base == worker.base
           late == RecordReadOnlyDeadline(task, {worker.role}, base)
<1>0. /\ worker.pc = "advising" /\ up /\ task.rotations # RotationLimit /\ Good(task) /\ Types
      /\ base \in 0..main /\ Until(task.retries, base)
  <2>1. worker.pc = "advising" /\ Types /\ Budgeted
    BY DEF Advised, Inductive
  <2>2. up /\ task.rotations # RotationLimit /\ Good(task)
    BY <2>1, Busy, GoodTask
  <2>3. base \in 0..main
    BY <2>1 DEF Types, Workers
  <2> QED BY <2>1, <2>2, <2>3 DEF Budgeted
<1>1. ASSUME Settles PROVE Proceeds
  BY <1>1, SettlesProceeds
<1>2. ASSUME Quiet(task, Idle) PROVE Settles
  BY <1>0, <1>2, TaskIdle
<1>3. ASSUME Quiet(Block(task, "READY", ""), Idle) PROVE Settles
  BY <1>0, <1>3, TaskBlock DEF Origins
<1>4. ASSUME Quiet(task, RetryNext("implementation", "idle")) PROVE Settles
  BY <1>0, <1>4, TaskRetry
<1>5. ASSUME Quiet(Block(task, task.state, ""), Idle) PROVE Settles
  <2>1. task.state \in State /\ "" \in Origins
    BY <1>0 DEF Types, Tasks, Origins
  <2> QED BY <1>0, <1>5, <2>1, BlockIdle, Zenon
<1>6. Good(late) /\ Grants(task, late)
  BY <1>0, GoodDeadline, Zenon
<1> HIDE DEF late
<1>7. late.state = task.state /\ late.rotations = task.rotations /\ SameReview(task, late)
  BY <1>6 DEF Grants
<1>8. ASSUME Quiet(late, Idle) PROVE Settles
  BY <1>0, <1>6, <1>7, <1>8, SettleIdle
<1>9. ASSUME late.preflight # None, Quiet([late EXCEPT !.preflight.phase = "queued"], Idle) PROVE Settles
  <2> DEFINE u == [late EXCEPT !.preflight.phase = "queued"]
  <2>1. u \in Tasks(main) /\ Advises(late, u)
    BY <1>0, <1>6, <1>9, PhaseAdvises DEF Good, Types
  <2>2. Quiet(u, Idle)
    BY <1>9
  <2> HIDE DEF u
  <2>3. Good(u) /\ u.state = task.state /\ u.rotations = task.rotations /\ SameReview(task, u)
    BY <1>6, <1>7, <2>1, AdvisesKept, GoodKept DEF Advises, SameReview
  <2> QED BY <1>0, <2>2, <2>3, SettleIdle
<1>10. ASSUME Quiet(Block(late, "READY", "verification_only"), Idle) PROVE Settles
  <2>1. "READY" \in State /\ "verification_only" \in Origins
    BY DEF State, Origins
  <2> QED BY <1>0, <1>6, <1>10, <2>1, BlockIdle, Zenon
<1>11. CASE /\ PreflightMatches(task, base)
            /\ Step([task EXCEPT !.preflight.completed = @ \union {worker.role},
                                 !.preflight.phase = "queued"],
                    [Idle EXCEPT !.pc = "ask", !.base = base])
            /\ history' = [history EXCEPT !.advised[worker.role] =
                             [base |-> base, scope |-> PreflightScope(task, base)]]
  BY <1>0, <1>11, AnswerProceeds
<1> QED BY <1>1, <1>2, <1>3, <1>4, <1>5, <1>8, <1>9, <1>10, <1>11, Zenon DEF Advised, late

LEMMA FetchSettles ==
  ASSUME Inductive, FetchForWriter
  PROVE  Settles
<1>1. /\ UNCHANGED <<up, main, used, history>> /\ task' = task
      /\ worker' = Starting("admitting", main) /\ up /\ task.state \in {"READY", "FIX"}
  BY DEF FetchForWriter, Quiet, Step, Starting
<1>2. main \in Nat /\ main \in 0..main /\ "admitting" \in Pcs
  BY DEF Inductive, Types, Pcs
<1>3. worker' \in Workers(main) /\ worker'.pc = "admitting" /\ worker'.given = {}
  BY <1>1, <1>2, WorkerStarts
<1>4. Good(task) /\ task.rotations # RotationLimit
  BY <1>1, GoodTask DEF Inductive, Types
<1> QED BY <1>1, <1>3, <1>4 DEF Settles, Rests, Idling, Questioned

LEMMA AdmissionSettles ==
  ASSUME Inductive, AdmissionFails
  PROVE  Settles
BY TaskIdle DEF AdmissionFails

LEMMA AdmitRests ==
  ASSUME Inductive, AdmitWriter
  PROVE  Rests
<1> DEFINE s == At(task, "RUNNING")
           u == [s EXCEPT !.preflight.phase = "writing"]
           w == [Idle EXCEPT !.pc = "implement"]
           v == [task EXCEPT !.preflight = None]
<1>0. /\ worker.pc = "admitting" /\ up /\ Types /\ Good(task)
      /\ main \in Nat /\ task \in Tasks(main) /\ task.rotations # RotationLimit
  BY Busy, GoodTask DEF AdmitWriter, Inductive, Types
<1>1. ASSUME task.preflight # None, Quiet(u, w) PROVE Rests
  <2>1. Good(s) /\ s.state = "RUNNING" /\ s.rotations = task.rotations
    BY <1>0, GoodAt DEF State
  <2>2. Plain(task, s)
    BY <1>0, AtIsPlain DEF State
  <2> HIDE DEF s
  <2>3. u \in Tasks(main) /\ Advises(s, u)
    BY <1>0, <1>1, <2>1, <2>2, PhaseAdvises DEF Good, Plain
  <2>4. UNCHANGED <<up, main, used, history>> /\ task' = u /\ worker' = w
    BY <1>1 DEF Quiet, Step
  <2> HIDE DEF u
  <2>5. Good(u) /\ u.state = "RUNNING" /\ u.rotations # RotationLimit
    BY <1>0, <2>1, <2>3, AdvisesKept, GoodKept DEF Advises
  <2>6. w \in Workers(main) /\ w.pc = "implement" /\ w.given = {}
    BY <1>0, WorkerBegins DEF Pcs
  <2> HIDE DEF w
  <2> QED BY <1>0, <2>4, <2>5, <2>6 DEF Rests, Idling, Questioned
<1>2. ASSUME Quiet(v, Idle) PROVE Settles
  <2>1. None \in Preflight /\ AdviceKept(task.preflight, None)
    BY DEF Preflight, AdviceKept
  <2>2. v \in Tasks(main) /\ Advises(task, v)
    BY <1>0, <2>1, AdviceAdvises
  <2> HIDE DEF v
  <2>3. Good(v) /\ v.state = task.state /\ v.rotations = task.rotations /\ SameReview(task, v)
    BY <1>0, <2>2, AdvisesKept, GoodKept DEF Advises
  <2> QED BY <1>0, <1>2, <2>3, SettleIdle
<1>3. PreflightMatches(task, worker.base) => task.preflight # None
  BY Zenon DEF PreflightMatches
<1> QED BY <1>1, <1>2, <1>3, Zenon DEF AdmitWriter, Settles

(* A call goes on, or its result is being looked at. *)
LEMMA CallProceeds ==
  ASSUME Inductive, worker.pc \in Calls, NEW t, Good(t),
         t.state = task.state, t.rotations = task.rotations,
         NEW w \in Workers(main), w.given = worker.given, w.start = worker.start,
         w.pc \in Calls, w.pc \in {"calling", "checkpointing"} => worker.pc \in {"calling", "checkpointing"},
         Quiet(t, w)
  PROVE  Proceeds
<1>1. UNCHANGED <<up, main, used, history>> /\ task' = t /\ worker' = w
  BY DEF Quiet, Step
<1>2. up /\ task.rotations # RotationLimit /\ Types
  BY Busy DEF Inductive, Calls
<1>3. Types'
  BY <1>1, <1>2, WorksTypes DEF Works, Good, Types
<1>4. Where'
  BY <1>1 DEF Where, Inductive, Reviewing, Calls
<1>5. Guided'
  BY <1>1, <1>2, GuidedKept DEF Inductive, Good
<1>6. Budgeted'
  BY <1>1 DEF Budgeted, Good, Reviewing, Calls
<1>7. Judged'
  BY <1>1, FoundedKept DEF Judged, Inductive, Good, Reviewing, Calls
<1>8. AcceptedReviewed' /\ task'.state # "BLOCKED_HUMAN"
  BY <1>1 DEF Questioned, AcceptedReviewed, Inductive, Where, Calls
<1>9. Consulted(task.preflight, history.advised)'
  BY <1>1, ConsultedKept DEF Inductive, Good
<1> QED BY <1>1, <1>3, <1>4, <1>5, <1>6, <1>7, <1>8, <1>9 DEF Questioned, Inductive, Proceeds

LEMMA PassProceeds ==
  ASSUME Inductive, CheckpointPass
  PROVE  Proceeds
<1>1. worker.pc = "calling" /\ Quiet(task, Go("checkpointing"))
  BY DEF CheckpointPass
<1>2. Good(task) /\ worker \in Workers(main)
  BY GoodTask DEF Inductive, Types
<1>3. Go("checkpointing") \in Workers(main) /\ Go("checkpointing").pc = "checkpointing"
      /\ Go("checkpointing").given = worker.given /\ Go("checkpointing").start = worker.start
  BY <1>2 DEF Go, Workers, Pcs
<1> QED BY <1>1, <1>2, <1>3, CallProceeds DEF Calls

LEMMA CallImplementerProceeds ==
  ASSUME Inductive, CallImplementer
  PROVE  Proceeds
<1> DEFINE given == Ids(EligibleGuidance(task, main))
           n == Len(task.guidance)
           w == [Idle EXCEPT !.pc = "calling", !.base = main, !.start = n, !.given = given]
           q == task.guidance
<1>0. /\ worker.pc = "implement" /\ up /\ task.rotations # RotationLimit /\ Good(task) /\ Types
      /\ main \in Nat /\ task \in Tasks(main) /\ q \in Queues
  BY Busy, GoodTask DEF CallImplementer, Inductive, Types, Tasks
<1>1. ASSUME Settles PROVE Proceeds
  BY <1>1, SettlesProceeds
<1>2. ASSUME NEW s \in {"READY", "FIX"}, Quiet(Block(task, s, ""), Idle) PROVE Settles
  BY <1>0, <1>2, TaskBlock DEF Origins
<1>3. ASSUME Quiet(task, w) PROVE Proceeds
  <2>1. /\ n \in Nat /\ DOMAIN q = 1..n
        /\ \A i \in DOMAIN q : q[i] \in Correct
    BY <1>0, QueueTypes
  <2>2. ASSUME NEW k \in given PROVE \E i \in DOMAIN q : k = q[i].id /\ Eligible(q[i], main)
    BY <2>2 DEF Ids, EligibleGuidance, ToSet
  <2>3. ASSUME NEW i \in DOMAIN q, Eligible(q[i], main) PROVE q[i].id \in given
    BY <2>3 DEF Ids, EligibleGuidance, ToSet
  <2> HIDE DEF given
  <2>4. given \in SUBSET Nat
    BY <2>1, <2>2 DEF Correct
  <2> HIDE DEF n
  <2>5. w \in Workers(main) /\ w.pc = "calling" /\ w.given = given /\ w.start = n
    <3>1. Idle \in Workers(main)
      BY <1>0, IdleWorker
    <3>2. "calling" \in Pcs
      BY DEF Pcs
    <3>3. main \in 0..main
      BY <1>0
    <3> QED BY <2>1, <2>4, <3>1, <3>2, <3>3 DEF Workers
  <2>6. UNCHANGED <<up, main, used, history>> /\ task' = task /\ worker' = w
    BY <1>3 DEF Quiet, Step
  <2> HIDE DEF w
  <2>7. Types'
    BY <1>0, <2>5, <2>6, WorksTypes DEF Works, Types
  <2>8. Where'
    BY <1>0, <2>5, <2>6 DEF Where, Inductive, Reviewing
  <2>9. Numbered(q, used["guide"]) /\ Marked(q, history.acked) /\ Prompted
    BY DEF Inductive, Guided
  <2>10. Prompted'
    <3>1. \A k \in given : k <= used["guide"]
      BY <2>2, <2>9 DEF Numbered
    <3>2. ASSUME NEW i \in DOMAIN q, q[i].operator, q[i].id \in given PROVE ~q[i].delivered
      <4>1. PICK j \in DOMAIN q : q[i].id = q[j].id /\ Eligible(q[j], main)
        BY <2>2, <3>2
      <4>2. i = j
        BY <2>9, <4>1 DEF Numbered
      <4> QED BY <3>2, <4>1, <4>2 DEF Eligible
    <3>3. ASSUME NEW i \in DOMAIN q, ~q[i].operator PROVE q[i].id \in given
      BY <2>3, <3>3 DEF Eligible
    <3>4. n <= Len(task.guidance)
      BY <2>1 DEF n
    <3> QED BY <2>5, <2>6, <2>9, <3>1, <3>2, <3>3, <3>4 DEF Prompted
  <2>11. Guided'
    BY <2>6, <2>9, <2>10 DEF Guided
  <2>12. Budgeted' /\ Judged' /\ Consulted(task.preflight, history.advised)'
    BY <2>5, <2>6 DEF Budgeted, Judged, Inductive, Reviewing
  <2>13. AcceptedReviewed' /\ task'.state # "BLOCKED_HUMAN"
    BY <1>0, <2>6 DEF Questioned, AcceptedReviewed, Inductive, Where
  <2> QED BY <2>6, <2>7, <2>8, <2>11, <2>12, <2>13 DEF Questioned, Inductive, Proceeds
<1>4. \/ Quiet(task, w)
      \/ \E s \in {"READY", "FIX"} : Quiet(Block(task, s, ""), Idle)
  BY Zenon DEF CallImplementer
<1> QED BY <1>1, <1>2, <1>3, <1>4

(* What a call acknowledged is marked. *)
LEMMA DeliveredQueue ==
  ASSUME NEW q \in Queues, NEW ids, NEW acked, Marked(q, acked),
         NEW f, f = [i \in DOMAIN q |->
                       [q[i] EXCEPT !.delivered = @ \/ (q[i].operator /\ q[i].id \in ids)]]
  PROVE  /\ f \in Queues /\ DOMAIN f = DOMAIN q /\ Len(f) = Len(q)
         /\ \A i \in DOMAIN q : f[i].id = q[i].id /\ f[i].operator = q[i].operator
         /\ Marked(f, acked \union ids)
<1> DEFINE d(i) == q[i].delivered \/ (q[i].operator /\ q[i].id \in ids)
<1>1. ASSUME NEW i \in DOMAIN q
      PROVE  /\ q[i] \in Correct /\ d(i) \in BOOLEAN
             /\ f[i] = [q[i] EXCEPT !.delivered = d(i)]
  BY QueueTypes, Zenon DEF Correct
<1>2. f = [i \in DOMAIN q |-> f[i]]
  OBVIOUS
<1>3. ASSUME NEW i \in DOMAIN q
      PROVE  /\ f[i] \in Correct /\ f[i].id = q[i].id /\ f[i].operator = q[i].operator
             /\ f[i].delivered = d(i)
  <2>1. PICK b \in BOOLEAN : b = d(i) /\ f[i] = [q[i] EXCEPT !.delivered = b]
    BY <1>1, Zenon
  <2> HIDE DEF d
  <2> QED BY <1>1, <2>1 DEF Correct
<1>4. f \in Queues /\ DOMAIN f = DOMAIN q /\ Len(f) = Len(q)
  <2>1. \A i \in DOMAIN q : f[i] \in Correct
    BY <1>3
  <2> QED BY ONLY q \in Queues, <1>2, <2>1, QueueMapped
<1>5. Marked(f, acked \union ids)
  BY <1>3, <1>4, Zenon DEF Marked
<1> QED BY <1>3, <1>4, <1>5

LEMMA QueueChanges ==
  ASSUME NEW m \in Nat, NEW t \in Tasks(m), NEW f \in Queues,
         NEW u, u = [t EXCEPT !.guidance = f]
  PROVE  /\ u \in Tasks(m) /\ u.guidance = f /\ u.preflight = t.preflight
         /\ SameBudget(t, u) /\ SameReview(t, u)
         /\ u.state = t.state /\ u.rotations = t.rotations
BY DEF Tasks, SameBudget, SameReview

LEMMA ReturnsProceeds ==
  ASSUME Inductive, ImplementerReturns
  PROVE  Proceeds
<1> DEFINE q == task.guidance
           f == [i \in DOMAIN q |->
                   [q[i] EXCEPT !.delivered = @ \/ (q[i].operator /\ q[i].id \in worker.given)]]
           u == [task EXCEPT !.guidance = f]
<1>0. /\ worker.pc \in {"calling", "checkpointing"} /\ up /\ task.rotations # RotationLimit
      /\ Good(task) /\ Types /\ main \in Nat /\ task \in Tasks(main) /\ q \in Queues
      /\ worker \in Workers(main) /\ Marked(q, history.acked)
  BY Busy, GoodTask DEF ImplementerReturns, Inductive, Types, Tasks, Guided
<1>1. ASSUME NEW result \in Results \union {"handoff", "error", "auth"},
             NEW w, w = [worker EXCEPT !.pc = "checkpoint", !.result = result]
      PROVE  /\ w \in Workers(main) /\ w.pc = "checkpoint" /\ w.given = worker.given
             /\ w.start = worker.start
  <2>1. "checkpoint" \in Pcs
    BY DEF Pcs
  <2> QED BY <1>0, <1>1, <2>1 DEF Workers
<1>2. ASSUME NEW result \in {"error", "auth"},
             Quiet(task, [worker EXCEPT !.pc = "checkpoint", !.result = result])
      PROVE  Proceeds
  <2>1. PICK w : w = [worker EXCEPT !.pc = "checkpoint", !.result = result]
    OBVIOUS
  <2>2. w \in Workers(main) /\ w.pc = "checkpoint" /\ w.given = worker.given /\ w.start = worker.start
    BY <1>1, <2>1
  <2>3. Quiet(task, w)
    BY <1>2, <2>1
  <2> QED BY <1>0, <2>2, <2>3, CallProceeds DEF Calls
<1>3. ASSUME NEW result \in Results \union {"handoff"},
             Step(MarkOperatorGuidanceDelivered(task, worker.given),
                  [worker EXCEPT !.pc = "checkpoint", !.result = result]),
             history' = [history EXCEPT !.acked = @ \union worker.given]
      PROVE  Proceeds
  <2>1. PICK w : w = [worker EXCEPT !.pc = "checkpoint", !.result = result]
    OBVIOUS
  <2>2. w \in Workers(main) /\ w.pc = "checkpoint" /\ w.given = worker.given /\ w.start = worker.start
    BY <1>1, <2>1
  <2>3. UNCHANGED <<up, main, used>> /\ task' = u /\ worker' = w
    <3>1. MarkOperatorGuidanceDelivered(task, worker.given) = u
      BY Zenon DEF MarkOperatorGuidanceDelivered
    <3> HIDE DEF u, f
    <3> QED BY <1>3, <2>1, <3>1 DEF Step
  <2>4. /\ f \in Queues /\ DOMAIN f = DOMAIN q /\ Len(f) = Len(q)
        /\ \A i \in DOMAIN q : f[i].id = q[i].id /\ f[i].operator = q[i].operator
        /\ Marked(f, history.acked \union worker.given)
    BY <1>0, DeliveredQueue, Zenon
  <2> HIDE DEF f
  <2>5. /\ u \in Tasks(main) /\ u.guidance = f /\ u.preflight = task.preflight
        /\ SameBudget(task, u) /\ SameReview(task, u)
        /\ u.state = task.state /\ u.rotations = task.rotations
    BY <1>0, <2>4, QueueChanges
  <2> HIDE DEF u
  <2>6. /\ history' \in Histories /\ history'.acked = history.acked \union worker.given
        /\ history'.advised = history.advised
    BY <1>0, <1>3 DEF Types, Histories, Workers
  <2>7. Types'
    BY <1>0, <2>2, <2>3, <2>5, <2>6, WorksTypes DEF Works
  <2>8. Where'
    BY <1>0, <2>2, <2>3, <2>5 DEF Where, Inductive, Reviewing
  <2>9. Numbered(task.guidance, used["guide"])'
    BY <2>3, <2>4, <2>5 DEF Inductive, Guided, Numbered
  <2>10. Marked(task.guidance, history.acked)'
    BY <2>3, <2>4, <2>5, <2>6
  <2>11. Prompted'
    BY <1>0, <2>2, <2>3, <2>4, <2>5, <2>6 DEF Inductive, Guided, Prompted
  <2>12. Guided'
    BY <2>9, <2>10, <2>11 DEF Guided
  <2>13. Budgeted' /\ Judged' /\ Consulted(task.preflight, history.advised)'
    BY <2>2, <2>3, <2>5, <2>6
       DEF Budgeted, Judged, Founded, Inductive, Reviewing, SameBudget, SameReview, Consulted
  <2>14. AcceptedReviewed' /\ task'.state # "BLOCKED_HUMAN"
    BY <1>0, <2>3, <2>5 DEF Questioned, AcceptedReviewed, Inductive, Where
  <2> QED BY <2>3, <2>5, <2>7, <2>8, <2>12, <2>13, <2>14 DEF Questioned, Inductive, Proceeds
<1>4. \/ \E result \in Results \union {"handoff"} :
           /\ Step(MarkOperatorGuidanceDelivered(task, worker.given),
                   [worker EXCEPT !.pc = "checkpoint", !.result = result])
           /\ history' = [history EXCEPT !.acked = @ \union worker.given]
      \/ \E result \in {"error", "auth"} :
           Quiet(task, [worker EXCEPT !.pc = "checkpoint", !.result = result])
  BY Zenon DEF ImplementerReturns
<1> QED BY <1>2, <1>3, <1>4

LEMMA HeadGood ==
  ASSUME Inductive, worker.pc # "idle", NEW t \in Heads(task) \union {task, Recheckpointed(task)}
  PROVE  /\ Good(t) /\ t.state = task.state /\ t.rotations = task.rotations
         /\ t.rotations # RotationLimit
<1>1. Good(task) /\ task.rotations # RotationLimit /\ main \in Nat /\ task \in Tasks(main)
  BY Busy, GoodTask DEF Inductive, Types
<1>2. t \in Tasks(main) /\ Kept(task, t) /\ t.state = task.state /\ t.rotations = task.rotations
  BY <1>1, HeadsMove
<1> QED BY <1>1, <1>2, GoodKept

LEMMA RotationCounts ==
  ASSUME NEW m \in Nat, NEW t \in Tasks(m), NEW n \in 0..RotationLimit,
         NEW u, u = [t EXCEPT !.rotations = n]
  PROVE  u \in Tasks(m) /\ Plain(t, u) /\ u.state = t.state /\ u.rotations = n
BY DEF Tasks, Plain, SameBudget, SameReview

LEMMA RotatedSettles ==
  ASSUME Inductive, worker.pc # "idle", NEW t, Good(t), t.rotations # RotationLimit,
         NEW base, NEW findings, Quiet(Rotated(t, base, findings), Idle)
  PROVE  Settles
<1> DEFINE next == [t EXCEPT !.rotations = @ + 1]
           ready == At(next, "READY")
           reuse == ReusePreflight(ready, base, {"READY", "FIX"}, FALSE)
<1>0. Types /\ up /\ main \in Nat /\ t \in Tasks(main)
  BY Busy DEF Inductive, Types, Good
<1>1. Good(next) /\ next.rotations \in 0..RotationLimit /\ RotationLimit \in Nat
  <2> DEFINE n == t.rotations + 1
  <2>1. n \in 0..RotationLimit /\ RotationLimit \in Nat
    BY <1>0, LifecycleAssumption DEF Tasks
  <2>2. next = [t EXCEPT !.rotations = n]
    OBVIOUS
  <2> HIDE DEF n, next
  <2>3. next \in Tasks(main) /\ Plain(t, next) /\ next.rotations = n
    BY <1>0, <2>1, <2>2, RotationCounts
  <2> QED BY <2>1, <2>3, PlainKept, GoodKept
<1> HIDE DEF next
<1>2. /\ Good(ready) /\ ready.state = "READY" /\ ready.rotations = next.rotations
  BY <1>0, <1>1, GoodAt DEF State
<1> HIDE DEF ready
<1>3. Good(reuse) /\ reuse.state = "READY" /\ reuse.rotations = next.rotations
  <2>1. reuse \in Tasks(main) /\ Advises(ready, reuse)
    BY <1>0, <1>2, ReuseAdvises, Zenon DEF Good
  <2> HIDE DEF reuse
  <2> QED BY <1>2, <2>1, AdvisesKept, GoodKept DEF Advises
<1> HIDE DEF reuse
<1>4. ASSUME Quiet(Block(next, "READY", ""), Idle) PROVE Settles
  <2>1. "READY" \in State /\ "" \in Origins
    BY DEF State, Origins
  <2> QED BY <1>0, <1>1, <1>4, <2>1, BlockIdle, Zenon
<1>5. ASSUME NEW u \in {ready, reuse}, next.rotations < RotationLimit, Quiet(u, Idle) PROVE Settles
  <2>1. u.rotations # RotationLimit /\ Good(u) /\ u.state = "READY"
    BY <1>1, <1>2, <1>3, <1>5
  <2> QED BY <1>0, <1>5, <2>1, SettleIdle
<1>7. CASE next.rotations >= RotationLimit
  <2>1. Rotated(t, base, findings) = Block(next, "READY", "")
    BY <1>7 DEF Rotated, next
  <2> QED BY <1>4, <2>1
<1>8. CASE ~(next.rotations >= RotationLimit)
  <2>1. Rotated(t, base, findings) \in {ready, reuse}
    BY <1>8 DEF Rotated, next, ready, reuse
  <2> QED BY <1>1, <1>5, <1>8, <2>1
<1> QED BY <1>7, <1>8

LEMMA CheckpointProceeds ==
  ASSUME Inductive, Checkpoint
  PROVE  Proceeds
<1>0. /\ worker.pc = "checkpoint" /\ up /\ Types /\ worker \in Workers(main)
  BY Busy DEF Checkpoint, Inductive, Types
<1>1. ASSUME Settles PROVE Proceeds
  BY <1>1, SettlesProceeds
<1>2. ASSUME Quiet(Block(task, "READY", ""), Idle) PROVE Settles
  BY <1>0, <1>2, TaskBlock DEF Origins
<1>3. ASSUME NEW t \in {task, Recheckpointed(task)}, NEW findings, Quiet(Rotated(t, main, findings), Idle)
      PROVE  Settles
  BY <1>0, <1>3, HeadGood, RotatedSettles
<1>4. ASSUME NEW t \in Heads(task) \union {task}, Quiet(t, Go("signed_out")) PROVE Settles
  <2>1. Good(t) /\ t.state = task.state /\ t.rotations # RotationLimit
    BY <1>0, HeadGood
  <2>2. Go("signed_out") \in Workers(main) /\ Go("signed_out").pc = "signed_out"
        /\ Go("signed_out").given = worker.given
    BY <1>0 DEF Go, Workers, Pcs
  <2>3. UNCHANGED <<up, main, used, history>> /\ task' = t /\ worker' = Go("signed_out")
    BY <1>4 DEF Quiet, Step
  <2>4. task.state # "MERGE_READY" /\ task.state # "BLOCKED_HUMAN"
    BY <1>0 DEF Questioned, Inductive, Where
  <2> QED BY <1>0, <2>1, <2>2, <2>3, <2>4 DEF Questioned, Settles, Rests, Idling
<1>5. ASSUME NEW t \in Heads(task), Quiet(t, Go("conclude")) PROVE Proceeds
  <2>1. Good(t) /\ t.state = task.state /\ t.rotations = task.rotations
    BY <1>0, HeadGood
  <2>2. Go("conclude") \in Workers(main) /\ Go("conclude").pc = "conclude"
        /\ Go("conclude").given = worker.given /\ Go("conclude").start = worker.start
    BY <1>0 DEF Go, Workers, Pcs
  <2> QED BY <1>0, <1>5, <2>1, <2>2, CallProceeds DEF Calls
<1> QED BY <1>1, <1>2, <1>3, <1>4, <1>5 DEF Checkpoint

LEMMA SignedOutSettles ==
  ASSUME Inductive, SignedOut
  PROVE  Settles
BY TaskBlock DEF SignedOut, Origins

LEMMA VerificationChanges ==
  ASSUME NEW m \in Nat, NEW t \in Tasks(m), NEW v \in Verification,
         NEW u, u = [t EXCEPT !.verification = v]
  PROVE  u \in Tasks(m) /\ Plain(t, u) /\ u.state = t.state /\ u.rotations = t.rotations
BY DEF Tasks, Plain, SameBudget, SameReview

LEMMA CarriedQueue ==
  ASSUME NEW q \in Queues, NEW start,
         NEW f, f = [i \in DOMAIN q |->
                       [q[i] EXCEPT !.pending = @ \/ (/\ i > start
                                                      /\ q[i].operator
                                                      /\ ~q[i].delivered
                                                      /\ ~q[i].atHead)]]
  PROVE  f \in Queues /\ QueueKept(q, f)
<1> DEFINE d(i) == q[i].pending \/ (i > start /\ q[i].operator /\ ~q[i].delivered /\ ~q[i].atHead)
<1>1. ASSUME NEW i \in DOMAIN q
      PROVE  /\ q[i] \in Correct /\ d(i) \in BOOLEAN
             /\ f[i] = [q[i] EXCEPT !.pending = d(i)]
  BY QueueTypes, Zenon DEF Correct
<1>2. f = [i \in DOMAIN q |-> f[i]]
  OBVIOUS
<1>3. ASSUME NEW i \in DOMAIN q
      PROVE  /\ f[i] \in Correct /\ f[i].id = q[i].id /\ f[i].operator = q[i].operator
             /\ f[i].delivered = q[i].delivered
  <2>1. PICK b \in BOOLEAN : b = d(i) /\ f[i] = [q[i] EXCEPT !.pending = b]
    BY <1>1, Zenon
  <2> HIDE DEF d
  <2> QED BY <1>1, <2>1 DEF Correct
<1>4. f \in Queues /\ DOMAIN f = DOMAIN q /\ Len(f) = Len(q)
  <2>1. \A i \in DOMAIN q : f[i] \in Correct
    BY <1>3
  <2> QED BY ONLY q \in Queues, <1>2, <2>1, QueueMapped
<1> QED BY <1>3, <1>4 DEF QueueKept

LEMMA CarriedGood ==
  ASSUME Types, NEW t, Good(t), NEW start
  PROVE  /\ Good(CarryLateOperatorGuidance(t, start))
         /\ CarryLateOperatorGuidance(t, start).rotations = t.rotations
<1> DEFINE q == t.guidance
           f == [i \in DOMAIN q |->
                   [q[i] EXCEPT !.pending = @ \/ (/\ i > start
                                                  /\ q[i].operator
                                                  /\ ~q[i].delivered
                                                  /\ ~q[i].atHead)]]
           u == [t EXCEPT !.guidance = f]
<1>0. main \in Nat /\ t \in Tasks(main) /\ q \in Queues
  BY DEF Types, Good, Tasks
<1>1. CarryLateOperatorGuidance(t, start) = u
  BY Zenon DEF CarryLateOperatorGuidance
<1>2. f \in Queues /\ QueueKept(q, f)
  BY <1>0, CarriedQueue, Zenon
<1> HIDE DEF f
<1>3. /\ u \in Tasks(main) /\ u.guidance = f /\ u.preflight = t.preflight
      /\ SameBudget(t, u) /\ SameReview(t, u) /\ u.rotations = t.rotations
  BY <1>0, <1>2, QueueChanges
<1> HIDE DEF u
<1>4. Kept(t, u)
  BY <1>2, <1>3 DEF Kept, AdviceKept, BudgetKept, ReviewKept, SameReview
<1> QED BY <1>1, <1>3, <1>4, GoodKept

(* Only a call that missed no guidance completes the implementation. *)
LEMMA ConcludeRests ==
  ASSUME Inductive, Conclude
  PROVE  /\ Rests
         /\ task'.state = "RUNNING" => task.state = "RUNNING"
         /\ task'.state = "IMPLEMENTED" /\ task.state # "IMPLEMENTED" => ~Late(task, worker.start)
<1> DEFINE Goal == /\ Rests
                   /\ task'.state = "RUNNING" => task.state = "RUNNING"
                   /\ task'.state = "IMPLEMENTED" /\ task.state # "IMPLEMENTED" => ~Late(task, worker.start)
           carried == CarryLateOperatorGuidance(task, worker.start)
           s == At(task, "IMPLEMENTED")
           v == IF worker.result = "native" THEN NativeGuard(task) ELSE s.verification
           u == [s EXCEPT !.verification = v]
           w == [Idle EXCEPT !.pc = "verify"]
<1>0. /\ worker.pc = "conclude" /\ up /\ Types /\ Good(task) /\ task.rotations # RotationLimit
      /\ main \in Nat /\ task \in Tasks(main)
  BY Busy, GoodTask DEF Conclude, Inductive, Types
<1>1. ASSUME Settles PROVE Goal
  BY <1>1 DEF Settles
<1>2. ASSUME Quiet(At(carried, "READY"), Idle) PROVE Settles
  <2>1. Good(carried) /\ carried.rotations = task.rotations
    BY <1>0, CarriedGood
  <2> HIDE DEF carried
  <2>2. /\ Good(At(carried, "READY")) /\ At(carried, "READY").state = "READY"
        /\ At(carried, "READY").rotations = task.rotations
    BY <1>0, <2>1, GoodAt DEF State
  <2> QED BY <1>0, <1>2, <2>2, SettleIdle
<1>3. ASSUME ~Late(task, worker.start), Quiet(u, w) PROVE Goal
  <2>1. Good(s) /\ s.state = "IMPLEMENTED" /\ s.rotations = task.rotations
    BY <1>0, GoodAt DEF State
  <2> HIDE DEF s
  <2>2. v \in Verification
    <3>1. NativeGuard(task) \in Verification
      BY DEF NativeGuard, Verification, Classes
    <3>2. s.verification \in Verification
      BY <2>1 DEF Good, Tasks
    <3> QED BY <3>1, <3>2
  <2> HIDE DEF v
  <2>3. u \in Tasks(main) /\ Plain(s, u) /\ u.state = s.state /\ u.rotations = s.rotations
    BY <1>0, <2>1, <2>2, VerificationChanges DEF Good
  <2>4. UNCHANGED <<up, main, used, history>> /\ task' = u /\ worker' = w
    BY <1>3 DEF Quiet, Step
  <2> HIDE DEF u
  <2>5. Good(u)
    BY <2>1, <2>3, PlainKept, GoodKept
  <2>6. w \in Workers(main) /\ w.pc = "verify" /\ w.given = {} /\ w.role = None
    BY <1>0, WorkerBegins DEF Pcs
  <2> HIDE DEF w
  <2> QED BY <1>0, <1>3, <2>1, <2>3, <2>4, <2>5, <2>6 DEF Questioned, Rests, Idling
<1>4. ASSUME NEW findings, Quiet(Rotated(task, worker.base, findings), Idle) PROVE Settles
  BY <1>0, <1>4, RotatedSettles
<1>5. ASSUME Quiet(Block(task, "READY", ""), Idle) PROVE Settles
  BY <1>0, <1>5, TaskBlock DEF Origins
<1>6. ASSUME Quiet(task, RetryNext("implementation", "idle")) PROVE Settles
  BY <1>0, <1>6, TaskRetry
<1>7. \/ Quiet(At(carried, "READY"), Idle)
      \/ ~Late(task, worker.start) /\ Quiet(u, w)
      \/ \E findings : Quiet(Rotated(task, worker.base, findings), Idle)
      \/ Quiet(Block(task, "READY", ""), Idle)
      \/ Quiet(task, RetryNext("implementation", "idle"))
  BY Zenon DEF Conclude
<1> HIDE DEF Goal
<1>8. Goal
  BY <1>1, <1>2, <1>3, <1>4, <1>5, <1>6, <1>7
<1> QED BY <1>8 DEF Goal

-----------------------------------------------------------------------------
(* Retries. *)

LEMMA ChargeCounts ==
  ASSUME NEW m \in Nat, NEW t \in Tasks(m), NEW n \in 0..ReuseLimit,
         NEW u, u = [t EXCEPT !.attempts = n]
  PROVE  u \in Tasks(m) /\ Plain(t, u) /\ u.state = t.state /\ u.rotations = t.rotations
BY DEF Tasks, Plain, SameBudget, SameReview

LEMMA CyclesCount ==
  ASSUME NEW m \in Nat, NEW t \in Tasks(m), NEW c \in [Kinds -> 0..FixLimit],
         NEW u, u = [t EXCEPT !.cycles = c]
  PROVE  u \in Tasks(m) /\ Plain(t, u) /\ u.state = t.state /\ u.rotations = t.rotations
BY DEF Tasks, Plain, SameBudget, SameReview

(* A retry below its limit counts, and its limit is kept. *)
LEMMA ChargedGood ==
  ASSUME Types, NEW t, Good(t), NEW kind, ~(Count(t, kind) >= LimitOf(kind))
  PROVE  /\ Good(ChargedFix(t, kind)) /\ ChargedFix(t, kind).state = "FIX"
         /\ ChargedFix(t, kind).rotations = t.rotations
<1> DEFINE s == At(t, "FIX")
           a == s.attempts + 1
           c == [s.cycles EXCEPT ![kind] = s.cycles[kind] + 1]
           u == IF kind = "implementation" THEN [s EXCEPT !.attempts = a] ELSE [s EXCEPT !.cycles = c]
           v == ReusePreflight(u, main, {"FIX"}, FALSE)
<1>0. /\ main \in Nat /\ t \in Tasks(main) /\ ReuseLimit \in Nat /\ FixLimit \in Nat
      /\ "FIX" \in State
  BY AdviceAssumption, LifecycleAssumption DEF Types, Good, State
<1>1. s \in Tasks(main) /\ Good(s) /\ s.state = "FIX" /\ s.rotations = t.rotations
  BY <1>0, GoodAt, AtIsPlain
<1>2. s.attempts = t.attempts /\ s.cycles = t.cycles
  BY <1>0 DEF At, Tasks
<1>3. ChargedFix(t, kind) = v
  BY Zenon DEF ChargedFix
<1> HIDE DEF s
<1>4. u \in Tasks(main) /\ Plain(s, u) /\ u.state = s.state /\ u.rotations = s.rotations
  <2>1. CASE kind = "implementation"
    <3>1. a \in 0..ReuseLimit
      BY <1>0, <1>1, <1>2, <2>1 DEF Count, LimitOf, Tasks
    <3> HIDE DEF a
    <3> QED BY <1>0, <1>1, <2>1, <3>1, ChargeCounts
  <2>2. CASE kind # "implementation"
    <3>1. s.cycles \in [Kinds -> 0..FixLimit]
      BY <1>1 DEF Tasks
    <3>2. c \in [Kinds -> 0..FixLimit]
      <4>1. CASE kind \in Kinds
        <5>1. s.cycles[kind] \in 0..FixLimit /\ ~(s.cycles[kind] >= FixLimit)
          BY <1>2, <2>2, <3>1, <4>1 DEF Count, LimitOf
        <5>2. s.cycles[kind] + 1 \in 0..FixLimit
          BY <1>0, <5>1
        <5> QED BY <3>1, <5>2
      <4>2. CASE kind \notin Kinds
        BY <3>1, <4>2
      <4> QED BY <4>1, <4>2
    <3> HIDE DEF c
    <3> QED BY <1>0, <1>1, <2>2, <3>2, CyclesCount
  <2> QED BY <2>1, <2>2
<1> HIDE DEF u
<1>5. Good(u)
  BY <1>1, <1>4, PlainKept, GoodKept
<1>6. v \in Tasks(main) /\ Advises(u, v)
  BY <1>0, <1>4, ReuseAdvises, Zenon
<1> HIDE DEF v
<1>7. Good(v) /\ v.state = u.state /\ v.rotations = u.rotations
  BY <1>5, <1>6, AdvisesKept, GoodKept DEF Advises
<1> QED BY <1>1, <1>3, <1>4, <1>7

LEMMA RetrySettles ==
  ASSUME Inductive, Retry
  PROVE  Settles
<1> DEFINE u == [task EXCEPT !.advisor = TRUE]
           w == Go("advisor")
<1>0. /\ worker.pc = "retry" /\ up /\ Types /\ Good(task) /\ task.rotations # RotationLimit
      /\ main \in Nat /\ task \in Tasks(main) /\ worker \in Workers(main)
      /\ worker.after \in {"idle", "tail"}
  BY Busy, GoodTask DEF Retry, Inductive, Types, Workers
<1>1. ASSUME ~(Count(task, worker.kind) >= LimitOf(worker.kind)),
             Quiet(ChargedFix(task, worker.kind), [Idle EXCEPT !.pc = worker.after])
      PROVE  Settles
  <2>1. /\ Good(ChargedFix(task, worker.kind)) /\ ChargedFix(task, worker.kind).state = "FIX"
        /\ ChargedFix(task, worker.kind).rotations = task.rotations
    BY <1>0, <1>1, ChargedGood
  <2> QED BY <1>0, <1>1, <2>1, SettleGo
<1>2. ASSUME Quiet(u, w) PROVE Settles
  <2>1. u \in Tasks(main) /\ Plain(task, u) /\ u.state = task.state /\ u.rotations = task.rotations
    BY <1>0 DEF Tasks, Plain, SameBudget, SameReview
  <2>2. UNCHANGED <<up, main, used, history>> /\ task' = u /\ worker' = w
    BY <1>2 DEF Quiet, Step
  <2> HIDE DEF u
  <2>3. /\ w \in Workers(main) /\ w.pc = "advisor" /\ w.given = worker.given
        /\ w.result = worker.result
    BY <1>0 DEF Go, Workers, Pcs, Resting
  <2> HIDE DEF w
  <2>4. Good(u) /\ SameReview(task, u)
    BY <1>0, <2>1, PlainKept, GoodKept DEF Plain
  <2>5. Questioned(u, w)
    BY <1>0, <2>1, <2>3 DEF Inductive, Questioned
  <2> QED BY <1>0, <2>1, <2>2, <2>3, <2>4, <2>5 DEF Settles, Rests, Idling, Resting
<1>3. ASSUME Quiet(Block(task, "FIX", ""), [Idle EXCEPT !.pc = worker.after]) PROVE Settles
  <2>1. /\ Good(Block(task, "FIX", "")) /\ Block(task, "FIX", "").state = "BLOCKED_HUMAN"
        /\ Block(task, "FIX", "").rotations = task.rotations
    BY <1>0, GoodBlock DEF State, Origins
  <2> QED BY <1>0, <1>3, <2>1, SettleGo
<1> QED BY <1>1, <1>2, <1>3, Zenon DEF Retry, Back

LEMMA AdvisorSettles ==
  ASSUME Inductive, AdvisorReturns
  PROVE  Settles
<1>0. /\ worker.pc = "advisor" /\ Types /\ Good(task) /\ task.rotations # RotationLimit
      /\ worker.after \in {"idle", "tail"}
  BY Busy, GoodTask DEF AdvisorReturns, Inductive, Types, Workers
<1>1. PICK t \in {At(task, "FIX"), Block(task, "FIX", "")} : Quiet(t, [Idle EXCEPT !.pc = worker.after])
  BY DEF AdvisorReturns, Back
<1>2. Good(t) /\ t.state \in {"FIX", "BLOCKED_HUMAN"} /\ t.rotations = task.rotations
  <2>1. "FIX" \in State /\ "" \in Origins
    BY DEF State, Origins
  <2>2. /\ Good(At(task, "FIX")) /\ At(task, "FIX").state = "FIX"
        /\ At(task, "FIX").rotations = task.rotations
    BY <1>0, <2>1, GoodAt
  <2>3. /\ Good(Block(task, "FIX", "")) /\ Block(task, "FIX", "").state = "BLOCKED_HUMAN"
        /\ Block(task, "FIX", "").rotations = task.rotations
    BY <1>0, <2>1, GoodBlock
  <2> QED BY <1>1, <2>2, <2>3
<1> QED BY <1>0, <1>1, <1>2, SettleGo

-----------------------------------------------------------------------------
(* Verification and review. *)

(* Main is merged, or the checks run next. *)
LEMMA SyncProceeds ==
  ASSUME Inductive, worker.pc \in {"verify", "sync"}, NEW t, Good(t), t.rotations # RotationLimit,
         t.state # "MERGE_READY", t.state # "BLOCKED_HUMAN",
         t.state \in {"RUNNING", "IMPLEMENTED"} => t.state = task.state,
         NEW w \in Workers(main), w.pc \in {"sync", "checks"}, w.role = None,
         w.given \subseteq worker.given, \A r \in Readers : w.got[r] = None,
         Until(t.retries, w.base), Quiet(t, w)
  PROVE  Proceeds
<1>1. UNCHANGED <<up, main, used, history>> /\ task' = t /\ worker' = w
  BY DEF Quiet, Step
<1>2. up /\ Types
  BY Busy DEF Inductive
<1>3. Types'
  BY <1>1, <1>2, WorksTypes DEF Works, Good, Types
<1>4. Where'
  BY <1>1 DEF Where, Reviewing
<1>5. Guided'
  BY <1>1, <1>2, GuidedKept DEF Inductive, Good, Calls
<1>6. Budgeted'
  BY <1>1 DEF Budgeted, Good
<1>7. Judged'
  BY <1>1, FoundedKept DEF Judged, Inductive, Good, Reviewing
<1>8. AcceptedReviewed' /\ task'.state # "BLOCKED_HUMAN"
  BY <1>1 DEF AcceptedReviewed
<1>9. Consulted(task.preflight, history.advised)'
  BY <1>1, ConsultedKept DEF Inductive, Good
<1> QED BY <1>1, <1>3, <1>4, <1>5, <1>6, <1>7, <1>8, <1>9 DEF Questioned, Inductive, Proceeds

LEMMA SyncBaseChanges ==
  ASSUME NEW m \in Nat, NEW t \in Tasks(m), NEW b \in (0..m) \union {None},
         NEW u, u = [t EXCEPT !.syncBase = b]
  PROVE  u \in Tasks(m) /\ Plain(t, u) /\ u.state = t.state /\ u.rotations = t.rotations
BY DEF Tasks, Plain, SameBudget, SameReview

LEMMA SyncTargetProceeds ==
  ASSUME Inductive, SyncTarget
  PROVE  Proceeds
<1> DEFINE u == [task EXCEPT !.syncBase = main]
<1>0. /\ worker.pc = "verify" /\ Types /\ Good(task) /\ task.rotations # RotationLimit
      /\ main \in Nat /\ task \in Tasks(main) /\ main \in 0..main /\ Until(task.retries, main)
      /\ task.state # "MERGE_READY" /\ task.state # "BLOCKED_HUMAN"
  BY Busy, GoodTask DEF Questioned, SyncTarget, Inductive, Types, Where, Budgeted
<1>1. ASSUME Quiet(task, VerifyError) PROVE Settles
  BY <1>0, <1>1, TaskError
<1>2. ASSUME NEW t \in {task, u}, NEW pc \in {"sync", "checks"}, Quiet(t, Starting(pc, main))
      PROVE  Proceeds
  <2>1. u \in Tasks(main) /\ Plain(task, u) /\ u.state = task.state /\ u.rotations = task.rotations
    BY <1>0, SyncBaseChanges
  <2> HIDE DEF u
  <2>2. Good(t) /\ t.state = task.state /\ t.rotations = task.rotations /\ Until(t.retries, main)
    BY <1>0, <2>1, PlainKept, GoodKept DEF Plain, SameBudget
  <2>3. PICK w : w = Starting(pc, main)
    OBVIOUS
  <2>4. pc \in Pcs
    BY DEF Pcs
  <2>5. /\ w \in Workers(main) /\ w.pc = pc /\ w.base = main /\ w.role = None /\ w.given = {}
        /\ \A r \in Readers : w.got[r] = None
    BY <1>0, <2>3, <2>4, WorkerStarts
  <2>6. Quiet(t, w)
    BY <1>2, <2>3
  <2> QED BY <1>0, <2>2, <2>5, <2>6, SyncProceeds
<1>3. \/ Quiet(task, VerifyError)
      \/ Quiet(task, Starting("checks", main))
      \/ Quiet(u, Starting("sync", main))
  BY Zenon DEF SyncTarget, Starting
<1> HIDE DEF u
<1> QED BY <1>1, <1>2, <1>3, SettlesProceeds

(* The merge is the task's new base; evidence stays where nothing changed. *)
LEMMA SyncTaskProceeds ==
  ASSUME Inductive, SyncTask
  PROVE  Proceeds
<1> DEFINE base == worker.base
           merged == IF task.base = base THEN task ELSE Moved(task)
           s == At(merged, "VERIFYING")
           e == IF task.base = base /\ Current(task, base) THEN s.evidence ELSE None
           u == [s EXCEPT !.base = base, !.syncBase = None, !.evidence = e]
           w == Go("checks")
<1>0. /\ worker.pc = "sync" /\ Types /\ Good(task) /\ task.rotations # RotationLimit
      /\ main \in Nat /\ task \in Tasks(main) /\ worker \in Workers(main) /\ base \in 0..main
      /\ Until(task.retries, base) /\ worker.role = None
      /\ \A r \in Readers : worker.got[r] = None
  BY Busy, GoodTask DEF SyncTask, Inductive, Types, Workers, Budgeted, Where, Judged
<1>1. ASSUME Settles PROVE Proceeds
  BY <1>1, SettlesProceeds
<1>2. ASSUME Quiet(task, VerifyError) PROVE Settles
  BY <1>0, <1>2, TaskError
<1>3. ASSUME Quiet(Block(task, "READY", ""), Idle) PROVE Settles
  BY <1>0, <1>3, TaskBlock DEF Origins
<1>4. ASSUME Quiet(u, w) PROVE Proceeds
  <2>1. /\ merged \in Tasks(main) /\ Kept(task, merged) /\ merged.rotations = task.rotations
        /\ task.base = base => merged = task
    BY <1>0, MovedMoves, NothingKept DEF Moves
  <2> HIDE DEF merged
  <2>2. /\ s \in Tasks(main) /\ Plain(merged, s) /\ s.state = "VERIFYING"
        /\ s.rotations = merged.rotations
    BY <1>0, <2>1, AtIsPlain DEF State
  <2> HIDE DEF s
  <2>3. Kept(task, s)
    BY <2>1, <2>2, PlainKept, KeptAgain
  <2>4. e \in Evidence /\ (e # None => task.base = base /\ e = s.evidence)
    BY <2>2 DEF Tasks, Evidence
  <2> HIDE DEF e
  <2>5. /\ u \in Tasks(main) /\ u.base = base /\ u.evidence = e /\ u.reviewed = s.reviewed
        /\ u.guidance = s.guidance /\ u.preflight = s.preflight /\ SameBudget(s, u)
        /\ u.state = s.state /\ u.rotations = s.rotations
    BY <1>0, <2>2, <2>4 DEF Tasks, SameBudget
  <2> HIDE DEF u
  <2>6. ReviewKept(s, u)
    <3>1. e # None => s.base = base
      BY <2>1, <2>2, <2>4 DEF Plain, SameReview
    <3> QED BY <2>4, <2>5, <3>1 DEF ReviewKept
  <2>7. Kept(s, u)
    BY <2>5, <2>6 DEF Kept, QueueKept, AdviceKept, BudgetKept
  <2>8. Kept(task, u)
    BY <2>3, <2>7, KeptAgain
  <2>9. Good(u)
    BY <1>0, <2>5, <2>8, GoodKept
  <2>10. Until(u.retries, base)
    BY <1>0, <2>8 DEF Kept, BudgetKept, SameBudget, Until
  <2>11. /\ w \in Workers(main) /\ w.pc = "checks" /\ w.role = None /\ w.given = worker.given
         /\ w.base = base /\ w.got = worker.got
    BY <1>0 DEF Go, Workers, Pcs
  <2> HIDE DEF w
  <2> QED BY <1>0, <1>4, <2>1, <2>2, <2>5, <2>9, <2>10, <2>11, SyncProceeds
<1>5. \/ Quiet(u, w)
      \/ Quiet(task, VerifyError)
      \/ Quiet(Block(task, "READY", ""), Idle)
  BY Zenon DEF SyncTask
<1> HIDE DEF u, w
<1> QED BY <1>1, <1>2, <1>3, <1>4, <1>5

LEMMA PolicyIsCount ==
  ASSUME NEW m \in Nat
  PROVE  Policy(m) \in Nat
<1>1. m <= m
  OBVIOUS
<1> QED BY <1>1, PolicyCounts

(* The record of a failed check. *)
Failure(class, n, native) ==
  [class |-> class, attempts |-> n, atHead |-> TRUE, env |-> Policy(main), native |-> native]

LEMMA FailureTypes ==
  ASSUME main \in Nat, NEW class \in Classes, NEW n \in Nat, NEW native \in BOOLEAN
  PROVE  Failure(class, n, native) \in Verification
BY PolicyIsCount DEF Failure, Verification

LEMMA FailedGood ==
  ASSUME Types, NEW t, Good(t), NEW class \in Classes, NEW n \in Nat, NEW native \in BOOLEAN
  PROVE  /\ Good(Failed(t, class, n, native)) /\ SameReview(t, Failed(t, class, n, native))
         /\ Failed(t, class, n, native).state = t.state
         /\ Failed(t, class, n, native).rotations = t.rotations
<1> DEFINE v == Failure(class, n, native)
           u == [t EXCEPT !.verification = v]
<1>0. main \in Nat
  BY DEF Types
<1>1. t \in Tasks(main)
  BY DEF Good
<1>2. v \in Verification
  BY <1>0, FailureTypes
<1>3. Failed(t, class, n, native) = u
  BY DEF Failed, Failure
<1>5. u = [t EXCEPT !.verification = v]
  OBVIOUS
<1> HIDE DEF u, v
<1>4. u \in Tasks(main) /\ Plain(t, u) /\ u.state = t.state /\ u.rotations = t.rotations
  BY ONLY <1>0, <1>1, <1>2, <1>5, VerificationChanges
<1> QED BY <1>3, <1>4, PlainKept, GoodKept DEF Plain

Again(g, repeated) == IF repeated THEN g.attempts + 1 ELSE 1

LEMMA FailureSettles ==
  ASSUME Inductive, worker.pc \in {"checks", "refresh"}, NEW failure, VerificationFailure(failure)
  PROVE  Settles
<1> DEFINE g == task.verification
           env == Policy(main)
           transient == RepeatedTransient(g, env)
           failed == RepeatedFailure(g, env)
           t1 == Failed(task, "timeout", Again(g, transient), Native(g))
           t2 == Failed(task, "", Again(g, failed), TRUE)
           t3 == Failed(task, "", Again(g, failed), Native(g))
           t4 == AdvancePreflightHead(t2)
<1>0. /\ worker.pc # "idle" /\ worker.pc # "tail" /\ Types /\ up /\ Good(task) /\ main \in Nat
      /\ task.rotations # RotationLimit /\ g \in Verification /\ SameReview(task, task)
      /\ task.state # "MERGE_READY" /\ task.state # "BLOCKED_HUMAN"
  BY Busy, GoodTask DEF Questioned, Inductive, Types, Tasks, Where, SameReview, Reviewing
<1>1. Again(g, transient) \in Nat /\ Again(g, failed) \in Nat /\ Native(g) \in BOOLEAN
  <2>1. ASSUME g # None PROVE g.attempts \in Nat /\ g.native \in BOOLEAN
    BY <1>0, <2>1 DEF Verification
  <2>2. ASSUME NEW repeated, repeated => g # None PROVE Again(g, repeated) \in Nat
    BY <2>1, <2>2 DEF Again
  <2>3. (transient => g # None) /\ (failed => g # None)
    BY Zenon DEF RepeatedTransient, RepeatedFailure
  <2>4. Native(g) \in BOOLEAN
    BY <2>1, Zenon DEF Native
  <2> QED BY <2>2, <2>3, <2>4, Zenon
<1>2. /\ Good(t1) /\ t1.state = task.state /\ t1.rotations = task.rotations /\ SameReview(task, t1)
      /\ Good(t2) /\ t2.state = task.state /\ t2.rotations = task.rotations /\ SameReview(task, t2)
      /\ Good(t3) /\ t3.state = task.state /\ t3.rotations = task.rotations /\ SameReview(task, t3)
  <2>1. "timeout" \in Classes /\ "" \in Classes /\ TRUE \in BOOLEAN
    BY DEF Classes
  <2>2. ASSUME NEW class \in Classes, NEW n \in Nat, NEW native \in BOOLEAN
        PROVE  /\ Good(Failed(task, class, n, native))
               /\ SameReview(task, Failed(task, class, n, native))
               /\ Failed(task, class, n, native).state = task.state
               /\ Failed(task, class, n, native).rotations = task.rotations
    BY <1>0, FailedGood
  <2> QED BY <1>1, <2>1, <2>2, Zenon
<1>3. Good(t4)
  <2>1. t2 \in Tasks(main)
    BY <1>2 DEF Good
  <2> HIDE DEF t2
  <2>2. t4 \in Tasks(main) /\ Advises(t2, t4)
    BY <1>0, <2>1, AdvanceAdvises, Zenon
  <2> HIDE DEF t4
  <2> QED BY <1>2, <2>2, AdvisesKept, GoodKept
<1> HIDE DEF t1, t2, t3, t4
<1>4. "FIX" \in State /\ "SYNC_REQUIRED" \in State /\ "" \in Origins /\ "verification_only" \in Origins
  BY DEF State, Origins
<1>5. ASSUME NEW t \in {task, t1, t4}, NEW o \in Origins, Quiet(Block(t, "SYNC_REQUIRED", o), Idle)
      PROVE  Settles
  BY <1>0, <1>2, <1>3, <1>4, <1>5, BlockIdle
<1>6. ASSUME Quiet(At(t1, "SYNC_REQUIRED"), Idle) PROVE Settles
  <2>1. /\ Good(At(t1, "SYNC_REQUIRED")) /\ At(t1, "SYNC_REQUIRED").state = "SYNC_REQUIRED"
        /\ At(t1, "SYNC_REQUIRED").rotations = t1.rotations
    BY <1>0, <1>2, <1>4, GoodAt
  <2> QED BY <1>0, <1>2, <1>6, <2>1, SettleIdle
<1>7. ASSUME Quiet(Block(t3, "FIX", ""), Idle) PROVE Settles
  BY <1>0, <1>2, <1>4, <1>7, BlockIdle
<1>8. ASSUME Quiet(t3, VerifyError) PROVE Settles
  <2>1. Quiet(t3, RetryNext("verification", "idle"))
    BY <1>8 DEF VerifyError
  <2> QED BY <1>0, <1>2, <2>1, SettleRetry
<1>9. \/ \E t \in {task, t1, t4}, o \in Origins : Quiet(Block(t, "SYNC_REQUIRED", o), Idle)
      \/ Quiet(At(t1, "SYNC_REQUIRED"), Idle)
      \/ Quiet(Block(t3, "FIX", ""), Idle)
      \/ Quiet(t3, VerifyError)
  BY <1>4, Zenon DEF VerificationFailure, t1, t2, t3, t4, Again
<1> QED BY <1>5, <1>6, <1>7, <1>8, <1>9

(* A step between two publications of a review. *)
LEMMA ReviewProceeds ==
  ASSUME Inductive, worker.pc \in {"checks"} \union Reviewing,
         NEW t \in Tasks(main), t.guidance = task.guidance, t.preflight = task.preflight,
         t.state = "REVIEW", t.rotations # RotationLimit,
         Charged(t.retries, t.spent), Until(t.retries, worker.base),
         t.evidence # None, t.evidence.atHead, t.evidence.policy = Policy(worker.base), Founded(t),
         NEW w \in Workers(main), w.role = None,
         w.pc = "retry" \/ (w.pc \in Reviewing /\ w.base = worker.base),
         w.given \subseteq worker.given,
         \A r \in Readers : w.got[r] \in {"clean", "advice"} => <<r, t.evidence.policy>> \in t.reviewed,
         Quiet(t, w)
  PROVE  Proceeds
<1>1. UNCHANGED <<up, main, used, history>> /\ task' = t /\ worker' = w
  BY DEF Quiet, Step
<1>2. up /\ Types /\ main \in Nat /\ worker.base \in 0..main
  BY Busy DEF Inductive, Types, Reviewing, Workers
<1>3. Types'
  BY <1>1, <1>2, WorksTypes DEF Works, Types
<1>4. Where'
  BY <1>1 DEF Where, Reviewing
<1>5. Guided'
  BY <1>1, <1>2, GuidedKept DEF Inductive, QueueKept, Calls, Reviewing
<1>6. Until(t.retries, main)
  <2>1. t.retries \in Budgets
    BY DEF Tasks
  <2> QED BY <1>2, <2>1, UntilLater
<1>7. Budgeted'
  BY <1>1, <1>6 DEF Budgeted, Reviewing
<1>8. Judged'
  BY <1>1 DEF Judged, Reviewing
<1>9. AcceptedReviewed' /\ task'.state # "BLOCKED_HUMAN"
  BY <1>1 DEF AcceptedReviewed
<1>10. Consulted(task.preflight, history.advised)'
  BY <1>1 DEF Inductive
<1> QED BY <1>1, <1>3, <1>4, <1>5, <1>7, <1>8, <1>9, <1>10 DEF Questioned, Inductive, Proceeds

LEMMA RequiredReaders ==
  ASSUME NEW m \in Nat, NEW t \in Tasks(m)
  PROVE  Required(t) \subseteq Readers
BY DEF Required, Readers, Tasks

LEMMA WithReaders ==
  ASSUME NEW got, NEW outcome
  PROVE  With(got, outcome) \subseteq Readers
BY DEF With

(* What holds while a review goes on. *)
LEMMA InReview ==
  ASSUME Inductive, worker.pc \in Reviewing
  PROVE  /\ up /\ Types /\ Good(task) /\ task.state = "REVIEW" /\ task.rotations # RotationLimit
         /\ main \in Nat /\ task \in Tasks(main) /\ worker \in Workers(main)
         /\ worker.base \in 0..main /\ worker.base \in Nat
         /\ worker.role = None
         /\ Charged(task.retries, task.spent) /\ Until(task.retries, worker.base)
         /\ task.evidence # None /\ task.evidence.atHead
         /\ task.evidence.policy = Policy(worker.base) /\ Founded(task)
         /\ \A r \in Readers : worker.got[r] \in {"clean", "advice"} =>
              <<r, task.evidence.policy>> \in task.reviewed
<1>1. Types /\ Where /\ Budgeted /\ Judged
  BY DEF Inductive
<1>2. up /\ task.rotations # RotationLimit
  BY Busy DEF Reviewing
<1>3. Good(task)
  BY <1>1, GoodTask
<1>4. main \in Nat /\ task \in Tasks(main) /\ worker \in Workers(main)
  BY <1>1 DEF Types
<1>5. worker.base \in 0..main /\ worker.base \in Nat
  BY <1>4 DEF Workers
<1> QED BY <1>1, <1>2, <1>3, <1>4, <1>5 DEF Where, Budgeted, Judged

(* The job goes on with the review, and the task is as it is. *)
LEMMA TaskReviewed ==
  ASSUME Inductive, worker.pc \in Reviewing, NEW pc \in Reviewing, Quiet(task, Go(pc))
  PROVE  Proceeds
<1> DEFINE w == Go(pc)
<1>1. worker \in Workers(main) /\ pc \in Pcs
  BY InReview DEF Pcs
<1>2. /\ w \in Workers(main) /\ w.pc = pc /\ w.base = worker.base /\ w.role = worker.role
      /\ w.given = worker.given /\ w.got = worker.got
  BY <1>1 DEF Go, Workers
<1> HIDE DEF w
<1>3. Quiet(task, w)
  BY DEF w
<1> QED BY <1>2, <1>3, InReview, ReviewProceeds

LEMMA ChecksProceeds ==
  ASSUME Inductive, Checks
  PROVE  Proceeds
<1> DEFINE base == worker.base
           done == InProgressReviews(task, base)
           s == At(task, "REVIEW")
           e == [base |-> task.base, policy |-> Policy(base), atHead |-> TRUE,
                 roster |-> Required(task), done |-> done]
           kept == {v \in s.reviewed : v[1] \in done}
           u == [s EXCEPT !.verification = None, !.evidence = e, !.reviewed = kept]
           todo == Required(task) \ done
           w == [Go("review") EXCEPT !.todo = todo, !.attempt = 1]
<1>0. /\ worker.pc = "checks" /\ Types /\ Good(task) /\ task.rotations # RotationLimit
      /\ main \in Nat /\ task \in Tasks(main) /\ worker \in Workers(main) /\ base \in 0..main
      /\ base \in Nat /\ Charged(task.retries, task.spent) /\ Until(task.retries, base)
      /\ worker.role = None /\ Founded(task) /\ \A r \in Readers : worker.got[r] = None
  <2>1. worker.pc = "checks" /\ Types /\ Where /\ Budgeted /\ Judged
    BY DEF Checks, Inductive
  <2>2. Good(task) /\ task.rotations # RotationLimit
    BY <2>1, Busy, GoodTask
  <2>3. main \in Nat /\ task \in Tasks(main) /\ worker \in Workers(main)
    BY <2>1 DEF Types
  <2>4. base \in 0..main /\ base \in Nat
    BY <2>3 DEF Workers
  <2> QED BY <2>1, <2>2, <2>3, <2>4 DEF Budgeted, Where, Judged
<1>1. ASSUME Settles PROVE Proceeds
  BY <1>1, SettlesProceeds
<1>2. ASSUME Quiet(task, VerifyError) PROVE Settles
  BY <1>0, <1>2, TaskError
<1>3. ASSUME NEW to \in {"READY", "SYNC_REQUIRED"}, Quiet(Block(task, to, ""), Idle) PROVE Settles
  BY <1>0, <1>3, TaskBlock DEF Origins
<1>4. ASSUME NEW failure, VerificationFailure(failure) PROVE Settles
  BY <1>0, <1>4, FailureSettles
<1>5. ASSUME Quiet(u, w) \/ Quiet(u, VerifyError) PROVE Proceeds
  <2>1. /\ done \subseteq Readers
        /\ done # {} => /\ task.evidence # None /\ task.evidence.atHead
                        /\ task.evidence.policy = Policy(base) /\ done = task.evidence.done
    BY <1>0 DEF InProgressReviews, Current, Tasks, Evidence, Reviewed
  <2>2. Required(task) \subseteq Readers
    BY <1>0, RequiredReaders
  <2>3. \A r \in done : <<r, Policy(base)>> \in task.reviewed
    BY <1>0, <2>1 DEF Founded
  <2>4. Policy(base) \in Nat
    BY <1>0, PolicyIsCount
  <2>5. /\ s \in Tasks(main) /\ Plain(task, s) /\ s.state = "REVIEW"
        /\ s.rotations = task.rotations
    BY <1>0, AtIsPlain DEF State
  <2>6. s.base = task.base /\ s.reviewed = task.reviewed
    BY <2>5 DEF Plain, SameReview
  <2>14. /\ kept \in SUBSET (Readers \X Nat)
         /\ \A r \in done : <<r, Policy(base)>> \in kept
    BY <2>3, <2>5, <2>6 DEF Tasks
  <2> HIDE DEF s, done, kept
  <2>7. e \in Reviewed /\ e # None
    <3>1. task.base \in Nat
      BY <1>0 DEF Tasks
    <3>2. e \in Reviewed
      BY <2>1, <2>2, <2>4, <3>1 DEF Reviewed
    <3> QED BY <3>2, LifecycleAssumption DEF Reviewed
  <2>8. /\ e.base = task.base /\ e.policy = Policy(base) /\ e.atHead /\ e.done = done
    OBVIOUS
  <2> HIDE DEF e
  <2>9. /\ u \in Tasks(main) /\ u.guidance = s.guidance /\ u.preflight = s.preflight
        /\ u.evidence = e /\ u.base = s.base /\ u.reviewed = kept
        /\ u.retries = s.retries /\ u.spent = s.spent
        /\ u.state = s.state /\ u.rotations = s.rotations
    BY <2>5, <2>7, <2>14 DEF Tasks, Verification, Evidence
  <2> HIDE DEF u
  <2>10. Founded(u)
    BY <2>6, <2>8, <2>9, <2>14 DEF Founded
  <2>11. todo \in SUBSET Readers /\ "review" \in Pcs
    BY <2>2 DEF Pcs, Reviewing
  <2> HIDE DEF todo
  <2>12. /\ w \in Workers(main) /\ w.pc = "review" /\ w.base = base /\ w.role = None
         /\ w.given = worker.given /\ w.got = worker.got
    BY <1>0, <2>11 DEF Go, Workers
  <2> HIDE DEF w
  <2>13. None \notin {"clean", "advice"}
    BY LifecycleAssumption
  <2>15. u.retries = task.retries /\ u.spent = task.spent
         /\ u.guidance = task.guidance /\ u.preflight = task.preflight
    BY <2>5, <2>9 DEF Plain, SameBudget
  <2>16. CASE Quiet(u, w)
    BY <1>0, <2>16, <2>5, <2>7, <2>8, <2>9, <2>10, <2>12, <2>13, <2>15, ReviewProceeds
       DEF Reviewing
  <2>17. CASE Quiet(u, VerifyError)
    <3> DEFINE x == RetryNext("verification", "idle")
    <3>1. /\ x \in Workers(main) /\ x.pc = "retry" /\ x.given = {} /\ x.role = None
          /\ \A r \in Readers : x.got[r] = None
      BY <1>0, WorkerRetries DEF RetryNext, Idle
    <3>2. Quiet(u, x)
      BY <2>17 DEF VerifyError
    <3> HIDE DEF x
    <3> QED BY <1>0, <2>5, <2>7, <2>8, <2>9, <2>10, <2>13, <2>15, <3>1, <3>2, ReviewProceeds
  <2> QED BY <1>5, <2>16, <2>17
<1>6. \/ Quiet(u, w) \/ Quiet(u, VerifyError)
      \/ Quiet(task, VerifyError)
      \/ \E to \in {"READY", "SYNC_REQUIRED"} : Quiet(Block(task, to, ""), Idle)
      \/ \E failure : VerificationFailure(failure)
  BY Zenon DEF Checks
<1> HIDE DEF u, w
<1> QED BY <1>1, <1>2, <1>3, <1>4, <1>5, <1>6

LEMMA WaveProceeds ==
  ASSUME Inductive, BeginWave
  PROVE  /\ Proceeds
         /\ worker'.role = None
         /\ \A r \in worker'.reading : <<r, Policy(worker.base)>> \notin task.spent
<1> DEFINE base == worker.base
           wave == Wave(worker.todo)
           reading == {r \in wave : ReaderMayBegin(task, r, base)}
           spending == {<<r, Policy(base)>> : r \in {q \in reading : Guard(task, q, base) = 1}}
           t == BeginReadOnlyAttempt(task, reading, base)
           z == t.spent \union spending
           u == [t EXCEPT !.spent = z]
           todo == worker.todo \ wave
           got == [r \in Readers |-> IF r \in wave \ reading THEN "exhausted" ELSE worker.got[r]]
           w == [worker EXCEPT !.pc = "reading", !.reading = reading, !.todo = todo, !.got = got]
<1>0. worker.pc \in Reviewing /\ Quiet(u, w)
  BY Zenon DEF BeginWave, Reviewing
<1>1. /\ main \in Nat /\ task \in Tasks(main) /\ worker \in Workers(main) /\ worker.role = None
      /\ base \in Nat /\ Charged(task.retries, task.spent) /\ Until(task.retries, base)
  BY <1>0, InReview, Zenon
<1>2. worker.todo \in SUBSET Readers /\ worker.got \in [Readers -> Outcomes]
  BY <1>1 DEF Workers
<1>3. wave \subseteq worker.todo
  BY DEF Wave
<1>4. reading \in SUBSET Readers /\ todo \in SUBSET Readers
  BY <1>2, <1>3
<1>5. ASSUME NEW r \in reading PROVE <<r, Policy(base)>> \notin task.spent
  BY <1>1, <1>4, MayBegin
<1>6. spending = Narrower(task, reading, base)
  BY DEF Narrower
<1> HIDE DEF spending, wave
<1>7. got \in [Readers -> Outcomes]
      /\ \A r \in Readers : got[r] = "exhausted" \/ got[r] = worker.got[r]
  BY <1>2 DEF Outcomes
<1> HIDE DEF reading, todo, got
<1>8. /\ t \in Tasks(main) /\ Grants(task, t) /\ Until(t.retries, base)
      /\ Charged(t.retries, task.spent \union spending) /\ spending \subseteq Readers \X Nat
  BY <1>1, <1>4, <1>6, BeginCharged, Zenon
<1> HIDE DEF t
<1>9. z \in SUBSET (Readers \X Nat) /\ z = task.spent \union spending
  BY <1>1, <1>8 DEF Tasks, Grants
<1> HIDE DEF z
<1>10. /\ u \in Tasks(main) /\ u.guidance = t.guidance /\ u.preflight = t.preflight
       /\ u.retries = t.retries /\ u.spent = z /\ SameReview(t, u)
       /\ u.state = t.state /\ u.rotations = t.rotations
  BY <1>8, <1>9 DEF Tasks, SameReview
<1>11. /\ w \in Workers(main) /\ w.pc = "reading" /\ w.base = base /\ w.role = None
       /\ w.given = worker.given /\ w.got = got /\ w.reading = reading
  BY <1>1, <1>4, <1>7 DEF Workers, Pcs, Reviewing
<1> HIDE DEF u, w
<1>12. /\ u.guidance = task.guidance /\ u.preflight = task.preflight /\ SameReview(task, u)
       /\ u.state = task.state /\ u.rotations = task.rotations
  BY <1>8, <1>10 DEF Grants, SameReview
<1>13. Charged(u.retries, u.spent) /\ Until(u.retries, base)
  BY <1>8, <1>9, <1>10
<1>14. /\ u.evidence # None /\ u.evidence.atHead /\ u.evidence.policy = Policy(base) /\ Founded(u)
       /\ \A r \in Readers : w.got[r] \in {"clean", "advice"} => <<r, u.evidence.policy>> \in u.reviewed
       /\ u.state = "REVIEW" /\ u.rotations # RotationLimit
  BY <1>0, <1>7, <1>11, <1>12, InReview DEF SameReview, Founded
<1>15. Proceeds
  BY <1>0, <1>10, <1>11, <1>12, <1>13, <1>14, ReviewProceeds DEF Reviewing
<1> QED BY <1>0, <1>5, <1>11, <1>15 DEF Quiet, Step

LEMMA EndProceeds ==
  ASSUME Inductive, EndWave
  PROVE  Proceeds
<1> DEFINE base == worker.base
           reading == worker.reading
<1>0. worker.pc = "reading" /\ worker.pc \in Reviewing
  BY DEF EndWave, Reviewing
<1>1. /\ main \in Nat /\ task \in Tasks(main) /\ worker \in Workers(main) /\ worker.role = None
      /\ base \in 0..main /\ base \in Nat /\ Until(task.retries, base)
  BY <1>0, InReview, Zenon
<1>2. reading \in SUBSET Readers /\ worker.got \in [Readers -> Outcomes] /\ worker.todo \in SUBSET Readers
  BY <1>1 DEF Workers
<1>3. PICK answer \in [reading -> Answers], causal \in BOOLEAN :
        LET late == {r \in reading : answer[r] = "deadline"}
            got == [r \in Readers |->
                      IF r \notin reading THEN worker.got[r]
                      ELSE IF answer[r] = "deadline" /\ ~ReaderMayRetry(task, r, base)
                      THEN "exhausted" ELSE answer[r]]
            stops == With(got, Failures \union (IF causal THEN {"finding"} ELSE {})) # {}
            t == [RecordReadOnlyDeadline(task, late, base) EXCEPT
                    !.evidence.done = @ \union {r \in reading : answer[r] = "clean"},
                    !.reviewed = @ \union {<<r, Policy(base)>> :
                      r \in {q \in reading : answer[q] \in {"clean", "advice"}}}]
        IN \/ Quiet(t, [worker EXCEPT !.pc = IF stops \/ worker.todo = {} THEN "assess" ELSE "review",
                                      !.todo = IF stops THEN {} ELSE @,
                                      !.reading = {}, !.got = got])
           \/ Quiet(t, VerifyError)
  BY <1>0, Zenon DEF EndWave
<1> DEFINE late == {r \in reading : answer[r] = "deadline"}
           clean == {r \in reading : answer[r] = "clean"}
           fresh == {<<r, Policy(base)>> : r \in {q \in reading : answer[q] \in {"clean", "advice"}}}
           got == [r \in Readers |->
                     IF r \notin reading THEN worker.got[r]
                     ELSE IF answer[r] = "deadline" /\ ~ReaderMayRetry(task, r, base)
                     THEN "exhausted" ELSE answer[r]]
           stops == With(got, Failures \union (IF causal THEN {"finding"} ELSE {})) # {}
           s == RecordReadOnlyDeadline(task, late, base)
           e == [s.evidence EXCEPT !.done = s.evidence.done \union clean]
           v == s.reviewed \union fresh
           u == [s EXCEPT !.evidence = e, !.reviewed = v]
           pc == IF stops \/ worker.todo = {} THEN "assess" ELSE "review"
           todo == IF stops THEN {} ELSE worker.todo
           w == [worker EXCEPT !.pc = pc, !.todo = todo, !.reading = {}, !.got = got]
<1>4. Quiet(u, w) \/ Quiet(u, VerifyError)
  BY <1>3, Zenon
<1>5. Policy(base) \in Nat
  BY <1>1, PolicyIsCount
<1>6. /\ clean \in SUBSET Readers /\ fresh \in SUBSET (Readers \X Nat)
      /\ \A r \in clean : <<r, Policy(base)>> \in fresh
  BY <1>2, <1>5
<1>7. got \in [Readers -> Outcomes]
  BY <1>2, <1>3 DEF Outcomes
<1>8. ASSUME NEW r \in Readers, got[r] \in {"clean", "advice"}
      PROVE  worker.got[r] \in {"clean", "advice"} \/ <<r, Policy(base)>> \in fresh
  BY <1>8
<1>9. todo \in SUBSET Readers /\ pc \in {"assess", "review"}
  BY <1>2
<1> HIDE DEF late, clean, fresh, got, stops, pc, todo
<1>10. Good(s) /\ Grants(task, s) /\ Until(s.retries, base) /\ s \in Tasks(main)
  BY <1>1, GoodDeadline, Zenon DEF Good
<1>11. Charged(s.retries, s.spent)
  BY <1>10 DEF Good
<1>12. /\ s.evidence = task.evidence /\ s.reviewed = task.reviewed /\ s.base = task.base
       /\ s.guidance = task.guidance /\ s.preflight = task.preflight
       /\ s.state = task.state /\ s.rotations = task.rotations
  BY <1>10 DEF Grants, SameReview
<1> HIDE DEF s
<1>13. s.evidence \in Reviewed /\ s.reviewed \in SUBSET (Readers \X Nat)
  BY <1>0, <1>10, <1>12, InReview DEF Tasks, Evidence
<1>14. /\ e \in Reviewed /\ e.base = s.evidence.base /\ e.atHead = s.evidence.atHead
       /\ e.policy = s.evidence.policy /\ e.done = s.evidence.done \union clean
  BY <1>6, <1>13 DEF Reviewed
<1>15. v \in SUBSET (Readers \X Nat) /\ s.reviewed \subseteq v /\ fresh \subseteq v
  BY <1>6, <1>13
<1> HIDE DEF e, v
<1>16. /\ u \in Tasks(main) /\ u.guidance = s.guidance /\ u.preflight = s.preflight
       /\ SameBudget(s, u) /\ u.evidence = e /\ u.reviewed = v /\ u.base = s.base
       /\ u.state = s.state /\ u.rotations = s.rotations
  BY <1>10, <1>14, <1>15 DEF Tasks, SameBudget, Evidence
<1> HIDE DEF u
<1>17. /\ u.evidence # None /\ u.evidence.atHead /\ u.evidence.policy = Policy(base)
       /\ u.state = "REVIEW" /\ u.rotations # RotationLimit
       /\ u.guidance = task.guidance /\ u.preflight = task.preflight
       /\ Charged(u.retries, u.spent) /\ Until(u.retries, base)
  <2>1. e # None
    BY <1>14, LifecycleAssumption DEF Reviewed
  <2> QED BY <1>0, <1>10, <1>11, <1>12, <1>14, <1>16, <2>1, InReview DEF SameBudget
<1>18. Founded(u)
  BY <1>0, <1>6, <1>12, <1>14, <1>15, <1>16, InReview DEF Founded
<1>19. ASSUME Quiet(u, w) PROVE Proceeds
  <2>1. pc \in Reviewing /\ pc \in Pcs
    BY <1>9 DEF Reviewing, Pcs
  <2>2. /\ w \in Workers(main) /\ w.pc = pc /\ w.base = base /\ w.role = None
        /\ w.given = worker.given /\ w.got = got
    BY <1>1, <1>7, <1>9, <2>1 DEF Workers
  <2> HIDE DEF w
  <2>3. \A r \in Readers : w.got[r] \in {"clean", "advice"} => <<r, u.evidence.policy>> \in u.reviewed
    BY <1>0, <1>8, <1>12, <1>15, <1>16, <1>17, <2>2, InReview
  <2> QED BY <1>0, <1>16, <1>17, <1>18, <1>19, <2>1, <2>2, <2>3, ReviewProceeds
<1>20. ASSUME Quiet(u, VerifyError) PROVE Proceeds
  <2> DEFINE x == RetryNext("verification", "idle")
  <2>1. /\ x \in Workers(main) /\ x.pc = "retry" /\ x.given = {} /\ x.role = None
        /\ \A r \in Readers : x.got[r] = None
    BY <1>1, WorkerRetries DEF RetryNext, Idle
  <2>2. Quiet(u, x)
    BY <1>20 DEF VerifyError
  <2> HIDE DEF x
  <2>3. None \notin {"clean", "advice"}
    BY LifecycleAssumption
  <2> QED BY <1>0, <1>16, <1>17, <1>18, <2>1, <2>2, <2>3, ReviewProceeds
<1> QED BY <1>4, <1>19, <1>20

LEMMA NothingProceeds ==
  ASSUME Inductive, NothingToReview
  PROVE  Proceeds
BY TaskReviewed DEF NothingToReview, Reviewing

LEMMA RefreshProceeds ==
  ASSUME Inductive, Refresh
  PROVE  Proceeds
<1> DEFINE todo == With(worker.got, {"evidence"})
           got == [r \in Readers |-> IF worker.got[r] = "evidence" THEN None ELSE worker.got[r]]
           w == [worker EXCEPT !.pc = "review", !.attempt = 2, !.todo = todo, !.got = got]
<1>0. worker.pc = "refresh" /\ worker.pc \in Reviewing
  BY DEF Refresh, Reviewing
<1>1. ASSUME Settles PROVE Proceeds
  BY <1>1, SettlesProceeds
<1>2. ASSUME Quiet(task, w) PROVE Proceeds
  <2>1. worker \in Workers(main) /\ worker.got \in [Readers -> Outcomes] /\ worker.role = None
    BY <1>0, InReview DEF Workers
  <2>2. todo \in SUBSET Readers
    BY WithReaders
  <2>3. got \in [Readers -> Outcomes]
        /\ \A r \in Readers : got[r] = None \/ got[r] = worker.got[r]
    BY <2>1 DEF Outcomes
  <2> HIDE DEF todo, got
  <2>4. "review" \in Pcs /\ "review" \in Reviewing
    BY DEF Pcs, Reviewing
  <2>5. /\ w \in Workers(main) /\ w.pc = "review" /\ w.base = worker.base /\ w.role = None
        /\ w.given = worker.given /\ w.got = got
    BY <2>1, <2>2, <2>3, <2>4 DEF Workers
  <2> HIDE DEF w
  <2>6. None \notin {"clean", "advice"}
    BY LifecycleAssumption
  <2> QED BY <1>0, <1>2, <2>3, <2>4, <2>5, <2>6, InReview, ReviewProceeds
<1>3. ASSUME NEW failure, VerificationFailure(failure) PROVE Settles
  BY <1>0, <1>3, FailureSettles
<1>4. ASSUME Quiet(Block(task, "SYNC_REQUIRED", ""), Idle) PROVE Settles
  BY <1>0, <1>4, TaskBlock DEF Origins
<1>5. \/ Quiet(task, w)
      \/ \E failure : VerificationFailure(failure)
      \/ Quiet(Block(task, "SYNC_REQUIRED", ""), Idle)
  BY Zenon DEF Refresh
<1> HIDE DEF w
<1> QED BY <1>1, <1>2, <1>3, <1>4, <1>5

LEMMA AssessProceeds ==
  ASSUME Inductive, Assess
  PROVE  Proceeds
<1> DEFINE got == worker.got
           fine == With(got, {"clean", "advice"})
           e == [task.evidence EXCEPT !.done = task.evidence.done \union fine]
           u == [task EXCEPT !.evidence = e]
           w == [Idle EXCEPT !.pc = "accept", !.base = worker.base]
<1>0. worker.pc = "assess" /\ worker.pc \in Reviewing
  BY DEF Assess, Reviewing
<1>1. ASSUME Settles PROVE Proceeds
  BY <1>1, SettlesProceeds
<1>2. ASSUME Quiet(Block(task, "REVIEW", ""), Idle) PROVE Settles
  BY <1>0, <1>2, TaskBlock DEF Origins
<1>3. ASSUME NEW r \in Readers, Quiet(task, RetryNext(r, "tail")) PROVE Settles
  BY <1>0, <1>3, TaskRetry
<1>4. ASSUME Quiet(Block(task, "SYNC_REQUIRED", ""), [Idle EXCEPT !.pc = "tail"]) PROVE Settles
  <2>1. /\ Good(Block(task, "SYNC_REQUIRED", ""))
        /\ Block(task, "SYNC_REQUIRED", "").state = "BLOCKED_HUMAN"
        /\ Block(task, "SYNC_REQUIRED", "").rotations = task.rotations
    BY <1>0, InReview, GoodBlock DEF State, Origins
  <2> QED BY <1>0, <1>4, <2>1, InReview, SettleGo
<1>5. ASSUME Quiet(task, VerifyError) PROVE Settles
  BY <1>0, <1>5, TaskError
<1>6. ASSUME Quiet(task, Idle) PROVE Settles
  BY <1>0, <1>6, TaskIdle
<1>7. ASSUME Quiet(Block(task, "SYNC_REQUIRED", "verification_only"), Idle) PROVE Settles
  BY <1>0, <1>7, TaskBlock DEF Origins
<1>8. ASSUME Quiet(task, Go("refresh")) PROVE Proceeds
  BY <1>0, <1>8, TaskReviewed DEF Reviewing
<1>9. ASSUME Quiet(task, RetryNext("verification", "tail")) PROVE Settles
  BY <1>0, <1>9, TaskRetry
<1>10. ASSUME Quiet(u, w) PROVE Proceeds
  <2>1. /\ task \in Tasks(main) /\ worker \in Workers(main) /\ worker.role = None
        /\ task.evidence \in Reviewed
    BY <1>0, InReview DEF Tasks, Evidence
  <2>2. fine \subseteq Readers /\ \A r \in fine : got[r] \in {"clean", "advice"}
    BY DEF With
  <2> HIDE DEF fine
  <2>3. /\ e \in Reviewed /\ e.base = task.evidence.base /\ e.atHead = task.evidence.atHead
        /\ e.policy = task.evidence.policy /\ e.done = task.evidence.done \union fine
    BY <2>1, <2>2 DEF Reviewed
  <2>4. e # None
    BY <2>3, LifecycleAssumption DEF Reviewed
  <2> HIDE DEF e
  <2>5. /\ u \in Tasks(main) /\ u.guidance = task.guidance /\ u.preflight = task.preflight
        /\ SameBudget(task, u) /\ u.evidence = e /\ u.reviewed = task.reviewed /\ u.base = task.base
        /\ u.state = task.state /\ u.rotations = task.rotations
    BY <2>1, <2>3 DEF Tasks, SameBudget, Evidence
  <2> HIDE DEF u
  <2>6. "accept" \in Pcs /\ "accept" \in Reviewing
    BY DEF Pcs, Reviewing
  <2>7. /\ w \in Workers(main) /\ w.pc = "accept" /\ w.base = worker.base /\ w.role = None
        /\ w.given = {} /\ \A r \in Readers : w.got[r] = None
    <3>1. w = Starting("accept", worker.base)
      BY DEF Starting
    <3> HIDE DEF w
    <3> QED BY <1>0, <2>6, <3>1, InReview, WorkerStarts
  <2> HIDE DEF w
  <2>10. None \notin {"clean", "advice"}
    BY LifecycleAssumption
  <2>8. Founded(u)
    BY <1>0, <2>2, <2>3, <2>5, InReview DEF Founded
  <2>9. /\ u.evidence # None /\ u.evidence.atHead /\ u.evidence.policy = Policy(worker.base)
        /\ u.state = "REVIEW" /\ u.rotations # RotationLimit
        /\ Charged(u.retries, u.spent) /\ Until(u.retries, worker.base)
        /\ \A r \in Readers : w.got[r] \in {"clean", "advice"} =>
             <<r, u.evidence.policy>> \in u.reviewed
    BY <1>0, <2>3, <2>4, <2>5, <2>7, <2>10, InReview DEF SameBudget
  <2> QED BY <1>0, <1>10, <2>5, <2>6, <2>7, <2>8, <2>9, ReviewProceeds
<1>11. With(got, {"finding"}) \subseteq Readers
  BY WithReaders
<1>12. \/ Quiet(Block(task, "REVIEW", ""), Idle)
       \/ \E r \in With(got, {"finding"}) : Quiet(task, RetryNext(r, "tail"))
       \/ Quiet(Block(task, "SYNC_REQUIRED", ""), [Idle EXCEPT !.pc = "tail"])
       \/ Quiet(task, VerifyError)
       \/ Quiet(task, Idle)
       \/ Quiet(Block(task, "SYNC_REQUIRED", "verification_only"), Idle)
       \/ Quiet(task, Go("refresh"))
       \/ Quiet(task, RetryNext("verification", "tail"))
       \/ Quiet(u, w)
  BY Zenon DEF Assess
<1> HIDE DEF got, u, w
<1> QED BY <1>1, <1>2, <1>3, <1>4, <1>5, <1>6, <1>7, <1>8, <1>9, <1>10, <1>11, <1>12

(* What is ready to merge was reviewed by every role it needs. *)
LEMMA AcceptProceeds ==
  ASSUME Inductive, Accept
  PROVE  Proceeds
<1> DEFINE u == At(task, "MERGE_READY")
<1>0. worker.pc = "accept" /\ worker.pc \in Reviewing
  BY DEF Accept, Reviewing
<1>1. ASSUME Quiet(task, VerifyError) PROVE Proceeds
  BY <1>0, <1>1, TaskError, SettlesProceeds
<1>2. ASSUME Required(task) \subseteq task.evidence.done,
             NEW w \in {Idle, VerifyError}, Quiet(u, w)
      PROVE  Proceeds
  <2>1. /\ up /\ Types /\ Good(task) /\ task \in Tasks(main) /\ main \in Nat
        /\ task.rotations # RotationLimit
    BY <1>0, InReview
  <2>2. Good(u) /\ u.state = "MERGE_READY" /\ u.rotations = task.rotations /\ Plain(task, u)
    BY <2>1, GoodAt, AtIsPlain DEF State
  <2>3. /\ u.evidence = task.evidence /\ u.base = task.base /\ u.reviewed = task.reviewed
        /\ u.roles = task.roles
    BY <2>2 DEF Plain, SameReview
  <2>4. w \in Workers(main) /\ w.pc \in {"idle", "retry"} /\ w.given = {}
    <3>1. Idle \in Workers(main) /\ Idle.pc = "idle" /\ Idle.given = {}
      BY <2>1, IdleWorker DEF Idle
    <3>2. /\ VerifyError \in Workers(main) /\ VerifyError.pc = "retry"
          /\ VerifyError.given = {}
      BY <2>1, WorkerRetries DEF VerifyError
    <3> QED BY <1>2, <3>1, <3>2
  <2>5. UNCHANGED <<up, main, used, history>> /\ task' = u /\ worker' = w
    BY <1>2 DEF Quiet, Step
  <2> HIDE DEF u
  <2>6. Types'
    BY <2>1, <2>2, <2>4, <2>5, WorksTypes DEF Works, Good, Types
  <2>7. Where'
    BY <2>4, <2>5 DEF Where, Reviewing
  <2>8. Guided'
    BY <2>1, <2>2, <2>4, <2>5, GuidedKept DEF Inductive, Good, Calls
  <2>9. Budgeted'
    BY <2>2, <2>4, <2>5 DEF Budgeted, Good, Reviewing
  <2>10. Judged'
    BY <2>2, <2>4, <2>5, FoundedKept DEF Judged, Inductive, Good, Reviewing
  <2>11. AcceptedReviewed'
    <3>1. /\ task.evidence # None /\ task.evidence.atHead /\ Founded(task)
      BY <1>0, InReview
    <3> QED BY <1>2, <2>3, <2>5, <3>1 DEF AcceptedReviewed, Founded, Required
  <2>12. Consulted(task.preflight, history.advised)'
    BY <2>2, <2>5, ConsultedKept DEF Inductive, Good
  <2> QED BY <2>2, <2>5, <2>6, <2>7, <2>8, <2>9, <2>10, <2>11, <2>12 DEF Questioned, Inductive, Proceeds
<1>3. \/ Quiet(task, VerifyError)
      \/ /\ Required(task) \subseteq task.evidence.done
         /\ \E w \in {Idle, VerifyError} : Quiet(u, w)
  BY DEF Accept
<1> HIDE DEF u
<1> QED BY <1>1, <1>2, <1>3

LEMMA TailSettles ==
  ASSUME Inductive, RefreshDraftPR
  PROVE  Settles
<1> DEFINE w == [VerifyError EXCEPT !.result = "unrefreshed"]
<1>0. worker.pc = "tail" /\ Types /\ Good(task) /\ up /\ task.rotations # RotationLimit
  BY Busy, GoodTask DEF RefreshDraftPR, Inductive
<1>1. ASSUME Quiet(task, w) PROVE Settles
  <2>1. VerifyError \in Workers(main) /\ VerifyError.pc = "retry" /\ VerifyError.given = {}
    BY <1>0, WorkerRetries DEF VerifyError, Types
  <2>2. w \in Workers(main) /\ w.pc = "retry" /\ w.given = {} /\ w.result = "unrefreshed"
    BY <2>1 DEF Workers
  <2>3. UNCHANGED <<up, main, used, history>> /\ task' = task /\ worker' = w
    BY <1>1 DEF Quiet, Step
  <2> HIDE DEF w
  <2>4. task.state # "MERGE_READY"
    BY <1>0 DEF Inductive, Where
  <2> QED BY <1>0, <2>2, <2>3, <2>4 DEF Settles, Rests, Idling, Resting, Questioned
<1> QED BY <1>0, <1>1, TaskIdle, Zenon DEF RefreshDraftPR

-----------------------------------------------------------------------------
(* Events from outside, and the supervisor's end and start. *)

LEMMA HappensCounts ==
  ASSUME Types, NEW kind \in Outside, Happens(kind)
  PROVE  /\ used' \in [Outside -> Nat] /\ used'[kind] = used[kind] + 1
         /\ \A k \in Outside : k # kind => used'[k] = used[k]
BY DEF Types, Happens

LEMMA LaterTasks ==
  ASSUME NEW m \in Nat, NEW n \in Nat, m <= n
  PROVE  Tasks(m) \subseteq Tasks(n) /\ Workers(m) \subseteq Workers(n)
<1>1. 0..m \subseteq 0..n
  OBVIOUS
<1>2. Tasks(m) \subseteq Tasks(n)
  BY <1>1 DEF Tasks
<1>3. Workers(m) \subseteq Workers(n)
  BY <1>1 DEF Workers
<1> QED BY <1>2, <1>3

LEMMA PushKeeps ==
  ASSUME Inductive, Push
  PROVE  Inductive'
<1>1. /\ Types /\ main \in Nat /\ main' = main + 1 /\ main' \in Nat
      /\ UNCHANGED <<task, worker, up, history>> /\ Happens("push")
  BY DEF Push, Inductive, Types
<1>2. used' \in [Outside -> Nat] /\ used'["push"] = used["push"] + 1 /\ used'["guide"] = used["guide"]
  BY <1>1, HappensCounts DEF Outside
<1>3. task' \in Tasks(main') /\ worker' \in Workers(main')
  BY <1>1, LaterTasks DEF Types
<1>4. Types'
  BY <1>1, <1>2, <1>3 DEF Types
<1>5. Until(task.retries, main)'
  <2>1. task.retries \in Budgets /\ Until(task.retries, main)
    BY <1>1 DEF Types, Tasks, Inductive, Budgeted
  <2> QED BY <1>1, <2>1, UntilLater
<1>6. Guided'
  BY <1>1, <1>2 DEF Inductive, Guided, Prompted
<1>7. Where' /\ Budgeted' /\ Judged' /\ AcceptedReviewed'
      /\ Consulted(task.preflight, history.advised)'
      /\ Questioned(task, worker)'
  BY <1>1, <1>5 DEF Inductive, Where, Budgeted, Judged, AcceptedReviewed, Reviewing
<1> QED BY <1>4, <1>6, <1>7 DEF Inductive

LEMMA AppendedQueue ==
  ASSUME NEW q \in Queues, Len(q) < GuidanceLimit, NEW g \in Correct, NEW f, f = Append(q, g)
  PROVE  /\ f \in Queues /\ Len(f) = Len(q) + 1 /\ DOMAIN f = DOMAIN q \union {Len(q) + 1}
         /\ f[Len(q) + 1] = g /\ \A i \in DOMAIN q : f[i] = q[i]
         /\ DOMAIN q = 1..Len(q) /\ Len(q) \in Nat
<1>1. /\ q \in Seq(Correct) /\ Len(q) \in Nat /\ DOMAIN q = 1..Len(q) /\ GuidanceLimit \in Nat
  BY QueueTypes, AdviceAssumption
<1>2. /\ f \in Seq(Correct) /\ Len(f) = Len(q) + 1 /\ f[Len(q) + 1] = g
      /\ \A i \in 1..Len(q) : f[i] = q[i]
  BY <1>1, AppendProperties
<1>3. DOMAIN f = 1..(Len(q) + 1)
  BY <1>2, LenProperties
<1>4. 1..(Len(q) + 1) = 1..Len(q) \union {Len(q) + 1}
  BY <1>1
<1> QED BY <1>1, <1>2, <1>3, <1>4 DEF Queues

LEMMA GuideKeeps ==
  ASSUME Inductive, Guide
  PROVE  Inductive'
<1>1. PICK operator \in BOOLEAN :
        /\ GuidanceAccepted(task, operator)
        /\ Command("guide", QueueGuidance(task, used["guide"] + 1, operator, main))
  BY DEF Guide
<1> DEFINE q == task.guidance
           n == used["guide"]
           g == Correction(n + 1, operator, main)
           f == Append(q, g)
           u == [task EXCEPT !.guidance = f]
<1>2. /\ Types /\ main \in Nat /\ task \in Tasks(main) /\ q \in Queues /\ n \in Nat
      /\ worker \in Workers(main) /\ history \in Histories
  BY DEF Inductive, Types, Tasks, Outside
<1>3. /\ task.state \in {"READY", "RUNNING", "FIX", "SYNC_REQUIRED"} /\ Len(q) < GuidanceLimit
      /\ Happens("guide") /\ up
  BY <1>1 DEF GuidanceAccepted, Command
<1>4. UNCHANGED <<worker, up, main, history>> /\ task' = u
  BY <1>1 DEF Command, QueueGuidance
<1>5. /\ used' \in [Outside -> Nat] /\ used'["push"] = used["push"] /\ used'["guide"] = n + 1
  BY <1>2, <1>3, HappensCounts DEF Outside
<1>6. g \in Correct /\ g.id = n + 1 /\ ~g.delivered
  BY <1>2 DEF Correct, Correction
<1> HIDE DEF g
<1>7. /\ f \in Queues /\ Len(f) = Len(q) + 1 /\ DOMAIN f = DOMAIN q \union {Len(q) + 1}
      /\ f[Len(q) + 1] = g /\ \A i \in DOMAIN q : f[i] = q[i]
      /\ DOMAIN q = 1..Len(q) /\ Len(q) \in Nat
  BY <1>2, <1>3, <1>6, AppendedQueue
<1> HIDE DEF f
<1>8. /\ u \in Tasks(main) /\ u.guidance = f /\ u.preflight = task.preflight
      /\ SameBudget(task, u) /\ SameReview(task, u)
      /\ u.state = task.state /\ u.rotations = task.rotations
  BY <1>2, <1>7, QueueChanges
<1> HIDE DEF u, n
<1>9. Types'
  BY <1>2, <1>3, <1>4, <1>5, <1>8 DEF Types
<1>10. \A i \in DOMAIN q : q[i].id \in Nat /\ q[i].id <= n
  BY <1>2, QueueTypes DEF Inductive, Guided, Numbered, Correct, n
<1>11. Numbered(task.guidance, used["guide"])'
  <2>1. \A i, j \in DOMAIN q : q[i].id = q[j].id => i = j
    BY DEF Inductive, Guided, Numbered
  <2>2. ASSUME NEW i \in DOMAIN f PROVE f[i].id <= n + 1
    BY <1>2, <1>6, <1>7, <1>10, <2>2
  <2>3. ASSUME NEW i \in DOMAIN f, NEW j \in DOMAIN f, f[i].id = f[j].id PROVE i = j
    BY <1>2, <1>6, <1>7, <1>10, <2>1, <2>3
  <2> QED BY <1>4, <1>5, <1>8, <2>2, <2>3 DEF Numbered
<1>12. \A k \in worker.given \union history.acked : k \in Nat /\ k <= n
  BY <1>2 DEF Inductive, Guided, Prompted, Workers, Histories, n
<1>13. n + 1 \notin worker.given \union history.acked
  BY <1>2, <1>12
<1>14. Marked(task.guidance, history.acked)'
  <2>1. Marked(q, history.acked)
    BY DEF Inductive, Guided
  <2> QED BY <1>4, <1>6, <1>7, <1>8, <1>13, <2>1 DEF Marked
<1>15. Prompted'
  <2>1. \A k \in worker.given \union history.acked : k <= n + 1
    BY <1>2, <1>12
  <2>2. Prompted
    BY DEF Inductive, Guided
  <2>3. worker.pc \in {"calling", "checkpointing"} =>
          \A i \in DOMAIN f : f[i].operator /\ f[i].id \in worker.given => ~f[i].delivered
    BY <1>6, <1>7, <2>2 DEF Prompted
  <2>4. ASSUME worker.pc \in {"calling", "checkpointing", "checkpoint", "conclude"}
        PROVE  /\ worker.start <= Len(f)
               /\ \A i \in DOMAIN f : i <= worker.start /\ ~f[i].operator => f[i].id \in worker.given
    <3>1. /\ worker.start <= Len(q) /\ worker.start \in Nat
          /\ \A i \in DOMAIN q : i <= worker.start /\ ~q[i].operator => q[i].id \in worker.given
      BY <1>2, <2>2, <2>4 DEF Prompted, Workers
    <3> QED BY <1>7, <3>1
  <2> QED BY <1>4, <1>5, <1>8, <2>1, <2>3, <2>4 DEF Prompted
<1>16. Guided'
  BY <1>11, <1>14, <1>15 DEF Guided
<1>17. Where' /\ Budgeted' /\ Judged'
  BY <1>4, <1>8 DEF Inductive, Where, Budgeted, Judged, Founded, Reviewing, SameBudget, SameReview
<1>18. AcceptedReviewed' /\ task'.state # "BLOCKED_HUMAN"
       /\ Consulted(task.preflight, history.advised)'
  BY <1>3, <1>4, <1>8 DEF Inductive, AcceptedReviewed
<1> QED BY <1>9, <1>16, <1>17, <1>18 DEF Questioned, Inductive

(* A command that leaves the job as it is. *)
LEMMA CommandKeeps ==
  ASSUME Inductive, NEW t \in Tasks(main), Kept(task, t), t.state # "MERGE_READY",
         worker.pc \notin Reviewing,
         t.rotations = RotationLimit => t.state = "BLOCKED_HUMAN" /\ worker.pc = "idle",
         Questioned(t, worker),
         NEW kind \in Outside \ {"push", "guide"}, Command(kind, t)
  PROVE  Inductive'
<1>1. task' = t /\ UNCHANGED <<worker, up, main, history>> /\ Happens(kind) /\ Types
  BY DEF Command, Inductive
<1>2. /\ used' \in [Outside -> Nat] /\ used'["push"] = used["push"] /\ used'["guide"] = used["guide"]
  BY <1>1, HappensCounts DEF Outside
<1>3. Good(t)
  BY <1>1, GoodTask, GoodKept DEF Inductive
<1>4. Types'
  BY <1>1, <1>2 DEF Types
<1>5. Where'
  BY <1>1 DEF Inductive, Where
<1>6. Guided'
  BY <1>1, <1>2, <1>3, GuidedKept DEF Inductive, Good
<1>7. Budgeted'
  BY <1>1, <1>3 DEF Inductive, Budgeted, Good, Kept, BudgetKept, SameBudget, Until
<1>8. Judged'
  BY <1>1, <1>3, FoundedKept DEF Judged, Inductive, Good
<1>9. AcceptedReviewed' /\ Consulted(task.preflight, history.advised)'
  BY <1>1, <1>3, ConsultedKept DEF Inductive, AcceptedReviewed, Good
<1> QED BY <1>1, <1>4, <1>5, <1>6, <1>7, <1>8, <1>9 DEF Inductive

LEMMA AnsweredKept ==
  ASSUME Types, NEW s \in State, task.blocker.resume = s
  PROVE  /\ Answered(task) \in Tasks(main) /\ Kept(task, Answered(task))
         /\ Answered(task).state = s /\ Answered(task).rotations # RotationLimit
<1> DEFINE a == At(task, s)
           r == [q \in DOMAIN a.retries |-> None]
           n == IF a.rotations >= RotationLimit THEN 0 ELSE a.rotations
           u == [a EXCEPT !.blocker = None, !.retries = r, !.spent = {}, !.rotations = n]
<1>1. main \in Nat /\ task \in Tasks(main) /\ RotationLimit \in Nat \ {0}
  BY LifecycleAssumption DEF Types
<1>2. a \in Tasks(main) /\ Plain(task, a) /\ a.state = s
  BY <1>1, AtIsPlain
<1>3. Answered(task) = u
  BY Zenon DEF Answered
<1> HIDE DEF a
<1>4. r \in Budgets /\ \A q \in Readers : r[q] = None
  BY <1>1, <1>2, FreshBudgets, Zenon
<1>5. n \in 0..RotationLimit /\ n # RotationLimit
  BY <1>1, <1>2 DEF Tasks
<1> HIDE DEF r, n
<1>6. /\ u \in Tasks(main) /\ u.guidance = a.guidance /\ u.preflight = a.preflight
      /\ u.retries = r /\ u.spent = {} /\ SameReview(a, u) /\ u.state = s /\ u.rotations = n
  BY <1>2, <1>4, <1>5 DEF Tasks, Blocker, SameReview
<1> HIDE DEF u
<1>7. Kept(task, u)
  BY <1>2, <1>4, <1>6 DEF Plain, Kept, QueueKept, AdviceKept, BudgetKept, ReviewKept, SameReview
<1> QED BY <1>3, <1>5, <1>6, <1>7

LEMMA AnswerKeeps ==
  ASSUME Inductive, Answer
  PROVE  Inductive'
<1> DEFINE t == Answered(task)
           reused == ReusePreflight(t, main, {"READY", "FIX", "SYNC_REQUIRED"}, TRUE)
           fixed == At(reused, "FIX")
           bare == [t EXCEPT !.preflight = None]
<1>1. /\ Types /\ task.state = "BLOCKED_HUMAN" /\ task.blocker.resume \in Edges["BLOCKED_HUMAN"]
      /\ worker.pc \notin Reviewing
  BY DEF Answer, Inductive, Where, Reviewing
<1>2. PICK s \in {"READY", "FIX", "SYNC_REQUIRED", "POST_VERIFY", "PLANNED"} : task.blocker.resume = s
  BY <1>1 DEF Edges
<1>3. s \in State /\ "FIX" \in State
  BY DEF State
<1>4. t \in Tasks(main) /\ Kept(task, t) /\ t.state = s /\ t.rotations # RotationLimit
  BY <1>1, <1>2, <1>3, AnsweredKept
<1> HIDE DEF t
<1>5. main \in Nat
  BY <1>1 DEF Types
<1>6. reused \in Tasks(main) /\ Advises(t, reused)
  BY <1>4, <1>5, ReuseAdvises, Zenon
<1> HIDE DEF reused
<1>7. Kept(task, reused) /\ reused.state = s /\ reused.rotations # RotationLimit
  BY <1>4, <1>6, AdvisesKept, KeptAgain DEF Advises
<1>8. /\ fixed \in Tasks(main) /\ Kept(task, fixed) /\ fixed.state = "FIX"
      /\ fixed.rotations # RotationLimit
  BY <1>3, <1>5, <1>6, <1>7, AtIsPlain, PlainKept, KeptAgain
<1> HIDE DEF fixed
<1>9. bare \in Tasks(main) /\ Advises(t, bare)
  <2>1. None \in Preflight /\ AdviceKept(t.preflight, None)
    BY DEF Preflight, AdviceKept
  <2> QED BY <1>4, <1>5, <2>1, AdviceAdvises
<1> HIDE DEF bare
<1>10. Kept(task, bare) /\ bare.state = s /\ bare.rotations # RotationLimit
  BY <1>4, <1>9, AdvisesKept, KeptAgain DEF Advises
<1>11. PICK u \in {fixed, reused, bare} : Command("answer", u)
  BY Zenon DEF Answer, t, reused, fixed, bare
<1>12. /\ u \in Tasks(main) /\ Kept(task, u) /\ u.rotations # RotationLimit
       /\ u.state # "MERGE_READY" /\ u.state # "BLOCKED_HUMAN"
  BY <1>2, <1>6, <1>7, <1>8, <1>9, <1>10, <1>11
<1>13. "answer" \in Outside \ {"push", "guide"}
  BY DEF Outside
<1> QED BY <1>1, <1>11, <1>12, <1>13, CommandKeeps DEF Questioned

LEMMA AssignKeeps ==
  ASSUME Inductive, AssignRole
  PROVE  Inductive'
<1>1. PICK r \in Assignable : Command("assign", Assigned(task, r))
  BY DEF AssignRole
<1> DEFINE roles == task.roles \union {r}
           u == [task EXCEPT !.roles = roles, !.evidence = None, !.reviewed = {}, !.preflight = None]
<1>2. Assigned(task, r) = u
  BY Zenon DEF Assigned
<1>3. /\ Types /\ main \in Nat /\ task \in Tasks(main) /\ worker.pc \notin Reviewing
      /\ task.state # "MERGE_READY"
      /\ task.rotations = RotationLimit => task.state = "BLOCKED_HUMAN" /\ worker.pc = "idle"
      /\ Questioned(task, worker)
  BY DEF AssignRole, Inductive, Types, Where, Reviewing
<1>4. roles \in SUBSET Assignable
  BY <1>3 DEF Tasks
<1> HIDE DEF roles
<1>5. /\ u \in Tasks(main) /\ u.guidance = task.guidance /\ u.preflight = None /\ u.evidence = None
      /\ SameBudget(task, u) /\ u.state = task.state /\ u.rotations = task.rotations
  BY <1>3, <1>4 DEF Tasks, SameBudget, Evidence, Preflight
<1> HIDE DEF u
<1>6. Kept(task, u)
  BY <1>5 DEF Kept, QueueKept, AdviceKept, BudgetKept, ReviewKept
<1>7. "assign" \in Outside \ {"push", "guide"}
  BY DEF Outside
<1> QED BY <1>1, <1>2, <1>3, <1>5, <1>6, <1>7, CommandKeeps DEF Questioned

(* The supervisor ends or starts: no job is there afterwards. *)
LEMMA PauseKeeps ==
  ASSUME Inductive, UNCHANGED <<main, history>>, worker' = Idle, up' \in BOOLEAN,
         used' \in [Outside -> Nat], used'["push"] = used["push"], used'["guide"] = used["guide"],
         Good(task'),
         task'.rotations = RotationLimit => task'.state = "BLOCKED_HUMAN",
         task'.state = "MERGE_READY" => task.state = "MERGE_READY" /\ SameReview(task, task')
  PROVE  Inductive'
<1>1. Idle \in Workers(main) /\ Idle.pc = "idle" /\ Idle.given = {}
  BY IdleWorker DEF Inductive, Types, Idle
<1>2. Types'
  BY <1>1 DEF Inductive, Types, Good
<1>3. Where'
  BY <1>1 DEF Where, Reviewing
<1>4. Guided'
  BY <1>1, GuidedKept DEF Inductive, Good, Calls
<1>5. Budgeted'
  BY <1>1 DEF Budgeted, Good, Reviewing
<1>6. Judged'
  BY <1>1, FoundedKept DEF Judged, Inductive, Good, Reviewing
<1>7. AcceptedReviewed'
  BY DEF Inductive, AcceptedReviewed, SameReview, Required
<1>8. Consulted(task.preflight, history.advised)'
  BY ConsultedKept DEF Inductive, Good
<1> QED BY <1>1, <1>2, <1>3, <1>4, <1>5, <1>6, <1>7, <1>8 DEF Questioned, Inductive

(* The task as a supervisor leaves or finds it. *)
LEMMA ReleasedGood ==
  ASSUME Types, NEW t, Good(t), NEW u, u = t \/ \E s \in {"READY", "SYNC_REQUIRED"} : u = At(t, s)
  PROVE  LET v == ResetInterruptedPreflight(u)
         IN  /\ Good(v) /\ v.rotations = t.rotations
             /\ v.state = t.state \/ u # t
             /\ v.state # t.state => v.state \in {"READY", "SYNC_REQUIRED"}
             /\ SameReview(t, v)
<1> DEFINE v == ResetInterruptedPreflight(u)
<1>1. main \in Nat /\ t \in Tasks(main) /\ "READY" \in State /\ "SYNC_REQUIRED" \in State
  BY DEF Types, Good, State
<1>2. /\ u \in Tasks(main) /\ Good(u) /\ u.rotations = t.rotations /\ SameReview(t, u)
      /\ u.state # t.state => u.state \in {"READY", "SYNC_REQUIRED"}
  <2>1. CASE u = t
    BY <1>1, <2>1 DEF SameReview
  <2>2. ASSUME NEW s \in {"READY", "SYNC_REQUIRED"}, u = At(t, s)
        PROVE  /\ u \in Tasks(main) /\ Good(u) /\ u.rotations = t.rotations /\ SameReview(t, u)
               /\ u.state = s
    BY <1>1, <2>2, GoodAt, AtIsPlain DEF Plain
  <2> QED BY <2>1, <2>2
<1>3. v \in Tasks(main) /\ Advises(u, v)
  BY <1>1, <1>2, ResetAdvises, Zenon
<1> HIDE DEF v
<1>4. /\ Good(v) /\ v.rotations = t.rotations /\ SameReview(t, v) /\ v.state = u.state
  BY <1>2, <1>3, AdvisesKept, GoodKept DEF Advises, SameReview
<1> QED BY <1>2, <1>4 DEF v

LEMMA EndKeeps ==
  ASSUME Inductive, Crash \/ Stop
  PROVE  Inductive'
<1>1. /\ Types /\ main \in Nat /\ task \in Tasks(main) /\ Good(task) /\ Ends
  BY GoodTask DEF Inductive, Types, Crash, Stop
<1>2. /\ UNCHANGED <<main, history>> /\ worker' = Idle /\ up' \in BOOLEAN /\ Happens("end")
  BY <1>1 DEF Ends
<1>3. used' \in [Outside -> Nat] /\ used'["push"] = used["push"] /\ used'["guide"] = used["guide"]
  BY <1>1, <1>2, HappensCounts DEF Outside
<1>4. task.rotations = RotationLimit => task.state = "BLOCKED_HUMAN"
  BY <1>1 DEF Types
<1>5. CASE task' = task
  BY <1>1, <1>2, <1>3, <1>4, <1>5, PauseKeeps DEF SameReview
<1>6. ASSUME NEW t, t = task \/ (task.state # "MERGE_READY" /\ t \in Heads(task)), task' = Stopped(t)
      PROVE  Inductive'
  <2>1. Good(t) /\ t.state = task.state /\ t.rotations = task.rotations
    BY <1>1, <1>6, HeadsMove, GoodKept
  <2> DEFINE u == IF t.state = "RUNNING" THEN At(t, "READY") ELSE t
             v == ResetInterruptedPreflight(u)
  <2>2. u = t \/ \E s \in {"READY", "SYNC_REQUIRED"} : u = At(t, s)
    OBVIOUS
  <2>3. task' = v
    BY <1>6 DEF Stopped
  <2>4. u # t => t.state = "RUNNING"
    OBVIOUS
  <2> HIDE DEF u
  <2>5. /\ Good(v) /\ v.rotations = t.rotations
        /\ v.state = t.state \/ u # t
        /\ v.state # t.state => v.state \in {"READY", "SYNC_REQUIRED"}
        /\ SameReview(t, v)
    BY <1>1, <2>1, <2>2, ReleasedGood, Zenon
  <2> HIDE DEF v
  <2>6. v.rotations = RotationLimit => v.state = "BLOCKED_HUMAN"
    BY <1>4, <2>1, <2>4, <2>5
  <2>7. v.state = "MERGE_READY" => task.state = "MERGE_READY" /\ SameReview(task, v)
    BY <1>6, <2>1, <2>5
  <2> QED BY <1>2, <1>3, <2>3, <2>5, <2>6, <2>7, PauseKeeps
<1>7. \/ task' = task
      \/ \E t : (t = task \/ (task.state # "MERGE_READY" /\ t \in Heads(task))) /\ task' = Stopped(t)
  BY DEF Crash, Stop
<1> QED BY <1>5, <1>6, <1>7

LEMMA StartKeeps ==
  ASSUME Inductive, Start
  PROVE  Inductive'
<1> DEFINE u == CASE task.state = "RUNNING" -> At(task, "READY")
                  [] task.state \in {"IMPLEMENTED", "VERIFYING", "REVIEW"} -> At(task, "SYNC_REQUIRED")
                  [] OTHER -> task
           v == ResetInterruptedPreflight(u)
<1>1. /\ Types /\ Good(task) /\ worker = Idle /\ ~up
      /\ UNCHANGED <<worker, main, used, history>> /\ up' = TRUE
      /\ task.rotations = RotationLimit => task.state = "BLOCKED_HUMAN"
      /\ used \in [Outside -> Nat]
  BY GoodTask DEF Start, Inductive, Types
<1>2. task' = v
  BY DEF Start, Recovered
<1>3. u = task \/ \E s \in {"READY", "SYNC_REQUIRED"} : u = At(task, s)
  OBVIOUS
<1>4. u # task => task.state \in {"RUNNING", "IMPLEMENTED", "VERIFYING", "REVIEW"}
  OBVIOUS
<1> HIDE DEF u
<1>5. /\ Good(v) /\ v.rotations = task.rotations
      /\ v.state = task.state \/ u # task
      /\ v.state # task.state => v.state \in {"READY", "SYNC_REQUIRED"}
      /\ SameReview(task, v)
  BY <1>1, <1>3, ReleasedGood, Zenon
<1> HIDE DEF v
<1>6. v.rotations = RotationLimit => v.state = "BLOCKED_HUMAN"
  BY <1>1, <1>4, <1>5
<1> QED BY <1>1, <1>2, <1>5, <1>6, PauseKeeps

-----------------------------------------------------------------------------
(* The invariant. *)

LEMMA InitInductive ==
  ASSUME Init
  PROVE  Inductive
<1>1. /\ main = 0 /\ up = TRUE /\ worker = Idle
      /\ used \in [Outside -> Nat] /\ used["push"] = 0 /\ used["guide"] = 0
  BY DEF Init, Outside
<1>2. history \in Histories /\ history.acked = {}
  BY DEF Init, Histories
<1>3. /\ worker \in Workers(main) /\ worker.pc = "idle" /\ worker.given = {}
  BY <1>1, IdleWorker DEF Idle
<1>4. /\ task.state = "READY" /\ task.base = 0 /\ task.syncBase = None /\ task.attempts = 0
      /\ task.cycles = [k \in Kinds |-> 0] /\ task.rotations = 0
      /\ task.evidence = None /\ task.preflight = None
      /\ task.retries = [r \in Readers |-> None] /\ task.guidance = <<>> /\ task.spent = {}
  BY DEF Init, Kinds
<1>5. <<>> \in Queues /\ DOMAIN task.guidance = {}
  <2>1. <<>> \in Seq(Correct) /\ Len(<<>>) = 0 /\ GuidanceLimit \in Nat
    BY AdviceAssumption
  <2>2. DOMAIN task.guidance = 1..0
    BY <1>4, <2>1
  <2> QED BY <2>1, <2>2 DEF Queues
<1>6. task \in Tasks(main)
  <2>1. 0 \in 0..main /\ 0 \in 0..ReuseLimit /\ 0 \in 0..RotationLimit /\ 0 \in 0..FixLimit
    BY <1>1, AdviceAssumption, LifecycleAssumption
  <2>2. [k \in Kinds |-> 0] \in [Kinds -> 0..FixLimit]
    BY <2>1
  <2>3. [r \in Readers |-> None] \in Budgets
    BY DEF Budgets
  <2>4. /\ None \in Blocker /\ None \in Verification /\ None \in Evidence /\ None \in Preflight
        /\ "READY" \in State
    BY DEF Blocker, Verification, Evidence, Preflight, State
  <2>5. {} \in SUBSET Assignable /\ {} \in SUBSET (Readers \X Nat) /\ FALSE \in BOOLEAN
    OBVIOUS
  <2>6. task = [state |-> "READY", base |-> 0, syncBase |-> None, attempts |-> 0,
                cycles |-> [k \in Kinds |-> 0],
                rotations |-> 0, advisor |-> FALSE, blocker |-> None,
                verification |-> None, evidence |-> None, preflight |-> None,
                retries |-> [r \in Readers |-> None], guidance |-> <<>>, roles |-> {},
                spent |-> {}, reviewed |-> {}]
    BY DEF Init, Kinds
  <2> QED BY <1>5, <2>1, <2>2, <2>3, <2>4, <2>5, <2>6 DEF Tasks
<1>7. Types
  BY <1>1, <1>2, <1>3, <1>4, <1>6, LifecycleAssumption DEF Types
<1>8. Where
  BY <1>3, <1>4 DEF Where, Reviewing
<1>9. Guided
  BY <1>2, <1>3, <1>5 DEF Guided, Numbered, Marked, Prompted
<1>10. Budgeted
  BY <1>3, <1>4 DEF Budgeted, Charged, Until, Reviewing
<1>11. Judged /\ AcceptedReviewed /\ Consulted(task.preflight, history.advised)
  BY <1>3, <1>4 DEF Judged, Founded, AcceptedReviewed, Consulted, Reviewing
<1> QED BY <1>4, <1>7, <1>8, <1>9, <1>10, <1>11 DEF Questioned, Inductive

(* Every step of the job but the conclusion of a call. *)
LEMMA JobProceeds ==
  ASSUME Inductive, Job
  PROVE  Conclude \/ Proceeds
<1> QED BY PrepareProceeds, AskProceeds, AdvisedProceeds, CallImplementerProceeds, PassProceeds,
           ReturnsProceeds, CheckpointProceeds, SignedOutSettles, RetrySettles, AdvisorSettles,
           SyncTargetProceeds, SyncTaskProceeds, ChecksProceeds, WaveProceeds, EndProceeds,
           NothingProceeds, AssessProceeds, RefreshProceeds, AcceptProceeds, TailSettles,
           SettlesProceeds, Zenon DEF Job

LEMMA SchedulerProceeds ==
  ASSUME Inductive, Scheduler
  PROVE  AdmitWriter \/ Proceeds
BY StartPreflightSettles, FetchSettles, AdmissionSettles, LaunchVerificationSettles, InvalidateSettles, SettlesProceeds, Zenon
   DEF Scheduler

LEMMA NextInductive ==
  ASSUME Inductive, [Next]_vars
  PROVE  Inductive'
<1>1. ASSUME Job PROVE Inductive'
  BY <1>1, JobProceeds, ConcludeRests, RestsKeeps, Zenon DEF Proceeds
<1>2. ASSUME Scheduler PROVE Inductive'
  BY <1>2, SchedulerProceeds, AdmitRests, RestsKeeps, Zenon DEF Proceeds
<1>3. ASSUME Environment PROVE Inductive'
  BY <1>3, PushKeeps, GuideKeeps, AnswerKeeps, AssignKeeps, EndKeeps, StartKeeps, Zenon
     DEF Environment
<1>4. ASSUME UNCHANGED vars PROVE Inductive'
  BY <1>4 DEF vars, Inductive, Types, Where, Guided, Numbered, Marked, Prompted, Budgeted, Judged,
              AcceptedReviewed, Reviewing
<1> QED BY <1>1, <1>2, <1>3, <1>4 DEF Next

LEMMA AlwaysInductive == Spec => []Inductive
<1>1. Init => Inductive
  BY InitInductive
<1>2. Inductive /\ [Next]_vars => Inductive'
  BY NextInductive
<1> QED BY <1>1, <1>2, PTL DEF Spec

-----------------------------------------------------------------------------
(* What events from outside do to the task's state. *)

LEMMA ReleasedState ==
  ASSUME NEW m \in Nat, NEW t \in Tasks(m), NEW s \in {"READY", "SYNC_REQUIRED"}
  PROVE  /\ ResetInterruptedPreflight(t).state = t.state
         /\ ResetInterruptedPreflight(At(t, s)).state = s
<1>1. At(t, s) \in Tasks(m) /\ At(t, s).state = s
  BY AtIsPlain DEF State
<1>2. ASSUME NEW u \in Tasks(m) PROVE ResetInterruptedPreflight(u).state = u.state
  BY ResetAdvises, Zenon DEF Advises
<1> QED BY <1>1, <1>2

LEMMA EnvironmentStates ==
  ASSUME Inductive, Environment
  PROVE  /\ task'.state = task.state \/ task'.state \notin {"RUNNING", "IMPLEMENTED"}
         /\ task.state = "BLOCKED_HUMAN" =>
              task'.state = "BLOCKED_HUMAN" \/ used'["answer"] > used["answer"]
<1> DEFINE Goal == /\ task'.state = task.state \/ task'.state \notin {"RUNNING", "IMPLEMENTED"}
                   /\ task.state = "BLOCKED_HUMAN" =>
                        task'.state = "BLOCKED_HUMAN" \/ used'["answer"] > used["answer"]
<1>0. Types /\ main \in Nat /\ task \in Tasks(main) /\ used \in [Outside -> Nat]
  BY DEF Inductive, Types
<1>1. ASSUME task'.state = task.state PROVE Goal
  BY <1>1
<1>2. ASSUME Guide PROVE task'.state = task.state
  <2>1. PICK operator \in BOOLEAN : task' = QueueGuidance(task, used["guide"] + 1, operator, main)
    BY <1>2 DEF Guide, Command
  <2> QED BY <1>0, <2>1 DEF QueueGuidance, Tasks
<1>3. ASSUME Answer PROVE Goal
  <2> DEFINE t == Answered(task)
             reused == ReusePreflight(t, main, {"READY", "FIX", "SYNC_REQUIRED"}, TRUE)
  <2>1. PICK s \in {"READY", "FIX", "SYNC_REQUIRED", "POST_VERIFY", "PLANNED"} : task.blocker.resume = s
    BY <1>3 DEF Answer, Edges
  <2>2. s \in State /\ "FIX" \in State
    BY DEF State
  <2>3. t \in Tasks(main) /\ t.state = s
    BY <1>0, <2>1, <2>2, AnsweredKept
  <2> HIDE DEF t
  <2>4. reused \in Tasks(main) /\ reused.state = s
    <3>1. reused \in Tasks(main) /\ Advises(t, reused)
      BY <1>0, <2>3, ReuseAdvises, Zenon
    <3> HIDE DEF reused
    <3> QED BY <2>3, <3>1 DEF Advises
  <2> HIDE DEF reused
  <2>5. At(reused, "FIX").state = "FIX" /\ [t EXCEPT !.preflight = None].state = s
    BY <1>0, <2>2, <2>3, <2>4, AtIsPlain DEF Tasks
  <2>6. PICK u \in {At(reused, "FIX"), reused, [t EXCEPT !.preflight = None]} : Command("answer", u)
    BY <1>3, Zenon DEF Answer, t, reused
  <2>7. task' = u /\ used'["answer"] = used["answer"] + 1
    <3>1. Happens("answer") /\ task' = u
      BY <2>6 DEF Command
    <3> QED BY <1>0, <3>1, HappensCounts DEF Outside
  <2>8. task'.state \in {"FIX", s} /\ used["answer"] \in Nat
    BY <1>0, <2>3, <2>4, <2>5, <2>6, <2>7 DEF Outside
  <2> QED BY <2>1, <2>7, <2>8
<1>4. ASSUME AssignRole PROVE task'.state = task.state
  <2>1. PICK r \in Assignable : task' = Assigned(task, r)
    BY <1>4 DEF AssignRole, Command
  <2> QED BY <1>0, <2>1 DEF Assigned, Tasks
<1>5. ASSUME Push \/ Crash PROVE task'.state = task.state
  BY <1>5 DEF Push, Crash
<1>6. ASSUME Stop PROVE Goal
  <2>1. PICK t : /\ task' = Stopped(t)
                 /\ t = task \/ t \in Heads(task)
    BY <1>6 DEF Stop
  <2>2. t \in Tasks(main) /\ t.state = task.state
    BY <1>0, <2>1, HeadsMove
  <2>3. task'.state = t.state \/ (t.state = "RUNNING" /\ task'.state = "READY")
    BY <1>0, <2>1, <2>2, ReleasedState DEF Stopped
  <2> QED BY <2>2, <2>3
<1>7. ASSUME Start PROVE Goal
  <2>1. \/ task'.state = task.state
        \/ /\ task.state \in {"RUNNING", "IMPLEMENTED", "VERIFYING", "REVIEW"}
           /\ task'.state \in {"READY", "SYNC_REQUIRED"}
    BY <1>0, <1>7, ReleasedState DEF Start, Recovered
  <2> QED BY <2>1
<1> QED BY <1>1, <1>2, <1>3, <1>4, <1>5, <1>6, <1>7 DEF Environment

(* Where the job's actions begin. *)
LEMMA JobPlaces ==
  ASSUME Job
  PROVE  /\ worker.pc # "idle"
         /\ worker.pc = "ask" => AskPreRole
         /\ worker.pc = "review" => BeginWave \/ NothingToReview
         /\ worker.pc = "tail" => RefreshDraftPR
<1>1. PreparePreflight => worker.pc = "prepare"
  BY Zenon DEF PreparePreflight
<1>2. AskPreRole => worker.pc = "ask"
  BY Zenon DEF AskPreRole
<1>3. Advised => worker.pc = "advising"
  BY Zenon DEF Advised
<1>4. CallImplementer => worker.pc = "implement"
  BY Zenon DEF CallImplementer
<1>5. CheckpointPass => worker.pc = "calling"
  BY Zenon DEF CheckpointPass
<1>6. ImplementerReturns => worker.pc \in {"calling", "checkpointing"}
  BY Zenon DEF ImplementerReturns
<1>7. Checkpoint => worker.pc = "checkpoint"
  BY Zenon DEF Checkpoint
<1>8. SignedOut => worker.pc = "signed_out"
  BY Zenon DEF SignedOut
<1>9. Conclude => worker.pc = "conclude"
  BY Zenon DEF Conclude
<1>10. Retry => worker.pc = "retry"
  BY Zenon DEF Retry
<1>11. AdvisorReturns => worker.pc = "advisor"
  BY Zenon DEF AdvisorReturns
<1>12. SyncTarget => worker.pc = "verify"
  BY Zenon DEF SyncTarget
<1>13. SyncTask => worker.pc = "sync"
  BY Zenon DEF SyncTask
<1>14. Checks => worker.pc = "checks"
  BY Zenon DEF Checks
<1>15. BeginWave => worker.pc = "review"
  BY Zenon DEF BeginWave
<1>16. EndWave => worker.pc = "reading"
  BY Zenon DEF EndWave
<1>17. NothingToReview => worker.pc = "review"
  BY Zenon DEF NothingToReview
<1>18. Assess => worker.pc = "assess"
  BY Zenon DEF Assess
<1>19. Refresh => worker.pc = "refresh"
  BY Zenon DEF Refresh
<1>20. Accept => worker.pc = "accept"
  BY Zenon DEF Accept
<1>21. RefreshDraftPR => worker.pc = "tail"
  BY Zenon DEF RefreshDraftPR
<1> QED BY <1>1, <1>2, <1>3, <1>4, <1>5, <1>6, <1>7, <1>8, <1>9, <1>10, <1>11, <1>12, <1>13, <1>14,
           <1>15, <1>16, <1>17, <1>18, <1>19, <1>20, <1>21 DEF Job

-----------------------------------------------------------------------------
(* The theorems. *)

(* Whatever order retries, answers, rotations, pushes, crashes and restarts *)
(* come in, every record of the task has the values the code can give it:   *)
(* attempts, review cycles, rotations and reuses stay within the limits of  *)
(* retry, Rotated, reusePreflight and queueGuidance.  The repetitions that  *)
(* verificationFailure counts have none.                                    *)
THEOREM TypeCorrect == Spec => []TypeOK
<1>1. Inductive => TypeOK
  <2> SUFFICES ASSUME Inductive PROVE TypeOK
    OBVIOUS
  <2>1. Types /\ task \in Tasks(main)
    BY DEF Inductive, Types
  <2>2. /\ task.state \in State /\ task.attempts \in 0..ReuseLimit
        /\ task.rotations \in 0..RotationLimit /\ task.syncBase \in (0..main) \union {None}
        /\ task.base \in 0..main
    BY <2>1 DEF Tasks
  <2>3. \A k \in DOMAIN task.cycles : task.cycles[k] \in 0..FixLimit
    BY <2>1 DEF Tasks
  <2>4. task.blocker = None \/ task.blocker.resume \in State
    BY <2>1 DEF Tasks, Blocker
  <2>5. task.verification # None => task.verification.attempts \in Nat
    BY <2>1 DEF Tasks, Verification
  <2>6. task.evidence # None => task.evidence.done \subseteq Readers
    BY <2>1 DEF Tasks, Evidence, Reviewed
  <2>7. task.preflight # None => /\ task.preflight.completed \subseteq PreRoles
                                 /\ task.preflight.reused \in 0..ReuseLimit
    BY <2>1 DEF Tasks, Preflight, Advisory
  <2>8. Len(task.guidance) <= GuidanceLimit
    BY <2>1 DEF Tasks, Queues
  <2> QED BY <2>1, <2>2, <2>3, <2>4, <2>5, <2>6, <2>7, <2>8 DEF TypeOK, Records, Types
<1> QED BY <1>1, AlwaysInductive, PTL

(* verifyReview, checkpointAtBase and syncTask: a task that is ready to     *)
(* merge was reviewed by every role it needs, at its head, on its base and  *)
(* under the policy of its evidence, for any roles, pushes and restarts.    *)
THEOREM ReadyIsReviewed == Spec => []AcceptedReviewed
<1>1. Inductive => AcceptedReviewed
  BY DEF Inductive
<1> QED BY <1>1, AlwaysInductive, PTL

(* MarkOperatorGuidanceDelivered: no later prompt holds operator guidance   *)
(* that a call acknowledged, for any queue, failures and restarts.          *)
THEOREM GuidanceDeliveredOnce == Spec => []DeliveredOnce
<1>1. Inductive => DeliveredOnce
  BY DEF Inductive, Guided, Marked, Prompted, DeliveredOnce
<1> QED BY <1>1, AlwaysInductive, PTL

(* completeImplementation: the call that completes an implementation had    *)
(* every correction of other tasks in its prompt, also the ones that        *)
(* arrived while it ran.                                                    *)
THEOREM CompletionReconciles == Spec => GuidanceReconciled
<1>1. ASSUME Inductive, [Next]_vars, task.state # "IMPLEMENTED", task'.state = "IMPLEMENTED",
             NEW i \in DOMAIN task.guidance, ~task.guidance[i].operator
      PROVE  task.guidance[i].id \in worker.given
  <2>1. Conclude
    <3>1. ASSUME Job PROVE Conclude
      BY <1>1, <3>1, JobProceeds DEF Proceeds
    <3>2. ASSUME Scheduler PROVE FALSE
      <4>1. ~AdmitWriter
        <5>1. ASSUME AdmitWriter PROVE task'.state # "IMPLEMENTED"
          <6>1. task \in Tasks(main)
            BY <1>1 DEF Inductive, Types
          <6>2. \/ task' = [At(task, "RUNNING") EXCEPT !.preflight.phase = "writing"]
                \/ task' = [task EXCEPT !.preflight = None]
            BY <5>1 DEF AdmitWriter, Quiet, Step
          <6> QED BY <1>1, <6>1, <6>2 DEF At, Tasks
        <5> QED BY <1>1, <5>1
      <4> QED BY <1>1, <3>2, <4>1, SchedulerProceeds DEF Proceeds
    <3>3. ASSUME Environment PROVE FALSE
      BY <1>1, <3>3, EnvironmentStates
    <3> QED BY <1>1, <3>1, <3>2, <3>3 DEF Next, vars
  <2>2. ~Late(task, worker.start) /\ worker.pc = "conclude"
    BY <1>1, <2>1, ConcludeRests, Zenon DEF Conclude
  <2>3. /\ task.guidance \in Queues /\ worker.start \in Nat
        /\ \A j \in DOMAIN task.guidance :
             j <= worker.start /\ ~task.guidance[j].operator => task.guidance[j].id \in worker.given
    BY <1>1, <2>2 DEF Inductive, Types, Tasks, Workers, Guided, Prompted
  <2>4. DOMAIN task.guidance = 1..Len(task.guidance) /\ Len(task.guidance) \in Nat
    BY <2>3, QueueTypes
  <2>5. i <= worker.start
    BY <1>1, <2>2, <2>3, <2>4 DEF Late
  <2> QED BY <1>1, <2>3, <2>5
<1>2. Inductive /\ [Next]_vars =>
        [(task.state # "IMPLEMENTED" /\ task'.state = "IMPLEMENTED")
          => \A i \in DOMAIN task.guidance :
               ~task.guidance[i].operator => task.guidance[i].id \in worker.given]_vars
  BY <1>1
<1> QED BY <1>2, AlwaysInductive, PTL DEF Spec, GuidanceReconciled

(* admitWriter: a writer starts only when every pre-implementation role     *)
(* advised on the guidance that is queued when the admission is published,  *)
(* on the main that the admission fetched.                                  *)
THEOREM WritersAdvised == Spec => AdviceIsFresh
<1>1. ASSUME Inductive, [Next]_vars, task.state # "RUNNING", task'.state = "RUNNING", NEW r \in PreRoles
      PROVE  history.advised[r] = [base |-> worker.base, scope |-> PreflightScope(task, worker.base)]
  <2>1. AdmitWriter
    <3>1. ASSUME Job PROVE FALSE
      BY <1>1, <3>1, JobProceeds, ConcludeRests DEF Proceeds
    <3>2. ASSUME Scheduler PROVE AdmitWriter
      BY <1>1, <3>2, SchedulerProceeds DEF Proceeds
    <3>3. ASSUME Environment PROVE FALSE
      BY <1>1, <3>3, EnvironmentStates
    <3> QED BY <1>1, <3>1, <3>2, <3>3 DEF Next, vars
  <2>2. PreflightMatches(task, worker.base) /\ Complete(task.preflight)
    <3>1. task \in Tasks(main)
      BY <1>1 DEF Inductive, Types
    <3>2. ASSUME task' = [task EXCEPT !.preflight = None] PROVE FALSE
      BY <1>1, <3>1, <3>2 DEF Tasks
    <3> QED BY <2>1, <3>2 DEF AdmitWriter, Quiet, Step
  <2>3. Consulted(task.preflight, history.advised)
    BY <1>1 DEF Inductive
  <2> QED BY <2>2, <2>3 DEF Consulted, PreflightMatches, Complete
<1>2. Inductive /\ [Next]_vars =>
        [(task.state # "RUNNING" /\ task'.state = "RUNNING")
          => \A r \in PreRoles :
               history.advised[r] = [base |-> worker.base, scope |-> PreflightScope(task, worker.base)]]_vars
  BY <1>1
<1> QED BY <1>2, AlwaysInductive, PTL DEF Spec, AdviceIsFresh

(* beginReadOnlyAttempt: once a reader's narrower request has begun, no     *)
(* supervisor asks it again under the same policy before the operator       *)
(* answers or the head moves.                                               *)
THEOREM ReadersWithinBudget == Spec => ReaderBudgetHolds
<1>1. ASSUME Inductive, [Next]_vars, NEW r \in Readers,
             worker'.pc \in {"advising", "reading"}, worker.pc \in {"ask", "review"},
             r = worker'.role \/ r \in worker'.reading
      PROVE  <<r, Policy(worker.base)>> \notin task.spent
  <2>1. AskPreRole \/ BeginWave \/ NothingToReview
    <3>1. ASSUME Job PROVE AskPreRole \/ BeginWave \/ NothingToReview
      BY <1>1, <3>1, JobPlaces
    <3>2. ASSUME Scheduler PROVE FALSE
      BY <1>1, <3>2 DEF Scheduler, StartPreflight, FetchForWriter, AdmitWriter, AdmissionFails, LaunchVerification,
                        Invalidate
    <3>3. ASSUME Environment PROVE FALSE
      <4>1. worker' = worker \/ worker' = Idle
        BY <3>3 DEF Environment, Push, Guide, Answer, AssignRole, Command, Crash, Stop, Ends, Start
      <4> QED BY <1>1, <4>1 DEF Idle
    <3> QED BY <1>1, <3>1, <3>2, <3>3 DEF Next, vars
  <2>2. CASE AskPreRole
    BY <1>1, <2>2, AskProceeds
  <2>3. CASE BeginWave
    BY <1>1, <2>3, WaveProceeds, LifecycleAssumption
  <2>4. CASE NothingToReview
    <3>1. worker \in Workers(main) /\ worker' = Go("assess")
      BY <1>1, <2>4 DEF Inductive, Types, NothingToReview, Quiet, Step
    <3> QED BY <1>1, <3>1 DEF Go, Workers
  <2> QED BY <2>1, <2>2, <2>3, <2>4
<1>2. Inductive /\ [Next]_vars =>
        [\A r \in Readers :
           (/\ worker'.pc \in {"advising", "reading"}
            /\ worker.pc \in {"ask", "review"}
            /\ r = worker'.role \/ r \in worker'.reading)
             => <<r, Policy(worker.base)>> \notin task.spent]_vars
  BY <1>1
<1> QED BY <1>2, AlwaysInductive, PTL DEF Spec, ReaderBudgetHolds

(* Only the operator's answer takes a task out of BLOCKED_HUMAN, or a job   *)
(* that published its question and then failed to refresh the pull request: *)
(* after an error of refreshDraftPR, retry sets FIX over the question.      *)
THEOREM BlockedTaskWaits == Spec => HumanWaits
<1>1. ASSUME Inductive, [Next]_vars, task.state = "BLOCKED_HUMAN", task'.state # "BLOCKED_HUMAN"
      PROVE  used'["answer"] > used["answer"] \/ worker.result = "unrefreshed"
  <2>1. ASSUME Job PROVE worker.result = "unrefreshed"
    <3>1. \/ worker.pc \in {"idle", "tail"}
          \/ worker.result = "unrefreshed"
      BY <1>1 DEF Inductive, Questioned
    <3>2. worker.pc = "tail" => task' = task
      BY <2>1, JobPlaces DEF RefreshDraftPR, Quiet, Step
    <3> QED BY <1>1, <2>1, <3>1, <3>2, JobPlaces
  <2>2. ASSUME Scheduler PROVE FALSE
    <3>1. worker.pc # "admitting"
      BY <1>1 DEF Inductive, Questioned
    <3> QED BY <1>1, <2>2, <3>1
            DEF Scheduler, StartPreflight, FetchForWriter, AdmitWriter, AdmissionFails,
                LaunchVerification, Invalidate
  <2>3. ASSUME Environment PROVE used'["answer"] > used["answer"]
    BY <1>1, <2>3, EnvironmentStates
  <2> QED BY <1>1, <2>1, <2>2, <2>3 DEF Next, vars
<1>2. Inductive /\ [Next]_vars =>
        [(task.state = "BLOCKED_HUMAN" /\ task'.state # "BLOCKED_HUMAN")
          => \/ used'["answer"] > used["answer"]
             \/ worker.result = "unrefreshed"]_vars
  BY <1>1
<1> QED BY <1>2, AlwaysInductive, PTL DEF Spec, HumanWaits
=============================================================================
