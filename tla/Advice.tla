-------------------------------- MODULE Advice --------------------------------
(***************************************************************************)
(* What a task knows besides its source: the guidance queued for its       *)
(* implementer (internal/model/model.go), the pre-implementation advice of *)
(* the readers (internal/engine/preflight.go), and the budgets of its      *)
(* read-only roles (internal/engine/workflow.go).  Operators on one task   *)
(* record; TaskLifecycle is the state machine that uses them.              *)
(*                                                                         *)
(* Records that name the task's head hold atHead instead: TRUE until the   *)
(* head moves.  A head never comes back, so nothing else is compared.      *)
(* A revision of main is a number, and Policy(m) is the version of the     *)
(* configuration and the role rules at main m.                             *)
(***************************************************************************)
EXTENDS Integers, Sequences, FiniteSets, SequencesExt

CONSTANTS
  PreRoles,        \* required pre-implementation roles
  None,            \* no record
  GuidanceLimit,   \* MaxTaskGuidance (8)
  ReuseLimit,      \* policy: implementation_retries, which also bounds reuse
  PolicyChanges    \* the revisions of main that change policy

(* A designer's advice may be waived for text repairs that the designer    *)
(* review found (directFixRoute); tasks that need it are not modelled.     *)
ASSUME AdviceAssumption ==
  /\ GuidanceLimit \in Nat /\ ReuseLimit \in Nat
  /\ "designer" \notin PreRoles
  /\ PolicyChanges \subseteq Nat
  /\ None \notin PreRoles \union [policy : Nat, attempts : Nat]

Policy(m) == Cardinality({p \in PolicyChanges : p <= m})

-----------------------------------------------------------------------------
(* Guidance: a sequence of corrections in the order of their acceptance.   *)

Ids(items) == {g.id : g \in items}

(* Operator guidance is for one exact scope; corrections of other tasks    *)
(* stay in every prompt.                                                   *)
Eligible(g, base) ==
  g.operator => /\ ~g.delivered
                /\ g.base = base
                /\ g.atHead \/ g.pending
EligibleGuidance(t, base) == {g \in ToSet(t.guidance) : Eligible(g, base)}

Correction(id, operator, base) ==
  [id |-> id, operator |-> operator, base |-> base, atHead |-> TRUE,
   pending |-> FALSE, delivered |-> FALSE]

GuidanceAccepted(t, operator) ==
  /\ t.state \in {"READY", "RUNNING", "FIX"} \union (IF operator THEN {"SYNC_REQUIRED"} ELSE {})
  /\ Len(t.guidance) < GuidanceLimit

QueueGuidance(t, id, operator, base) ==
  [t EXCEPT !.guidance = Append(@, Correction(id, operator, base))]

CarryLateOperatorGuidance(t, start) ==
  [t EXCEPT !.guidance = [i \in DOMAIN t.guidance |->
     [t.guidance[i] EXCEPT !.pending = @ \/ (/\ i > start
                                             /\ t.guidance[i].operator
                                             /\ ~t.guidance[i].delivered
                                             /\ ~t.guidance[i].atHead)]]]

DeliveredNever(t, ids) == t   \* mutant
MarkOperatorGuidanceDelivered(t, ids) ==
  [t EXCEPT !.guidance = [i \in DOMAIN t.guidance |->
     [t.guidance[i] EXCEPT !.delivered = @ \/ (t.guidance[i].operator /\ t.guidance[i].id \in ids)]]]

-----------------------------------------------------------------------------
(* Pre-implementation advice. *)

(* The contract the readers advise on: the task's roles and the guidance   *)
(* that an implementer would receive.  Areas and dependencies, which it    *)
(* binds as well, stay as they are in this model.                          *)
PreflightScope(t, base) ==
  [guidance |-> {<<g.id, g.pending>> : g \in EligibleGuidance(t, base)}, roles |-> t.roles]

PreflightMatches(t, base) ==
  /\ t.preflight # None
  /\ t.preflight.base = base
  /\ t.preflight.atHead
  /\ t.preflight.scope = PreflightScope(t, base)

NewPreflight(t, base) ==
  [phase |-> "queued", base |-> base, atHead |-> TRUE,
   scope |-> PreflightScope(t, base), completed |-> {}, reused |-> 0]

Complete(p) == PreRoles \subseteq p.completed

(* Advice of an earlier pass may serve again while its contract and base   *)
(* are unchanged: after new source (head = FALSE), or at the same head by  *)
(* an exact human acknowledgement (head = TRUE).                           *)
Reusable(t, base, states, head) ==
  /\ t.preflight # None
  /\ t.state \in states
  /\ t.preflight.phase = "writing"
  /\ t.preflight.atHead = head
  /\ t.preflight.base = base
  /\ t.preflight.scope = PreflightScope(t, base)
  /\ t.preflight.reused < ReuseLimit
  /\ Complete(t.preflight)

Reused(p) == [p EXCEPT !.atHead = TRUE, !.phase = "ready", !.reused = @ + 1]

ReusePreflight(t, base, states, head) ==
  IF Reusable(t, base, states, head) THEN [t EXCEPT !.preflight = Reused(@)] ELSE t

ResetInterruptedPreflight(t) ==
  IF t.preflight # None /\ t.preflight.phase \in {"waiting", "running"}
  THEN [t EXCEPT !.preflight.phase = "queued"] ELSE t

(* Preflight.HeadSHA := HeadSHA, for a verification-only blocker. *)
AdvancePreflightHead(t) ==
  IF t.preflight # None /\ t.preflight.phase = "writing"
  THEN [t EXCEPT !.preflight.atHead = TRUE] ELSE t

-----------------------------------------------------------------------------
(* The budget of a read-only role r: a first request and one narrower one  *)
(* for the same base, head and policy.                                     *)

Guard(t, r, base) ==
  IF t.retries[r] # None /\ t.retries[r].policy = Policy(base)
  THEN t.retries[r].attempts ELSE 0

SetGuards(t, attempts, roles, base) ==
  [t EXCEPT !.retries = [r \in DOMAIN @ |->
     IF r \in roles THEN [policy |-> Policy(base), attempts |-> attempts] ELSE @[r]]]

ReaderMayBegin(t, r, base) == Guard(t, r, base) < 2

BeginUnfenced(t, roles, base) == t   \* mutant: the narrower request is not recorded
(* The narrower request is consumed when it begins. *)
BeginReadOnlyAttempt(t, roles, base) ==
  SetGuards(t, 2, {r \in roles : Guard(t, r, base) = 1}, base)

(* Whether a deadline leaves the role its narrower request. *)
ReaderMayRetry(t, r, base) == Guard(t, r, base) = 0

RecordReadOnlyDeadline(t, late, base) ==
  LET first == {r \in late : ReaderMayRetry(t, r, base)}
  IN SetGuards(SetGuards(t, 1, first, base), 2, late \ first, base)

-----------------------------------------------------------------------------
(* A guard of verification of another head: only its wish for native       *)
(* checks is read again.                                                   *)
OtherHead(native) ==
  [class |-> "", attempts |-> 0, atHead |-> FALSE, env |-> None, native |-> native]

(* The task's head moves: what named the old head names it no longer.      *)
(* spent and reviewed are history of the present head: the narrower        *)
(* requests that began, and the reviews that its evidence rests on.        *)
Moved(t) ==
  [t EXCEPT
     !.guidance = [i \in DOMAIN @ |-> [@[i] EXCEPT !.atHead = FALSE]],
     !.preflight = IF @ = None THEN None ELSE [@ EXCEPT !.atHead = FALSE],
     !.verification = IF @ = None THEN None ELSE OtherHead(t.verification.native),
     !.evidence = IF @ = None THEN None ELSE [@ EXCEPT !.atHead = FALSE],
     !.retries = [r \in DOMAIN @ |-> None],
     !.spent = {}, !.reviewed = {}]
=============================================================================
