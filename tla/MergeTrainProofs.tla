--------------------------- MODULE MergeTrainProofs ---------------------------
(***************************************************************************)
(* What holds of MergeTrain whatever updates of pull requests fail: types, *)
(* snapshots that decode, and that what lands was reviewed as it is and    *)
(* independent of what lands with it.                                      *)
(***************************************************************************)
EXTENDS MergeTrain, FiniteSetTheorems, WellFoundedInduction, TLAPS

Evidence == [base : Nat, head : Nat] \union {NoEvidence}
ResumeState == {"FIX", "SYNC_REQUIRED", "POST_VERIFY"}
TaskRecord == [state : State, base : Nat, head : Nat, merge : Nat, by : Nat, races : Nat,
               evidence : Evidence, resume : ResumeState, recovery : BOOLEAN]
Snapshot == [task : [Task -> TaskRecord], held : Task \union {None}, batch : Batch]
Main == [version : Nat, landed : [Task -> Nat], missed : [Task -> Nat]]
Worker == {"none", "implement", "verify", "review", "tail", "retry"}
TrainPc == {"idle", "gate", "review", "checks", "settle", "batch", "candidate",
            "post", "postchecks", "qa", "finish"}
Train == [pc : TrainPc, task : Task \union {None}, base : Nat, head : Nat, batch : Batch,
          todo : SUBSET Task, recovering : BOOLEAN, reserved : BOOLEAN]
Used == [starts : Nat, foreign : Nat, repairs : Nat]

-----------------------------------------------------------------------------
(* The least task of a set. *)

LEMMA FirstIsLeast ==
  ASSUME NEW S \in SUBSET Task, S # {}
  PROVE  First(S) \in S /\ \A u \in S : First(S) <= u
<1> DEFINE R == OpToRel(<, Nat)
<1>1. PICK x \in S : \A y \in S : ~(<<y, x>> \in R)
  BY NatLessThanWellFounded, WFMin, TaskAssumption
<1>2. ASSUME NEW y \in S
      PROVE  x <= y
  <2>1. x \in Nat /\ y \in Nat
    BY TaskAssumption
  <2>2. <<y, x>> \in Nat \X Nat /\ <<y, x>>[1] = y /\ <<y, x>>[2] = x
    BY <2>1
  <2>3. y < x => <<y, x>> \in R
    BY <2>2, Zenon DEF OpToRel
  <2>4. ~(y < x)
    BY <1>1, <2>3, Zenon
  <2> QED BY ONLY <2>1, <2>4
<1> QED BY <1>1, <1>2 DEF First

-----------------------------------------------------------------------------
(* Changes of the record of one task. *)

LEMMA RecordChanges ==
  ASSUME NEW r \in TaskRecord, NEW state \in State, NEW resume \in ResumeState, NEW n \in Nat,
         NEW e \in Evidence, NEW b \in BOOLEAN
  PROVE  /\ [r EXCEPT !.state = state] \in TaskRecord
         /\ [r EXCEPT !.resume = resume] \in TaskRecord
         /\ [r EXCEPT !.head = n] \in TaskRecord
         /\ [r EXCEPT !.races = n] \in TaskRecord
         /\ [r EXCEPT !.evidence = e] \in TaskRecord
         /\ [r EXCEPT !.recovery = b] \in TaskRecord
BY DEF TaskRecord

(* s2 is s with a change of the record of t alone. *)
Changes(s, s2, t) ==
  /\ s2 \in Snapshot
  /\ s2.held = s.held /\ s2.batch = s.batch
  /\ \A u \in Task \ {t} : s2.task[u] = s.task[u]

LEMMA SetFacts ==
  ASSUME NEW s \in Snapshot, NEW t \in Task, NEW r \in TaskRecord
  PROVE  Changes(s, Set(s, t, r), t) /\ Set(s, t, r).task[t] = r
BY DEF Changes, Set, Snapshot

LEMMA StagedFacts ==
  ASSUME NEW s \in Snapshot, NEW t \in Task, NEW state \in State
  PROVE  /\ Changes(s, Staged(s, t, state), t)
         /\ Staged(s, t, state).task[t] = [s.task[t] EXCEPT !.state = state]
<1>1. s.task[t] \in TaskRecord
  BY DEF Snapshot
<1>2. [s.task[t] EXCEPT !.state = state] \in TaskRecord
  BY <1>1 DEF TaskRecord
<1> QED BY <1>1, <1>2 DEF Staged, Snapshot, Changes

(* The record new differs from old in its state and where it resumes. *)
Restated(old, new, state, resume) ==
  /\ new.state = state /\ new.resume = resume
  /\ new.merge = old.merge /\ new.head = old.head /\ new.base = old.base
  /\ new.evidence = old.evidence /\ new.by = old.by /\ new.recovery = old.recovery

LEMMA BlockedFacts ==
  ASSUME NEW s \in Snapshot, NEW t \in Task, NEW resume \in ResumeState
  PROVE  /\ Changes(s, Blocked(s, t, resume), t)
         /\ Restated(s.task[t], Blocked(s, t, resume).task[t], "BLOCKED_HUMAN", resume)
<1>1. s.task[t] \in TaskRecord
  BY DEF Snapshot
<1> DEFINE r == [s.task[t] EXCEPT !.state = "BLOCKED_HUMAN", !.resume = resume]
<1>2. r \in TaskRecord
  BY <1>1 DEF TaskRecord, State
<1>3. Restated(s.task[t], r, "BLOCKED_HUMAN", resume)
  BY <1>1 DEF TaskRecord, Restated
<1>4. Changes(s, Blocked(s, t, resume), t) /\ Blocked(s, t, resume).task[t] = r
  BY <1>1, <1>2 DEF Blocked, Snapshot, Changes
<1> QED BY <1>3, <1>4

LEMMA InvalidatedFacts ==
  ASSUME NEW s \in Snapshot, NEW t \in Task
  PROVE  /\ Changes(s, Invalidated(s, t), t)
         /\ Invalidated(s, t).task[t] =
              [s.task[t] EXCEPT !.state = "SYNC_REQUIRED", !.evidence = NoEvidence]
<1>1. s.task[t] \in TaskRecord
  BY DEF Snapshot
<1>2. [s.task[t] EXCEPT !.state = "SYNC_REQUIRED", !.evidence = NoEvidence] \in TaskRecord
  BY <1>1 DEF TaskRecord, State, Evidence
<1> QED BY <1>1, <1>2 DEF Invalidated, Snapshot, Changes

(* Implement, Accept, Settle and the hold change one field more. *)
LEMMA HeadFacts ==
  ASSUME NEW s \in Snapshot, NEW t \in Task, NEW x \in Nat
  PROVE  /\ Changes(s, [s EXCEPT !.task[t].head = x], t)
         /\ [s EXCEPT !.task[t].head = x].task[t] = [s.task[t] EXCEPT !.head = x]
<1>1. s.task[t] \in TaskRecord
  BY DEF Snapshot
<1>2. [s.task[t] EXCEPT !.head = x] \in TaskRecord
  BY <1>1 DEF TaskRecord
<1> QED BY <1>2 DEF Snapshot, Changes

LEMMA RacesFacts ==
  ASSUME NEW s \in Snapshot, NEW t \in Task, NEW x \in Nat
  PROVE  /\ Changes(s, [s EXCEPT !.task[t].races = x], t)
         /\ [s EXCEPT !.task[t].races = x].task[t] = [s.task[t] EXCEPT !.races = x]
<1>1. s.task[t] \in TaskRecord
  BY DEF Snapshot
<1>2. [s.task[t] EXCEPT !.races = x] \in TaskRecord
  BY <1>1 DEF TaskRecord
<1> QED BY <1>2 DEF Snapshot, Changes

LEMMA EvidenceFacts ==
  ASSUME NEW s \in Snapshot, NEW t \in Task, NEW x \in Evidence
  PROVE  /\ Changes(s, [s EXCEPT !.task[t].evidence = x], t)
         /\ [s EXCEPT !.task[t].evidence = x].task[t] = [s.task[t] EXCEPT !.evidence = x]
<1>1. s.task[t] \in TaskRecord
  BY DEF Snapshot
<1>2. [s.task[t] EXCEPT !.evidence = x] \in TaskRecord
  BY <1>1 DEF TaskRecord
<1> QED BY <1>2 DEF Snapshot, Changes

LEMMA RecoveryFacts ==
  ASSUME NEW s \in Snapshot, NEW t \in Task, NEW x \in BOOLEAN
  PROVE  /\ Changes(s, [s EXCEPT !.task[t].recovery = x], t)
         /\ [s EXCEPT !.task[t].recovery = x].task[t] = [s.task[t] EXCEPT !.recovery = x]
<1>1. s.task[t] \in TaskRecord
  BY DEF Snapshot
<1>2. [s.task[t] EXCEPT !.recovery = x] \in TaskRecord
  BY <1>1 DEF TaskRecord
<1> QED BY <1>2 DEF Snapshot, Changes


(* The record of t after it went back to preparation or to the operator. *)
WentBack(old, new) ==
  /\ new.state \in {"FIX", "SYNC_REQUIRED", "BLOCKED_HUMAN"}
  /\ new.state = "BLOCKED_HUMAN" => new.resume \in {"FIX", "SYNC_REQUIRED"}
  /\ new.merge = old.merge /\ new.head \in {old.head, old.head + 1}
SentBack(s, s2, t) == Changes(s, s2, t) /\ WentBack(s.task[t], s2.task[t])

(* The record of a landed task that stays landed. *)
StaysLanded(old, new) ==
  /\ new.state \in {"DONE", "BLOCKED_HUMAN"}
  /\ new.state = "BLOCKED_HUMAN" => new.resume = "POST_VERIFY"
  /\ new.merge = old.merge /\ new.head = old.head

LEMMA Back ==
  ASSUME NEW s \in Snapshot, NEW t \in Task, NEW state \in {"FIX", "SYNC_REQUIRED"}
  PROVE  /\ SentBack(s, Staged(s, t, state), t)
         /\ SentBack(s, Blocked(s, t, state), t)
         /\ SentBack(s, Invalidated(s, t), t)
<1>1. s.task[t] \in TaskRecord /\ state \in State /\ state \in ResumeState
  BY DEF Snapshot, State, ResumeState
<1>2. SentBack(s, Staged(s, t, state), t)
  <2>1. /\ Changes(s, Staged(s, t, state), t)
        /\ Staged(s, t, state).task[t] = [s.task[t] EXCEPT !.state = state]
    BY <1>1, StagedFacts
  <2>2. WentBack(s.task[t], Staged(s, t, state).task[t])
    BY <1>1, <2>1 DEF WentBack, TaskRecord
  <2> QED BY <2>1, <2>2 DEF SentBack
<1>3. SentBack(s, Blocked(s, t, state), t)
  <2>1. /\ Changes(s, Blocked(s, t, state), t)
        /\ Restated(s.task[t], Blocked(s, t, state).task[t], "BLOCKED_HUMAN", state)
    BY <1>1, BlockedFacts
  <2> QED BY <2>1 DEF SentBack, WentBack, Restated
<1>4. SentBack(s, Invalidated(s, t), t)
  <2>1. /\ Changes(s, Invalidated(s, t), t)
        /\ Invalidated(s, t).task[t] = [s.task[t] EXCEPT !.state = "SYNC_REQUIRED", !.evidence = NoEvidence]
    BY <1>1, InvalidatedFacts
  <2>2. WentBack(s.task[t], Invalidated(s, t).task[t])
    BY <1>1, <2>1 DEF WentBack, TaskRecord
  <2> QED BY <2>1, <2>2 DEF SentBack
<1> QED BY <1>2, <1>3, <1>4

LEMMA FailuresBack ==
  ASSUME NEW s \in Snapshot, NEW t \in Task, NEW s2 \in Failures(s, t) \union Retries(s, t)
  PROVE  SentBack(s, s2, t)
BY Back DEF Failures, Retries

(* Settle counts the race. *)
LEMMA RacedBack ==
  ASSUME NEW s \in Snapshot, NEW t \in Task, NEW n \in Nat
  PROVE  LET raced == [s EXCEPT !.task[t].races = n]
         IN /\ raced \in Snapshot /\ raced.task[t].races = n
            /\ SentBack(s, Blocked(raced, t, "SYNC_REQUIRED"), t)
            /\ SentBack(s, Invalidated(raced, t), t)
<1> DEFINE raced == [s EXCEPT !.task[t].races = n]
<1>1. s.task[t] \in TaskRecord
  BY DEF Snapshot
<1>2. Changes(s, raced, t) /\ raced.task[t] = [s.task[t] EXCEPT !.races = n]
  BY RacesFacts
<1>3. /\ raced.task[t].races = n
      /\ raced.task[t].merge = s.task[t].merge /\ raced.task[t].head = s.task[t].head
  BY <1>1, <1>2 DEF TaskRecord
<1>4. raced \in Snapshot
  BY <1>2 DEF Changes
<1> HIDE DEF raced
<1>5. SentBack(raced, Blocked(raced, t, "SYNC_REQUIRED"), t) /\ SentBack(raced, Invalidated(raced, t), t)
  BY <1>4, Back
<1>6. SentBack(s, Blocked(raced, t, "SYNC_REQUIRED"), t) /\ SentBack(s, Invalidated(raced, t), t)
  BY <1>2, <1>3, <1>5 DEF SentBack, Changes, WentBack
<1> QED BY <1>3, <1>4, <1>6 DEF raced

LEMMA ImplementedBack ==
  ASSUME NEW s \in Snapshot, NEW t \in Task
  PROVE  LET s2 == [Staged(s, t, "SYNC_REQUIRED") EXCEPT !.task[t].head = s.task[t].head + 1]
         IN SentBack(s, s2, t) /\ s2.task[t].state = "SYNC_REQUIRED"
<1> DEFINE r == Staged(s, t, "SYNC_REQUIRED")
<1>1. s.task[t] \in TaskRecord /\ s.task[t].head \in Nat /\ s.task[t].head + 1 \in Nat
  BY DEF Snapshot, TaskRecord
<1>2. Changes(s, r, t) /\ r.task[t] = [s.task[t] EXCEPT !.state = "SYNC_REQUIRED"]
  BY StagedFacts DEF State
<1>3. r \in Snapshot
  BY <1>2 DEF Changes
<1> HIDE DEF r
<1> DEFINE r2 == [r EXCEPT !.task[t].head = s.task[t].head + 1]
<1>4. Changes(r, r2, t) /\ r2.task[t] = [r.task[t] EXCEPT !.head = s.task[t].head + 1]
  BY <1>1, <1>3, HeadFacts
<1> HIDE DEF r2
<1>5. WentBack(s.task[t], r2.task[t]) /\ r2.task[t].state = "SYNC_REQUIRED"
  BY <1>1, <1>2, <1>4 DEF WentBack, TaskRecord
<1>6. SentBack(s, r2, t)
  BY <1>2, <1>4, <1>5 DEF SentBack, Changes
<1> QED BY <1>5, <1>6 DEF r2, r

LEMMA StagedRestates ==
  ASSUME NEW s \in Snapshot, NEW t \in Task, NEW state \in State
  PROVE  Restated(s.task[t], Staged(s, t, state).task[t], state, s.task[t].resume)
<1>1. s.task[t] \in TaskRecord
  BY DEF Snapshot
<1>2. Staged(s, t, state).task[t] = [s.task[t] EXCEPT !.state = state]
  BY StagedFacts
<1> QED BY <1>1, <1>2 DEF TaskRecord, Restated

(* Synchronize: a task that was merged with a newer main has a new head. *)
LEMMA SynchronizedBack ==
  ASSUME NEW s \in Snapshot, NEW t \in Task, NEW v \in Nat, NEW e \in Evidence,
         NEW n \in {s.task[t].head, s.task[t].head + 1}
  PROVE  SentBack(s, Set(s, t, [s.task[t] EXCEPT !.state = "SYNC_REQUIRED", !.base = v,
                                                 !.head = n, !.evidence = e]), t)
<1> DEFINE old == s.task[t]
           new == [old EXCEPT !.state = "SYNC_REQUIRED", !.base = v, !.head = n, !.evidence = e]
<1>1. old \in TaskRecord /\ n \in Nat /\ n \in {old.head, old.head + 1}
  BY DEF Snapshot, TaskRecord
<1> HIDE DEF old
<1>2. new \in TaskRecord
  BY <1>1 DEF TaskRecord, State
<1>3. WentBack(old, new)
  BY <1>1 DEF TaskRecord, WentBack
<1> HIDE DEF new
<1>4. Changes(s, Set(s, t, new), t) /\ Set(s, t, new).task[t] = new
  BY <1>2, SetFacts
<1>5. SentBack(s, Set(s, t, new), t)
  BY <1>3, <1>4 DEF SentBack, old
<1> QED BY <1>5 DEF new, old

LEMMA AcceptedFacts ==
  ASSUME NEW s \in Snapshot, NEW t \in Task
  PROVE  LET s2 == [Staged(s, t, "MERGE_READY") EXCEPT !.task[t].evidence =
                      [base |-> s.task[t].base, head |-> s.task[t].head]]
         IN /\ Changes(s, s2, t) /\ Reviewed(s2, t)
            /\ s2.task[t].state = "MERGE_READY"
            /\ s2.task[t].merge = s.task[t].merge /\ s2.task[t].head = s.task[t].head
<1> DEFINE r == Staged(s, t, "MERGE_READY")
           e == [base |-> s.task[t].base, head |-> s.task[t].head]
<1>1. s.task[t] \in TaskRecord /\ e \in Evidence
  BY DEF Snapshot, TaskRecord, Evidence
<1>2. Changes(s, r, t) /\ Restated(s.task[t], r.task[t], "MERGE_READY", s.task[t].resume)
  BY StagedFacts, StagedRestates DEF State
<1>3. r \in Snapshot /\ r.task[t] \in TaskRecord
  BY <1>2 DEF Changes, Snapshot
<1> HIDE DEF r
<1> HIDE DEF e
<1> DEFINE s2 == [r EXCEPT !.task[t].evidence = e]
<1>4. Changes(r, s2, t) /\ s2.task[t] = [r.task[t] EXCEPT !.evidence = e]
  BY <1>1, <1>3, EvidenceFacts
<1> HIDE DEF s2
<1>5. /\ s2.task[t].state = "MERGE_READY" /\ s2.task[t].evidence = e
      /\ s2.task[t].merge = s.task[t].merge /\ s2.task[t].head = s.task[t].head
      /\ s2.task[t].base = s.task[t].base
  BY <1>2, <1>3, <1>4 DEF TaskRecord, Restated
<1>6. Changes(s, s2, t) /\ Reviewed(s2, t)
  BY <1>2, <1>4, <1>5 DEF Changes, Reviewed, e
<1> QED BY <1>5, <1>6 DEF s2, r, e

(* s2 is s but for the hold, now h, and the record of t, which stays landed. *)
Rehold(s, s2, t, state, h) ==
  /\ s2 \in Snapshot /\ s2.held = h /\ s2.batch = s.batch
  /\ \A u \in Task \ {t} : s2.task[u] = s.task[u]
  /\ StaysLanded(s.task[t], s2.task[t]) /\ s2.task[t].state = state

WithHold(b, t, x, h) == [b EXCEPT !.task[t].recovery = x, !.held = h]

LEMMA RecoveryHeld ==
  ASSUME NEW b \in Snapshot, NEW t \in Task, NEW x \in BOOLEAN, NEW h \in Task \union {None}
  PROVE  LET s2 == WithHold(b, t, x, h)
         IN /\ s2 \in Snapshot /\ s2.held = h /\ s2.batch = b.batch
            /\ \A u \in Task \ {t} : s2.task[u] = b.task[u]
            /\ s2.task[t].state = b.task[t].state /\ s2.task[t].resume = b.task[t].resume
            /\ s2.task[t].merge = b.task[t].merge /\ s2.task[t].head = b.task[t].head
<1> DEFINE c == [b EXCEPT !.task[t].recovery = x]
<1>1. b.task[t] \in TaskRecord
  BY DEF Snapshot
<1>2. Changes(b, c, t) /\ c.task[t] = [b.task[t] EXCEPT !.recovery = x]
  BY RecoveryFacts
<1>3. WithHold(b, t, x, h) = [c EXCEPT !.held = h]
  BY DEF Snapshot, WithHold
<1> HIDE DEF c
<1>4. /\ [c EXCEPT !.held = h] \in Snapshot
      /\ [c EXCEPT !.held = h].task = c.task /\ [c EXCEPT !.held = h].batch = c.batch
      /\ [c EXCEPT !.held = h].held = h
  BY <1>2 DEF Changes, Snapshot
<1>5. /\ c.task[t].state = b.task[t].state /\ c.task[t].resume = b.task[t].resume
      /\ c.task[t].merge = b.task[t].merge /\ c.task[t].head = b.task[t].head
  BY <1>1, <1>2 DEF TaskRecord
<1> QED BY <1>2, <1>3, <1>4, <1>5 DEF Changes

(* postVerify: the hold of a main that failed its checks, and its end. *)
LEMMA BlockedHeld ==
  ASSUME NEW s \in Snapshot, NEW t \in Task, NEW h \in Task \union {None}
  PROVE  /\ Rehold(s, Blocked(s, t, "POST_VERIFY"), t, "BLOCKED_HUMAN", s.held)
         /\ Rehold(s, [Blocked(s, t, "POST_VERIFY") EXCEPT !.task[t].recovery = TRUE, !.held = h],
                   t, "BLOCKED_HUMAN", h)
<1> DEFINE b == Blocked(s, t, "POST_VERIFY")
<1>1. Changes(s, b, t) /\ Restated(s.task[t], b.task[t], "BLOCKED_HUMAN", "POST_VERIFY")
  BY BlockedFacts DEF ResumeState
<1>2. Rehold(s, b, t, "BLOCKED_HUMAN", s.held)
  BY <1>1 DEF Changes, Restated, Rehold, StaysLanded
<1> HIDE DEF b
<1> DEFINE s2 == WithHold(b, t, TRUE, h)
<1>3. /\ s2 \in Snapshot /\ s2.held = h /\ s2.batch = b.batch
      /\ \A u \in Task \ {t} : s2.task[u] = b.task[u]
      /\ s2.task[t].state = b.task[t].state /\ s2.task[t].resume = b.task[t].resume
      /\ s2.task[t].merge = b.task[t].merge /\ s2.task[t].head = b.task[t].head
  BY <1>2, RecoveryHeld DEF Rehold
<1> HIDE DEF s2
<1>4. Rehold(s, s2, t, "BLOCKED_HUMAN", h)
  BY <1>1, <1>3 DEF Changes, Restated, Rehold, StaysLanded
<1> QED BY <1>2, <1>4 DEF s2, b, WithHold

LEMMA FinishedFacts ==
  ASSUME NEW s \in Snapshot, NEW t \in Task
  PROVE  Rehold(s, Finished(s, t), t, "DONE", IF s.held = t THEN None ELSE s.held)
<1> DEFINE b == Staged(s, t, "DONE")
           h == IF s.held = t THEN None ELSE s.held
<1>1. Changes(s, b, t) /\ Restated(s.task[t], b.task[t], "DONE", s.task[t].resume)
  BY StagedFacts, StagedRestates DEF State
<1>2. h \in Task \union {None} /\ b \in Snapshot
  BY <1>1 DEF Snapshot, Changes
<1>3. Finished(s, t) = [b EXCEPT !.task[t].recovery = FALSE, !.held = h]
  BY DEF Finished
<1> HIDE DEF b, h
<1> DEFINE s2 == WithHold(b, t, FALSE, h)
<1>4. /\ s2 \in Snapshot /\ s2.held = h /\ s2.batch = b.batch
      /\ \A u \in Task \ {t} : s2.task[u] = b.task[u]
      /\ s2.task[t].state = b.task[t].state /\ s2.task[t].resume = b.task[t].resume
      /\ s2.task[t].merge = b.task[t].merge /\ s2.task[t].head = b.task[t].head
  BY <1>2, RecoveryHeld
<1> HIDE DEF s2
<1>5. Rehold(s, s2, t, "DONE", h)
  BY <1>1, <1>4 DEF Changes, Restated, Rehold, StaysLanded
<1>6. Rehold(s, Finished(s, t), t, "DONE", h)
  BY <1>3, <1>5 DEF s2, WithHold
<1> QED BY <1>6 DEF h

-----------------------------------------------------------------------------
(* Changes of the records of several tasks. *)

LEMMA RecoveredFacts ==
  ASSUME NEW s \in Snapshot
  PROVE  /\ Recovered(s) \in Snapshot /\ Recovered(s).held = s.held /\ Recovered(s).batch = s.batch
         /\ \A t \in Task :
              Recovered(s).task[t] =
                IF s.task[t].state = "MERGE_TRAIN"
                THEN [s.task[t] EXCEPT !.state = "SYNC_REQUIRED"] ELSE s.task[t]
<1> DEFINE r(t) == [s.task[t] EXCEPT !.state =
                      IF s.task[t].state = "MERGE_TRAIN" THEN "SYNC_REQUIRED" ELSE @]
<1>1. ASSUME NEW t \in Task
      PROVE  /\ r(t) \in TaskRecord
             /\ r(t) = IF s.task[t].state = "MERGE_TRAIN"
                       THEN [s.task[t] EXCEPT !.state = "SYNC_REQUIRED"] ELSE s.task[t]
  <2>1. s.task[t] \in TaskRecord
    BY DEF Snapshot
  <2> QED BY <2>1 DEF TaskRecord, State
<1>2. Recovered(s) = [s EXCEPT !.task = [t \in Task |-> r(t)]]
  BY DEF Recovered
<1> HIDE DEF r
<1>3. [t \in Task |-> r(t)] \in [Task -> TaskRecord]
  BY <1>1
<1>4. /\ Recovered(s) \in Snapshot /\ Recovered(s).held = s.held /\ Recovered(s).batch = s.batch
      /\ Recovered(s).task = [t \in Task |-> r(t)]
  BY <1>2, <1>3 DEF Snapshot
<1> QED BY <1>1, <1>4

(* The tasks of a group after their merge at version v. *)
Merged(old, new, v) ==
  /\ new.state = "POST_VERIFY" /\ new.head = old.head + 1 /\ new.merge = v
  /\ new.resume = old.resume

LEMMA IntegratedFacts ==
  ASSUME NEW s \in Snapshot, main \in Main, used \in Used, NEW group \in SUBSET Task
  PROVE  /\ Integrated(s, group) \in Snapshot
         /\ Integrated(s, group).held = s.held /\ Integrated(s, group).batch = s.batch
         /\ \A t \in Task \ group : Integrated(s, group).task[t] = s.task[t]
         /\ \A t \in group : Merged(s.task[t], Integrated(s, group).task[t], main.version + 1)
<1> DEFINE r(t) == [s.task[t] EXCEPT !.state = "POST_VERIFY", !.head = s.task[t].head + 1,
                                     !.merge = main.version + 1, !.by = used.starts]
           f == [t \in Task |-> IF t \notin group THEN s.task[t] ELSE r(t)]
<1>1. ASSUME NEW t \in Task
      PROVE  s.task[t] \in TaskRecord /\ r(t) \in TaskRecord /\ Merged(s.task[t], r(t), main.version + 1)
  <2>1. s.task[t] \in TaskRecord
    BY DEF Snapshot
  <2>2. main.version + 1 \in Nat /\ used.starts \in Nat /\ s.task[t].head + 1 \in Nat
    BY <2>1 DEF Main, Used, TaskRecord
  <2> QED BY <2>1, <2>2 DEF TaskRecord, State, Merged
<1>2. Integrated(s, group) = [s EXCEPT !.task = f]
  BY DEF Integrated
<1> HIDE DEF r
<1>3. f \in [Task -> TaskRecord]
  BY <1>1
<1>4. \A t \in Task : f[t] = IF t \notin group THEN s.task[t] ELSE r(t)
  OBVIOUS
<1> HIDE DEF f
<1>5. /\ Integrated(s, group) \in Snapshot
      /\ Integrated(s, group).held = s.held /\ Integrated(s, group).batch = s.batch
      /\ Integrated(s, group).task = f
  BY <1>2, <1>3 DEF Snapshot
<1> QED BY <1>1, <1>4, <1>5

-----------------------------------------------------------------------------
(* Types. *)

TrainOK(r) ==
  /\ r \in Train
  /\ r.pc \notin {"idle", "batch", "candidate"} => r.task \in Task
  /\ r.pc \in {"batch", "candidate"} => r.batch # NoBatch
  /\ r.pc = "candidate" => Members(r.batch) # {}

(* Types, and no snapshot is published that the next start would refuse. *)
Types ==
  /\ snap \in Snapshot /\ Decodes(snap)
  /\ main \in Main /\ draft \subseteq Task
  /\ mode \in {"down", "up", "failed"}
  /\ sched \in Batch
  /\ worker \in [Task -> Worker]
  /\ TrainOK(train)
  /\ health \in {"good", "bad"}
  /\ used \in Used

LEMMA IdleOK == TrainOK(Idle)
BY DEF TrainOK, Idle, Train, TrainPc, Batch

LEMMA ValidHasMembers ==
  ASSUME NEW s, NEW batch, Valid(s, batch)
  PROVE  Members(batch) # {}
BY FS_EmptySet DEF Valid

LEMMA TypesInit == Init => Types
<1> SUFFICES ASSUME Init PROVE Types
  OBVIOUS
<1>1. snap \in Snapshot /\ snap.batch = NoBatch
  BY DEF Init, Snapshot, TaskRecord, State, Evidence, ResumeState, Batch
<1>2. /\ main \in Main /\ draft \subseteq Task /\ used \in Used
      /\ sched \in Batch /\ worker \in [Task -> Worker]
  BY DEF Init, Main, Used, Worker, Batch
<1> QED BY <1>1, <1>2, IdleOK DEF Init, Types, Decodes

LEMMA DecodesNext ==
  ASSUME NEW s, Decodes(s), snap' = s
  PROVE  Decodes(snap)'
BY DEF Decodes, Valid, Members, Eligible, Reviewed

LEMMA TrainOKNext ==
  ASSUME NEW r, TrainOK(r), train' = r
  PROVE  TrainOK(train)'
BY DEF TrainOK, Members

LEMMA HaltTypes ==
  ASSUME Types, NEW how \in {"down", "failed"}, Halt(how)
  PROVE  /\ mode' \in {"down", "up", "failed"} /\ sched' \in Batch
         /\ worker' \in [Task -> Worker] /\ TrainOK(train')
BY IdleOK DEF Types, Halt, Batch, Worker

LEMMA MutateTypes ==
  ASSUME Types, NEW s \in Snapshot, NEW w \in [Task -> Worker], NEW r, TrainOK(r),
         NEW b \in Batch, Mutate(s, w, r, b),
         main' \in Main, draft' \subseteq Task, health' \in {"good", "bad"}, used' \in Used
  PROVE  Types'
<1>1. CASE Decodes(s) /\ snap' = s /\ worker' = w /\ train' = r /\ sched' = b /\ UNCHANGED mode
  BY <1>1 DEF Types, Decodes, TrainOK
<1>2. CASE ~Decodes(s) /\ Halt("failed") /\ UNCHANGED snap
  <2>1. Decodes(snap)'
    BY <1>2 DEF Types, Decodes, Valid, Members, Eligible, Reviewed
  <2> QED BY <1>2, <2>1, HaltTypes DEF Types
<1> QED BY <1>1, <1>2 DEF Mutate

LEMMA WorkerTypes ==
  ASSUME Types, NEW t \in Task, NEW pc \in Worker, NEW s \in Snapshot, MutateInWorker(s, t, pc),
         UNCHANGED <<main, health, used>>, draft' \subseteq Task
  PROVE  Types'
<1>1. [worker EXCEPT ![t] = pc] \in [Task -> Worker]
  BY DEF Types
<1>2. TrainOK(train) /\ sched \in Batch
  BY DEF Types
<1>3. main' \in Main /\ health' \in {"good", "bad"} /\ used' \in Used
  BY DEF Types
<1> QED BY <1>1, <1>2, <1>3, MutateTypes DEF MutateInWorker

LEMMA SentBackIsSnapshot ==
  ASSUME NEW s, NEW s2, NEW t, SentBack(s, s2, t)
  PROVE  s2 \in Snapshot
BY DEF SentBack, Changes

(* What Synchronize publishes. *)
LEMMA SynchronizeBack ==
  ASSUME Types, NEW t \in Task, Synchronize(t)
  PROVE  /\ worker[t] = "verify"
         /\ \E s \in Snapshot : SentBack(snap, s, t) /\ s.task[t].state = "SYNC_REQUIRED"
                                /\ MutateInWorker(s, t, "review")
<1> DEFINE old == snap.task[t]
           moved == old.base # main.version
           n == IF moved THEN old.head + 1 ELSE old.head
           e == IF moved \/ ~Reviewed(snap, t) THEN NoEvidence ELSE old.evidence
           v == main.version
           r == [old EXCEPT !.state = "SYNC_REQUIRED", !.base = v, !.head = n, !.evidence = e]
           s == Set(snap, t, r)
<1>1. snap \in Snapshot /\ old \in TaskRecord /\ v \in Nat
  BY DEF Types, Snapshot, Main
<1>2. worker[t] = "verify" /\ MutateInWorker(s, t, "review")
  BY DEF Synchronize
<1>3. n \in {old.head, old.head + 1} /\ e \in Evidence
  BY <1>1 DEF TaskRecord, Evidence
<1> HIDE DEF n, e, v
<1>4. SentBack(snap, s, t)
  BY <1>1, <1>3, SynchronizedBack
<1>n. n \in Nat
  BY <1>1, <1>3 DEF TaskRecord
<1> HIDE DEF old
<1>5. r \in TaskRecord /\ r.state = "SYNC_REQUIRED"
  BY <1>1, <1>3, <1>n DEF TaskRecord, State
<1> HIDE DEF r
<1>6. s \in Snapshot /\ s.task[t] = r
  BY <1>1, <1>5, SetFacts DEF Changes
<1> HIDE DEF s
<1> QED BY <1>2, <1>4, <1>5, <1>6

LEMMA WorkingTypes ==
  ASSUME Types, NEW t \in Task, Working(t)
  PROVE  Types'
<1>0. snap \in Snapshot /\ snap.task[t] \in TaskRecord /\ draft \subseteq Task
  BY DEF Types, Snapshot
<1>1. CASE Implement(t)
  <2>1. [Staged(snap, t, "SYNC_REQUIRED") EXCEPT !.task[t].head = snap.task[t].head + 1] \in Snapshot
    BY <1>0, ImplementedBack, SentBackIsSnapshot
  <2> QED BY <1>0, <1>1, <2>1, WorkerTypes DEF Implement, Worker
<1>2. CASE Synchronize(t)
  <2>1. PICK s \in Snapshot : MutateInWorker(s, t, "review")
    BY <1>2, SynchronizeBack
  <2> QED BY <1>0, <1>2, <2>1, WorkerTypes DEF Synchronize, Worker
<1>3. CASE Accept(t)
  <2>1. [Staged(snap, t, "MERGE_READY") EXCEPT !.task[t].evidence =
           [base |-> snap.task[t].base, head |-> snap.task[t].head]] \in Snapshot
    BY <1>0, AcceptedFacts DEF Changes
  <2> QED BY <1>0, <1>3, <2>1, WorkerTypes DEF Accept, Worker
<1>4. CASE Reject(t) \/ Retry(t)
  <2>1. PICK s \in Failures(snap, t) \union Retries(snap, t) : MutateInWorker(s, t, "none")
    BY <1>4 DEF Reject, Retry
  <2>2. s \in Snapshot
    BY <1>0, FailuresBack, SentBackIsSnapshot
  <2>3. UNCHANGED <<main, draft, health, used>>
    BY <1>4 DEF Reject, Retry
  <2> QED BY <1>0, <2>1, <2>2, <2>3, WorkerTypes DEF Worker
<1>5. CASE MarkReady(t) \/ UpdateReturns(t)
  <2>1. /\ UNCHANGED <<snap, main, mode, sched, train, health, used>>
        /\ draft' \subseteq Task
        /\ worker' \in [Task -> Worker]
    BY <1>0, <1>5 DEF MarkReady, UpdateReturns, Types, Worker
  <2> QED BY <2>1 DEF Types, TrainOK, Decodes, Valid, Members, Eligible, Reviewed
<1> QED BY <1>1, <1>2, <1>3, <1>4, <1>5 DEF Working

-----------------------------------------------------------------------------
(* The scheduler and the process. *)

LEMMA SelectionIsBatch ==
  ASSUME Types PROVE Selection(snap) \in Batch
<1> DEFINE groups == IF Groups(snap, 3) # {} THEN Groups(snap, 3) ELSE Groups(snap, 2)
           chosen == CHOOSE g \in groups : \A h \in groups : Precedes(g, h)
           heads == [t \in Task |-> IF t \in chosen THEN snap.task[t].head ELSE 0]
<1>1. Selection(snap) = IF groups = {} THEN NoBatch ELSE [base |-> main.version, heads |-> heads]
  BY DEF Selection
<1> HIDE DEF chosen, groups
<1>2. heads \in [Task -> Nat] /\ main.version \in Nat
  BY DEF Types, Snapshot, TaskRecord, Main
<1> HIDE DEF heads
<1> QED BY <1>1, <1>2 DEF Batch

LEMMA ProcessTypes ==
  ASSUME Types, Start \/ Crash \/ ForeignPush
  PROVE  Types'
<1>1. CASE Start
  <2>1. used' \in Used
    BY <1>1 DEF Start, Types, Used
  <2>2. Recovered(snap) \in Snapshot
    BY RecoveredFacts DEF Types
  <2>3. PICK s \in Snapshot : snap' = s /\ Decodes(s)
    BY <1>1, <2>2 DEF Start, Types
  <2>4. Decodes(snap)' /\ TrainOK(train)'
    BY <1>1, <2>3, DecodesNext, TrainOKNext DEF Start, Types
  <2> QED BY <1>1, <2>1, <2>3, <2>4 DEF Start, Types
<1>2. CASE Crash
  <2>1. Decodes(snap)'
    BY <1>2 DEF Crash, Types, Decodes, Valid, Members, Eligible, Reviewed
  <2> QED BY <1>2, <2>1, HaltTypes DEF Crash, Types
<1>3. CASE ForeignPush
  <2>1. used' \in Used /\ main' \in Main
    BY <1>3 DEF ForeignPush, Types, Used, Main
  <2>2. Decodes(snap)' /\ TrainOK(train)'
    BY <1>3 DEF ForeignPush, Types, TrainOK, Decodes, Valid, Members, Eligible, Reviewed
  <2> QED BY <1>3, <2>1, <2>2 DEF ForeignPush, Types
<1> QED BY <1>1, <1>2, <1>3

(* What the merge goroutine does next in pc keeps its record. *)
LEMMA TrainMoves ==
  ASSUME NEW r, TrainOK(r), NEW pc \in TrainPc, NEW t \in Task, NEW n \in Nat, NEW m \in Nat,
         NEW b \in BOOLEAN
  PROVE  /\ r.task \in Task /\ pc # "batch" /\ pc # "candidate" => TrainOK([r EXCEPT !.pc = pc])
         /\ pc # "batch" /\ pc # "candidate" => TrainOK([Idle EXCEPT !.pc = pc, !.task = t])
         /\ pc # "batch" /\ pc # "candidate" => TrainOK([Idle EXCEPT !.pc = pc, !.task = t, !.reserved = b])
         /\ r.task \in Task /\ pc # "batch" /\ pc # "candidate" =>
              /\ TrainOK([r EXCEPT !.pc = pc, !.base = n, !.head = m])
              /\ TrainOK([r EXCEPT !.pc = pc, !.recovering = b, !.base = n])
BY IdleOK DEF TrainOK, Train, TrainPc, Idle

LEMMA BatchTrainOK ==
  ASSUME NEW batch \in Batch, batch # NoBatch
  PROVE  TrainOK(BatchTrain(batch))
BY DEF BatchTrain, TrainOK, Train, TrainPc, Idle

LEMMA SchedulerTypes ==
  ASSUME Types, MergeTick \/ ReserveBatch \/ \E t \in Task : Launch(t) \/ Answer(t)
  PROVE  Types'
<1>0. snap \in Snapshot /\ TrainOK(train) /\ sched \in Batch
  BY DEF Types
<1>1. CASE SelectBatch
  <2>1. CASE /\ snap.batch = NoBatch /\ Selection(snap) # NoBatch /\ sched' = Selection(snap)
             /\ UNCHANGED <<snap, mode, worker, train>>
    <3>1. sched' \in Batch
      BY <2>1, SelectionIsBatch
    <3>2. Decodes(snap)' /\ TrainOK(train)'
      BY <2>1, DecodesNext, TrainOKNext DEF Types
    <3> QED BY <1>1, <2>1, <3>1, <3>2 DEF SelectBatch, Types
  <2>2. CASE /\ snap.batch # NoBatch /\ train' = BatchTrain(snap.batch)
             /\ UNCHANGED <<snap, mode, worker, sched>>
    <3>1. TrainOK(BatchTrain(snap.batch))
      BY <1>0, <2>2, BatchTrainOK DEF Snapshot
    <3>2. Decodes(snap)' /\ TrainOK(train)'
      BY <2>2, <3>1, DecodesNext, TrainOKNext DEF Types
    <3> QED BY <1>1, <2>2, <3>2 DEF SelectBatch, Types
  <2>3. CASE MutateInTrain([snap EXCEPT !.batch = NoBatch], Idle)
    <3>1. [snap EXCEPT !.batch = NoBatch] \in Snapshot
      BY <1>0 DEF Snapshot, Batch
    <3> QED BY <1>1, <2>3, <3>1, IdleOK, MutateTypes DEF MutateInTrain, SelectBatch, Types
  <2> QED BY <1>1, <2>1, <2>2, <2>3 DEF SelectBatch
<1>2. CASE ReserveBatch
  <2>1. [snap EXCEPT !.batch = sched] \in Snapshot
    BY <1>0 DEF Snapshot
  <2>2. TrainOK(BatchTrain(sched)) /\ NoBatch \in Batch
    BY <1>0, <1>2, BatchTrainOK DEF ReserveBatch, Batch
  <2> QED BY <1>2, <2>1, <2>2, MutateTypes DEF ReserveBatch, Types
<1>3. CASE LaunchHeld
  <2>1. snap.held \in Task
    BY <1>0, <1>3 DEF LaunchHeld, Snapshot
  <2>2. TrainOK(SerialTrain(snap.held, FALSE))
    BY <2>1 DEF SerialTrain, TrainOK, Train, TrainPc, Idle, Batch
  <2>3. Decodes(snap)' /\ TrainOK(train)'
    BY <1>3, <2>2, DecodesNext, TrainOKNext DEF LaunchHeld, Types
  <2> QED BY <1>3, <2>3 DEF LaunchHeld, Types
<1>4. ASSUME NEW t \in Task, LaunchSerial(t)
      PROVE  Types'
  <2>1. TrainOK(SerialTrain(t, TRUE))
    BY DEF SerialTrain, TrainOK, Train, TrainPc, Idle, Batch
  <2>2. Decodes(snap)' /\ TrainOK(train)'
    BY <1>4, <2>1, DecodesNext, TrainOKNext DEF LaunchSerial, Types
  <2> QED BY <1>4, <2>2 DEF LaunchSerial, Types
<1>5. ASSUME NEW t \in Task, Launch(t)
      PROVE  Types'
  <2>1. used' \in Used /\ worker' \in [Task -> Worker]
    BY <1>5 DEF Launch, Types, Used, Worker
  <2>2. Decodes(snap)' /\ TrainOK(train)'
    BY <1>5, DecodesNext, TrainOKNext DEF Launch, Types
  <2> QED BY <1>5, <2>1, <2>2 DEF Launch, Types
<1>6. ASSUME NEW t \in Task, Answer(t)
      PROVE  Types'
  <2>1. used' \in Used
    BY <1>6 DEF Answer, Types, Used
  <2>2. snap.task[t].resume \in State
    BY <1>0 DEF Snapshot, TaskRecord, ResumeState, State
  <2>3. Staged(snap, t, snap.task[t].resume) \in Snapshot /\ NoBatch \in Batch
    BY <1>0, <2>2, StagedFacts DEF Changes, Batch
  <2> QED BY <1>0, <1>6, <2>1, <2>3, MutateTypes DEF Answer, Types
<1> QED BY <1>1, <1>2, <1>3, <1>4, <1>5, <1>6 DEF MergeTick

-----------------------------------------------------------------------------
(* The merge goroutine. *)

LEMMA TrainTypes ==
  ASSUME Types, NEW s \in Snapshot, NEW r, TrainOK(r), MutateInTrain(s, r),
         main' \in Main, draft' \subseteq Task, health' \in {"good", "bad"}, UNCHANGED used
  PROVE  Types'
<1>1. worker \in [Task -> Worker] /\ sched \in Batch /\ used' \in Used
  BY DEF Types
<1> QED BY <1>1, MutateTypes DEF MutateInTrain

LEMMA ReportedTypes ==
  ASSUME Types, NEW group \in SUBSET Task, NEW saved \in BOOLEAN, Reported(group, saved)
  PROVE  main' \in Main /\ used' \in Used
<1>1. main \in Main /\ used \in Used
  BY DEF Types
<1>2. Counted(main.landed, group) \in [Task -> Nat] /\ Counted(main.missed, group) \in [Task -> Nat]
  BY <1>1 DEF Counted, Main
<1>3. main' \in Main
  BY <1>1, <1>2 DEF Reported, Main
<1>4. used' \in Used
  BY <1>1 DEF Reported, Used
<1> QED BY <1>3, <1>4

LEMMA TrainOnlyTypes ==
  ASSUME Types, NEW r, TrainOK(r), train' = r, UNCHANGED <<snap, main, mode, sched, used>>,
         worker' \in [Task -> Worker], draft' \subseteq Task, health' \in {"good", "bad"}
  PROVE  Types'
<1>1. Decodes(snap)' /\ TrainOK(train)'
  BY DecodesNext, TrainOKNext DEF Types
<1> QED BY <1>1 DEF Types

LEMMA TrainTask ==
  ASSUME Types, train.pc \notin {"idle", "batch", "candidate"}
  PROVE  train.task \in Task /\ snap.task[train.task] \in TaskRecord
BY DEF Types, TrainOK, Snapshot

(* draft when integrate or failBatch has refreshed a pull request. *)
LEMMA DraftTypes ==
  ASSUME Types, NEW t \in Task, draft' \in {draft, draft \union {t}}
  PROVE  draft' \subseteq Task
BY DEF Types

LEMMA NextPostOK == Types => TrainOK(NextPost)
<1> SUFFICES ASSUME Types PROVE TrainOK(NextPost)
  OBVIOUS
<1> DEFINE rest == train.todo \ {train.task}
<1>1. rest \in SUBSET Task
  BY DEF Types, TrainOK, Train
<1>2. NextPost = IF rest = {} THEN Idle ELSE [Idle EXCEPT !.pc = "post", !.task = First(rest), !.todo = rest]
  BY DEF NextPost
<1> HIDE DEF rest
<1>3. rest # {} => First(rest) \in Task
  BY <1>1, FirstIsLeast
<1>4. rest # {} => TrainOK([Idle EXCEPT !.pc = "post", !.task = First(rest), !.todo = rest])
  BY <1>1, <1>3 DEF TrainOK, Idle, Train, TrainPc, Batch
<1> QED BY <1>2, <1>4, IdleOK

LEMMA AdmitTypes ==
  ASSUME Types, train.pc \in {"gate", "review"}, Admit(train.task), UNCHANGED <<main, health, used>>
  PROVE  Types'
<1> DEFINE t == train.task
<1>0. t \in Task /\ snap.task[t] \in TaskRecord /\ snap \in Snapshot /\ TrainOK(train)
  BY TrainTask DEF Types
<1>m. main' \in Main /\ health' \in {"good", "bad"}
  BY DEF Types
<1>1. CASE /\ MutateInTrain(Staged(snap, t, "MERGE_TRAIN"),
                [train EXCEPT !.pc = "checks", !.base = main.version, !.head = snap.task[t].head])
           /\ UNCHANGED draft
  <2>1. Staged(snap, t, "MERGE_TRAIN") \in Snapshot
    BY <1>0, StagedFacts DEF State, Changes
  <2>2. main.version \in Nat /\ snap.task[t].head \in Nat
    BY <1>0 DEF Types, Main, TaskRecord
  <2>3. TrainOK([train EXCEPT !.pc = "checks", !.base = main.version, !.head = snap.task[t].head])
    BY <1>0, <2>2 DEF TrainOK, Train, TrainPc
  <2>4. draft' \subseteq Task
    BY <1>1 DEF Types
  <2> QED BY <1>1, <1>m, <2>1, <2>3, <2>4, TrainTypes
<1>2. ASSUME NEW s \in Retries(snap, t) \union {Blocked(snap, t, "SYNC_REQUIRED")},
             MutateInTrain(s, Idle), draft' \in {draft, draft \union {t}}
      PROVE  Types'
  <2>1. s \in Snapshot
    BY <1>0, FailuresBack, Back, SentBackIsSnapshot
  <2>2. draft' \subseteq Task
    BY <1>0, <1>2, DraftTypes
  <2> QED BY <1>2, <1>m, <2>1, <2>2, IdleOK, TrainTypes
<1> QED BY <1>1, <1>2 DEF Admit

LEMMA SerialTypes ==
  ASSUME Types, Gate \/ Regate \/ ChecksFail \/ Publish \/ Settle
  PROVE  Types'
<1> DEFINE t == train.task
<1>0. t \in Task /\ snap.task[t] \in TaskRecord /\ snap \in Snapshot /\ TrainOK(train)
  BY TrainTask DEF Types, Gate, Regate, ChecksFail, Publish, Settle
<1>m. main \in Main /\ health \in {"good", "bad"} /\ draft \subseteq Task
  BY DEF Types
<1>b. SentBack(snap, Staged(snap, t, "SYNC_REQUIRED"), t) /\ SentBack(snap, Blocked(snap, t, "SYNC_REQUIRED"), t)
  BY <1>0, Back
<1>1. CASE Gate
  <2>1. CASE Admit(t) /\ UNCHANGED <<main, health, used>>
    BY <1>1, <2>1, AdmitTypes DEF Gate
  <2>2. CASE /\ worker' = [worker EXCEPT ![t] = "verify"]
             /\ train' = [train EXCEPT !.pc = "review"]
             /\ UNCHANGED <<snap, mode, sched, draft>>
    <3>1. worker' \in [Task -> Worker]
      BY <2>2 DEF Types, Worker
    <3>2. TrainOK([train EXCEPT !.pc = "review"])
      BY <1>0 DEF TrainOK, Train, TrainPc
    <3> QED BY <1>1, <1>m, <2>2, <3>1, <3>2, TrainOnlyTypes DEF Gate
  <2>3. ASSUME NEW s \in {Staged(snap, t, "SYNC_REQUIRED"), Blocked(snap, t, "SYNC_REQUIRED")},
               MutateInTrain(s, Idle), draft' \in {draft, draft \union {t}}
        PROVE  Types'
    <3>1. s \in Snapshot /\ draft' \subseteq Task
      BY <1>0, <1>b, <2>3, SentBackIsSnapshot, DraftTypes
    <3> QED BY <1>1, <1>m, <2>3, <3>1, IdleOK, TrainTypes DEF Gate
  <2> QED BY <1>1, <2>1, <2>2, <2>3 DEF Gate
<1>2. CASE Regate
  <2>1. CASE Admit(t) /\ UNCHANGED <<main, health, used>>
    BY <1>2, <2>1, AdmitTypes DEF Regate
  <2>2. CASE MutateInTrain(Staged(snap, t, "SYNC_REQUIRED"), Idle) /\ draft' \in {draft, draft \union {t}}
    <3>1. Staged(snap, t, "SYNC_REQUIRED") \in Snapshot /\ draft' \subseteq Task
      BY <1>0, <1>b, <2>2, SentBackIsSnapshot, DraftTypes
    <3> QED BY <1>2, <1>m, <2>2, <3>1, IdleOK, TrainTypes DEF Regate
  <2>3. CASE train' = Idle /\ UNCHANGED <<snap, mode, sched, worker, draft>>
    BY <1>2, <1>m, <2>3, IdleOK, TrainOnlyTypes DEF Regate, Types
  <2> QED BY <1>2, <2>1, <2>2, <2>3 DEF Regate
<1>3. CASE ChecksFail
  <2>1. PICK s \in Failures(snap, t) : MutateInTrain(s, Idle)
    BY <1>3 DEF ChecksFail
  <2>2. s \in Snapshot
    BY <1>0, FailuresBack, SentBackIsSnapshot
  <2> QED BY <1>3, <1>m, <2>1, <2>2, IdleOK, TrainTypes DEF ChecksFail
<1>4. CASE Publish
  <2>1. ASSUME NEW saved \in BOOLEAN, Reported({t}, saved),
               NEW pc \in {"post", "settle"},
               MutateInTrain(Integrated(snap, {t}), [train EXCEPT !.pc = pc])
        PROVE  Types'
    <3>1. Integrated(snap, {t}) \in Snapshot
      BY <1>0, IntegratedFacts DEF Types
    <3>2. main' \in Main /\ used' \in Used
      BY <1>0, <2>1, ReportedTypes
    <3>3. TrainOK([train EXCEPT !.pc = pc])
      BY <1>0 DEF TrainOK, Train, TrainPc
    <3>4. worker \in [Task -> Worker] /\ sched \in Batch /\ draft' \subseteq Task /\ health' \in {"good", "bad"}
      BY <1>4, <1>m DEF Publish, Types
    <3> QED BY <2>1, <3>1, <3>2, <3>3, <3>4, MutateTypes DEF MutateInTrain
  <2>2. CASE train' = [train EXCEPT !.pc = "settle"] /\ UNCHANGED <<snap, main, mode, sched, worker, used>>
    <3>1. TrainOK([train EXCEPT !.pc = "settle"])
      BY <1>0 DEF TrainOK, Train, TrainPc
    <3> QED BY <1>4, <1>m, <2>2, <3>1, TrainOnlyTypes DEF Publish, Types
  <2> QED BY <1>4, <2>1, <2>2 DEF Publish
<1>5. CASE Settle
  <2>1. PICK s \in Snapshot : MutateInTrain(s, Idle)
    <3>1. snap.task[t].races + 1 \in Nat
      BY <1>0 DEF TaskRecord
    <3>2. LET raced == [snap EXCEPT !.task[t].races = snap.task[t].races + 1]
          IN SentBack(snap, Blocked(raced, t, "SYNC_REQUIRED"), t) /\ SentBack(snap, Invalidated(raced, t), t)
      BY <1>0, <3>1, RacedBack
    <3> QED BY <1>5, <1>b, <3>2, SentBackIsSnapshot DEF Settle
  <2>2. draft' \subseteq Task
    BY <1>0, <1>5, DraftTypes DEF Settle
  <2> QED BY <1>5, <1>m, <2>1, <2>2, IdleOK, TrainTypes DEF Settle
<1> QED BY <1>1, <1>2, <1>3, <1>4, <1>5

(* What failBatch publishes: the snapshot, without its reservation, and    *)
(* with the first member sent back if it is still what was reserved.       *)
LEMMA FailBatchFacts ==
  ASSUME Types
  PROVE  LET t == First(Members(train.batch))
             open == [snap EXCEPT !.batch = NoBatch]
         IN /\ FailBatch(snap) \in Snapshot
            /\ \/ FailBatch(snap) = snap
               \/ FailBatch(snap) = open /\ open \in Snapshot
               \/ /\ t \in Members(train.batch) /\ snap.batch = train.batch /\ open \in Snapshot
                  /\ snap.task[t].state = "MERGE_READY"
                  /\ SentBack(open, FailBatch(snap), t)
<1> DEFINE t == First(Members(train.batch))
           open == [snap EXCEPT !.batch = NoBatch]
<1>0. snap \in Snapshot /\ Decodes(snap)
  BY DEF Types
<1>1. open \in Snapshot
  BY <1>0 DEF Snapshot, Batch
<1>2. CASE snap.batch = NoBatch \/ snap.batch # train.batch
  BY <1>0, <1>2 DEF FailBatch
<1>3. CASE snap.batch # NoBatch /\ snap.batch = train.batch
  <2>1. Members(train.batch) # {} /\ Members(train.batch) \in SUBSET Task
    BY <1>0, <1>3, ValidHasMembers DEF Decodes, Members
  <2>2. t \in Members(train.batch) /\ t \in Task
    BY <2>1, FirstIsLeast
  <2>3. SentBack(open, Invalidated(open, t), t)
    BY <1>1, <2>2, Back
  <2>4. Invalidated(open, t) \in Snapshot
    BY <2>3, SentBackIsSnapshot
  <2>5. FailBatch(snap) = IF snap.task[t].state = "MERGE_READY" /\ snap.task[t].head = train.batch.heads[t]
                          THEN Invalidated(open, t) ELSE open
    BY <1>3 DEF FailBatch
  <2> HIDE DEF t, open
  <2>6. CASE FailBatch(snap) = open
    BY <1>1, <2>6 DEF open, t
  <2>7. CASE FailBatch(snap) = Invalidated(open, t) /\ snap.task[t].state = "MERGE_READY"
    BY <1>1, <1>3, <2>2, <2>3, <2>4, <2>7 DEF open, t
  <2> QED BY <2>5, <2>6, <2>7
<1> QED BY <1>2, <1>3

LEMMA AbandonTypes ==
  ASSUME Types, Abandon, Members(train.batch) # {}, UNCHANGED <<main, health, used>>
  PROVE  Types'
<1>1. FailBatch(snap) \in Snapshot
  BY FailBatchFacts
<1>2. First(Members(train.batch)) \in Task
  BY FirstIsLeast DEF Members
<1>3. draft' \subseteq Task /\ main' \in Main /\ health' \in {"good", "bad"}
  BY <1>2, DraftTypes DEF Abandon, Types
<1> QED BY <1>1, <1>3, IdleOK, TrainTypes DEF Abandon

(* The members of a reservation that stands. *)
LEMMA ReservedMembers ==
  ASSUME Types, Reservation
  PROVE  Valid(snap, train.batch) /\ Members(train.batch) \in SUBSET Task /\ Members(train.batch) # {}
BY ValidHasMembers DEF Types, Reservation, Decodes, Members

LEMMA IntegratedBatchFacts ==
  ASSUME Types, Reservation
  PROVE  /\ IntegratedBatch(snap) \in Snapshot /\ IntegratedBatch(snap).batch = NoBatch
         /\ IntegratedBatch(snap).held = snap.held
         /\ \A t \in Task \ Members(train.batch) : IntegratedBatch(snap).task[t] = snap.task[t]
         /\ \A t \in Members(train.batch) :
              Merged(snap.task[t], IntegratedBatch(snap).task[t], main.version + 1)
<1> DEFINE s == Integrated(snap, Members(train.batch))
<1>1. /\ s \in Snapshot /\ s.held = snap.held
      /\ \A t \in Task \ Members(train.batch) : s.task[t] = snap.task[t]
      /\ \A t \in Members(train.batch) : Merged(snap.task[t], s.task[t], main.version + 1)
  BY ReservedMembers, IntegratedFacts DEF Types
<1>2. IntegratedBatch(snap) = [s EXCEPT !.batch = NoBatch]
  BY DEF IntegratedBatch
<1> HIDE DEF s
<1>3. /\ [s EXCEPT !.batch = NoBatch] \in Snapshot /\ [s EXCEPT !.batch = NoBatch].task = s.task
      /\ [s EXCEPT !.batch = NoBatch].held = s.held /\ [s EXCEPT !.batch = NoBatch].batch = NoBatch
  BY <1>1 DEF Snapshot, Batch
<1> QED BY <1>1, <1>2, <1>3

LEMMA BatchTypes ==
  ASSUME Types, CheckBatch \/ PublishBatch
  PROVE  Types'
<1>0. snap \in Snapshot /\ TrainOK(train) /\ main \in Main
  BY DEF Types
<1>1. CASE CheckBatch
  <2>1. CASE train' = Idle /\ UNCHANGED <<snap, mode, sched, worker, draft>>
    BY <1>1, <2>1, IdleOK, TrainOnlyTypes DEF CheckBatch, Types
  <2>2. CASE /\ Reservation
             /\ train' = [train EXCEPT !.pc = "candidate"]
             /\ UNCHANGED <<snap, mode, sched, worker, draft>>
    <3>1. TrainOK([train EXCEPT !.pc = "candidate"])
      BY <1>0, <1>1, <2>2, ReservedMembers DEF CheckBatch, TrainOK, Train, TrainPc
    <3> QED BY <1>1, <2>2, <3>1, TrainOnlyTypes DEF CheckBatch, Types
  <2>3. CASE Reservation /\ Abandon
    BY <1>1, <2>3, ReservedMembers, AbandonTypes DEF CheckBatch
  <2> QED BY <1>1, <2>1, <2>2, <2>3 DEF CheckBatch
<1>2. CASE PublishBatch
  <2>1. CASE /\ Reservation
             /\ snap' = IntegratedBatch(snap)
             /\ \E saved \in BOOLEAN : Reported(Members(train.batch), saved)
             /\ train' \in {BatchVerification, Idle}
             /\ UNCHANGED <<mode, sched, worker, draft>>
    <3>1. IntegratedBatch(snap) \in Snapshot /\ IntegratedBatch(snap).batch = NoBatch
      BY <2>1, IntegratedBatchFacts
    <3>2. Decodes(IntegratedBatch(snap))
      BY <3>1 DEF Decodes
    <3>3. First(Members(train.batch)) \in Task /\ Members(train.batch) \in SUBSET Task
      BY <2>1, ReservedMembers, FirstIsLeast
    <3>4. TrainOK(BatchVerification)
      BY <3>3 DEF TrainOK, BatchVerification, Idle, Train, TrainPc, Batch
    <3>5. main' \in Main /\ used' \in Used
      BY <2>1, <3>3, ReportedTypes
    <3>6. Decodes(snap)' /\ TrainOK(train)'
      BY <2>1, <3>2, <3>4, IdleOK, DecodesNext, TrainOKNext
    <3> QED BY <1>2, <2>1, <3>1, <3>5, <3>6 DEF PublishBatch, Types
  <2>2. CASE Abandon /\ UNCHANGED <<main, used>>
    BY <1>0, <1>2, <2>2, AbandonTypes DEF PublishBatch, TrainOK
  <2> QED BY <1>2, <2>1, <2>2 DEF PublishBatch
<1> QED BY <1>1, <1>2

LEMMA ReholdIsSnapshot ==
  ASSUME NEW s, NEW s2, NEW t, NEW state, NEW h, Rehold(s, s2, t, state, h)
  PROVE  s2 \in Snapshot
BY DEF Rehold

LEMMA PostTypes ==
  ASSUME Types, Resume \/ PostVerify \/ PostChecks \/ RecoveryQA \/ Finish \/ ScratchRemains
  PROVE  Types'
<1> DEFINE t == train.task
           old == snap.task[t]
<1>0. t \in Task /\ old \in TaskRecord /\ snap \in Snapshot /\ TrainOK(train) /\ t \in Task \union {None}
  BY TrainTask DEF Types, Resume, PostVerify, PostChecks, RecoveryQA, Finish, ScratchRemains
<1>m. main \in Main /\ health \in {"good", "bad"} /\ draft \subseteq Task /\ worker \in [Task -> Worker]
  BY DEF Types
<1>n. TrainOK(NextPost)
  BY NextPostOK
<1>b. Blocked(snap, t, "POST_VERIFY") \in Snapshot
  BY <1>0, BlockedHeld, ReholdIsSnapshot
<1>1. CASE Resume
  <2>1. TrainOK([train EXCEPT !.pc = "post"])
    BY <1>0 DEF TrainOK, Train, TrainPc
  <2> QED BY <1>1, <1>m, <2>1, TrainOnlyTypes DEF Resume
<1>2. CASE PostVerify
  <2>1. CASE MutateInTrain(Blocked(snap, t, "POST_VERIFY"), NextPost)
    BY <1>2, <1>m, <1>n, <1>b, <2>1, TrainTypes DEF PostVerify
  <2>2. CASE \E pc \in {"finish", "postchecks"}, b \in BOOLEAN, n \in Nat :
               /\ train' = [train EXCEPT !.pc = pc, !.recovering = b, !.base = n]
               /\ UNCHANGED <<snap, mode, sched, worker>>
    <3>1. PICK pc \in {"finish", "postchecks"}, b \in BOOLEAN, n \in Nat :
            /\ train' = [train EXCEPT !.pc = pc, !.recovering = b, !.base = n]
            /\ UNCHANGED <<snap, mode, sched, worker>>
      BY <2>2
    <3>2. TrainOK([train EXCEPT !.pc = pc, !.recovering = b, !.base = n])
      BY <1>0 DEF TrainOK, Train, TrainPc
    <3> QED BY <1>2, <1>m, <3>1, <3>2, TrainOnlyTypes DEF PostVerify
  <2>3. main.version \in Nat /\ old.merge \in Nat
    BY <1>0, <1>m DEF Main, TaskRecord
  <2> QED BY <1>2, <2>1, <2>2, <2>3 DEF PostVerify
<1>3. CASE PostChecks
  <2>1. CASE health' = "bad" /\ MutateInTrain(Unhealthy(snap, t), NextPost)
    <3>1. Unhealthy(snap, t) \in Snapshot
      BY <1>0, BlockedHeld, ReholdIsSnapshot DEF Unhealthy
    <3> QED BY <1>3, <1>m, <1>n, <2>1, <3>1, TrainTypes DEF PostChecks
  <2>2. CASE \E pc \in {"qa", "finish"} :
               train' = [train EXCEPT !.pc = pc] /\ UNCHANGED <<snap, mode, sched, worker>> /\ health' = "good"
    <3>1. PICK pc \in {"qa", "finish"} :
            train' = [train EXCEPT !.pc = pc] /\ UNCHANGED <<snap, mode, sched, worker>> /\ health' = "good"
      BY <2>2
    <3>2. TrainOK([train EXCEPT !.pc = pc])
      BY <1>0 DEF TrainOK, Train, TrainPc
    <3> QED BY <1>3, <1>m, <3>1, <3>2, TrainOnlyTypes DEF PostChecks
  <2> QED BY <1>3, <2>1, <2>2 DEF PostChecks
<1>4. CASE RecoveryQA
  <2>1. [Blocked(snap, t, "POST_VERIFY") EXCEPT !.task[t].recovery = TRUE, !.held = None] \in Snapshot
    BY <1>0, BlockedHeld, ReholdIsSnapshot
  <2>2. TrainOK([train EXCEPT !.pc = "finish"])
    BY <1>0 DEF TrainOK, Train, TrainPc
  <2> QED BY <1>4, <1>m, <1>n, <1>b, <2>1, <2>2, TrainTypes, TrainOnlyTypes DEF RecoveryQA
<1>5. CASE Finish
  <2>1. CASE MutateInTrain(Finished(snap, t), NextPost)
    <3>1. Finished(snap, t) \in Snapshot
      BY <1>0, FinishedFacts, ReholdIsSnapshot
    <3> QED BY <1>5, <1>m, <1>n, <2>1, <3>1, TrainTypes DEF Finish
  <2>2. CASE Halt("failed") /\ UNCHANGED snap
    <3>1. Decodes(snap)'
      BY <2>2, DecodesNext DEF Types
    <3> QED BY <1>5, <2>2, <3>1, HaltTypes DEF Finish, Types
  <2> QED BY <1>5, <2>1, <2>2 DEF Finish
<1>6. CASE ScratchRemains
  BY <1>6, <1>m, <1>n, TrainOnlyTypes DEF ScratchRemains
<1> QED BY <1>1, <1>2, <1>3, <1>4, <1>5, <1>6

LEMMA TypesStep == Types /\ [Next]_vars => Types'
<1> SUFFICES ASSUME Types, [Next]_vars PROVE Types'
  OBVIOUS
<1>1. CASE UNCHANGED vars
  <2>1. Decodes(snap)' /\ TrainOK(train)'
    BY <1>1, DecodesNext, TrainOKNext DEF vars, Types
  <2> QED BY <1>1, <2>1 DEF vars, Types
<1>2. CASE Merging
  BY <1>2, SerialTypes, BatchTypes, PostTypes DEF Merging
<1> QED BY <1>1, <1>2, ProcessTypes, SchedulerTypes, WorkingTypes DEF Next

(* What Types says holds in every state: in particular that the published  *)
(* snapshot is one the next start of the supervisor decodes.               *)
THEOREM TypesHold == Spec => []Types
BY TypesInit, TypesStep, PTL DEF Spec

(* Every record of the train is of a kind the code writes (TypeOK),        *)
(* whatever fails, restarts or is answered.                                *)
THEOREM TypeCorrect == Spec => []TypeOK
<1>1. Types => TypeOK
  BY DEF Types, TypeOK, TrainOK, Snapshot, TaskRecord, Evidence, ResumeState, Main, Worker, Train,
         TrainPc, Used
<1> QED BY <1>1, TypesHold, PTL

-----------------------------------------------------------------------------
(* What lands together. *)

LEMMA OneIsSmall ==
  ASSUME NEW group, NEW t, group \subseteq {t}
  PROVE  ~(Cardinality(group) > 1)
<1>1. group = {} \/ group = {t}
  OBVIOUS
<1>2. Cardinality({}) = 0
  BY FS_EmptySet
<1>3. Cardinality({t}) = 1
  BY FS_Singleton
<1>4. Cardinality(group) = 0 \/ Cardinality(group) = 1
  BY <1>1, <1>2, <1>3
<1> QED BY <1>4

(* Main receives the tasks of the group, and the supervisor is told so or not. *)
Lands(group) == \E saved \in BOOLEAN : Reported(group, saved)

(* Only a publication changes what has landed. *)
LEMMA Landings ==
  ASSUME Types, [Next]_vars, main'.landed # main.landed
  PROVE  \/ /\ Publish /\ Lands({train.task}) /\ train.pc = "checks"
            /\ snap.task[train.task].state = "MERGE_TRAIN"
            /\ main.version = train.base
         \/ /\ PublishBatch /\ Lands(Members(train.batch)) /\ Reservation
            /\ main.version = train.batch.base
<1>1. main' # main
  OBVIOUS
<1>2. CASE ForeignPush
  BY <1>2 DEF ForeignPush, Types, Main
<1>3. CASE Publish
  BY <1>1, <1>3 DEF Publish, Lands
<1>4. CASE PublishBatch
  BY <1>1, <1>4 DEF PublishBatch, Lands
<1>5. \/ ForeignPush \/ Publish \/ PublishBatch \/ UNCHANGED main
  BY DEF Next, vars, Start, Crash, Launch, Answer, Working, Implement, Synchronize, Accept, Reject,
         MarkReady, UpdateReturns, Retry, MergeTick, SelectBatch, LaunchHeld, LaunchSerial, ReserveBatch,
         Merging, Gate, Regate, ChecksFail, Settle, CheckBatch, Resume, PostVerify, PostChecks,
         RecoveryQA, Finish, ScratchRemains
<1> QED BY <1>1, <1>2, <1>3, <1>4, <1>5

LEMMA Landed ==
  ASSUME Types, NEW group \in SUBSET Task, Lands(group), NEW t \in Task
  PROVE  main'.landed[t] = main.landed[t] + (IF t \in group THEN 1 ELSE 0)
BY DEF Types, Main, Lands, Reported, Counted

(* Tasks that land together are low-risk, at most three, and do not        *)
(* overlap (TogetherIndependent, ValidateIntegrationBatch).                *)
THEOREM LandedTogether == Spec => TogetherIndependent
<1> DEFINE group == {t \in Task : main'.landed[t] # main.landed[t]}
           Apart == Cardinality(group) > 1 =>
                      /\ group \subseteq LowRisk
                      /\ Cardinality(group) <= 3
                      /\ \A t, u \in group : t # u => {t, u} \notin Overlap
<1>1. ASSUME Types, [Next]_vars PROVE Apart
  <2>1. CASE main'.landed = main.landed
    <3>1. group = {}
      BY <2>1
    <3> QED BY <3>1, FS_EmptySet
  <2>2. CASE Publish /\ Lands({train.task}) /\ train.pc = "checks"
    <3>1. train.task \in Task
      BY <1>1, <2>2, TrainTask
    <3>2. \A t \in Task : main'.landed[t] = main.landed[t] + (IF t \in {train.task} THEN 1 ELSE 0)
      BY <1>1, <2>2, <3>1, Landed
    <3>3. group \subseteq {train.task}
      BY <1>1, <3>2 DEF Types, Main
    <3> QED BY <3>3, OneIsSmall
  <2>3. CASE Lands(Members(train.batch)) /\ Reservation
    <3>1. Valid(snap, train.batch) /\ Members(train.batch) \in SUBSET Task
      BY <1>1, <2>3, ReservedMembers
    <3>2. \A t \in Task : main'.landed[t] =
                            main.landed[t] + (IF t \in Members(train.batch) THEN 1 ELSE 0)
      BY <1>1, <2>3, <3>1, Landed
    <3>3. group = Members(train.batch)
      BY <1>1, <3>1, <3>2 DEF Types, Main
    <3> HIDE DEF group
    <3> QED BY <3>1, <3>3 DEF Valid, Eligible, Conflict
  <2> QED BY <1>1, <2>1, <2>2, <2>3, Landings
<1>2. Types /\ [Next]_vars => [Apart]_vars
  BY <1>1
<1> QED BY <1>2, TypesHold, PTL DEF Spec, TogetherIndependent

-----------------------------------------------------------------------------
(* What lands was reviewed as it is. *)

Admissions == {"MERGE_READY", "MERGE_TRAIN"}

(* A task that is ready to merge, or being merged, has its evidence, and   *)
(* what is being checked is the merge with the base it was reviewed on.    *)
Reviews ==
  /\ \A t \in Task : snap.task[t].state \in Admissions => Reviewed(snap, t)
  /\ train.pc = "checks" /\ snap.task[train.task].state = "MERGE_TRAIN" =>
       snap.task[train.task].base = train.base

(* s2 is s, except for tasks that are not about to be merged in it. *)
Withdraws(s, s2) ==
  \A u \in Task : s2.task[u] = s.task[u] \/ s2.task[u].state \notin Admissions

LEMMA SentBackWithdraws ==
  ASSUME NEW s, NEW s2, NEW t, SentBack(s, s2, t)
  PROVE  Withdraws(s, s2)
BY DEF SentBack, Changes, WentBack, Withdraws, Admissions

LEMMA ReholdWithdraws ==
  ASSUME NEW s, NEW s2, NEW t, NEW state, NEW h, Rehold(s, s2, t, state, h)
  PROVE  Withdraws(s, s2)
BY DEF Rehold, StaysLanded, Withdraws, Admissions

LEMMA MutateWithdraws ==
  ASSUME NEW s, Withdraws(snap, s), NEW w, NEW r, r.pc # "checks" \/ r = train, NEW b,
         Mutate(s, w, r, b)
  PROVE  Withdraws(snap, snap') /\ (train'.pc # "checks" \/ train' = train)
BY DEF Mutate, Halt, Idle, Withdraws

LEMMA ReviewsKept ==
  ASSUME Reviews, Withdraws(snap, snap'), TrainOK(train)', train'.pc # "checks" \/ train' = train
  PROVE  Reviews'
<1>1. ASSUME NEW t \in Task, snap'.task[t].state \in Admissions
      PROVE  snap'.task[t] = snap.task[t] /\ Reviewed(snap', t)
  BY <1>1 DEF Withdraws, Reviews, Reviewed
<1>2. CASE train'.pc = "checks" /\ snap'.task[train'.task].state = "MERGE_TRAIN"
  <2>1. train' = train /\ train.task \in Task
    BY <1>2 DEF TrainOK
  <2>2. snap'.task[train.task] = snap.task[train.task]
    BY <1>1, <1>2, <2>1 DEF Admissions
  <2> QED BY <1>1, <1>2, <2>1, <2>2 DEF Reviews, Reviewed
<1> QED BY <1>1, <1>2 DEF Reviews, Reviewed

Retreats == Withdraws(snap, snap') /\ (train'.pc # "checks" \/ train' = train)

LEMMA StutterRetreats ==
  ASSUME UNCHANGED snap, train'.pc # "checks" \/ train' = train
  PROVE  Retreats
BY DEF Retreats, Withdraws

LEMMA NextPostNotChecks == NextPost.pc # "checks" /\ Idle.pc # "checks"
BY DEF NextPost, Idle

LEMMA WorkerRetreats ==
  ASSUME Types, NEW t \in Task, Working(t), ~Accept(t)
  PROVE  Retreats
<1>0. snap \in Snapshot
  BY DEF Types
<1>1. \/ \E s : SentBack(snap, s, t) /\ \E pc \in Worker : MutateInWorker(s, t, pc)
      \/ UNCHANGED <<snap, train>>
  <2>1. CASE Implement(t)
    BY <1>0, <2>1, ImplementedBack DEF Implement, Worker
  <2>2. CASE Synchronize(t)
    BY <2>2, SynchronizeBack DEF Worker
  <2>3. CASE Reject(t) \/ Retry(t)
    BY <1>0, <2>3, FailuresBack DEF Reject, Retry, Worker
  <2>4. CASE MarkReady(t) \/ UpdateReturns(t)
    BY <2>4 DEF MarkReady, UpdateReturns
  <2> QED BY <2>1, <2>2, <2>3, <2>4 DEF Working
<1>2. ASSUME NEW s, SentBack(snap, s, t), NEW pc, MutateInWorker(s, t, pc)
      PROVE  Retreats
  BY <1>2, SentBackWithdraws, MutateWithdraws DEF MutateInWorker, Retreats
<1> QED BY <1>1, <1>2, StutterRetreats

LEMMA SchedulerRetreats ==
  ASSUME Types, \/ Start \/ Crash \/ ForeignPush \/ MergeTick \/ ReserveBatch
                \/ \E t \in Task : Launch(t) \/ Answer(t)
  PROVE  Retreats
<1>0. snap \in Snapshot
  BY DEF Types
<1>1. CASE Start
  <2>1. ASSUME NEW u \in Task
        PROVE  Recovered(snap).task[u] = snap.task[u] \/ Recovered(snap).task[u].state = "SYNC_REQUIRED"
    <3>1. snap.task[u] \in TaskRecord
      BY <1>0 DEF Snapshot
    <3>2. [snap.task[u] EXCEPT !.state = "SYNC_REQUIRED"].state = "SYNC_REQUIRED"
      BY <3>1 DEF TaskRecord
    <3> QED BY <1>0, <3>2, RecoveredFacts
  <2>2. Withdraws(snap, Recovered(snap))
    BY <2>1 DEF Withdraws, Admissions
  <2> QED BY <1>1, <2>2 DEF Start, Retreats, Withdraws
<1>2. CASE Crash \/ ForeignPush \/ LaunchHeld \/ \E t \in Task : Launch(t) \/ LaunchSerial(t)
  <2>1. ASSUME NEW u, NEW b
        PROVE  SerialTrain(u, b).pc = "gate"
    BY DEF SerialTrain, Idle
  <2>2. UNCHANGED snap
    BY <1>2 DEF Crash, ForeignPush, LaunchHeld, Launch, LaunchSerial
  <2>3. CASE Crash
    BY <2>2, <2>3, StutterRetreats, NextPostNotChecks DEF Crash, Halt
  <2>4. CASE ForeignPush
    BY <2>2, <2>4, StutterRetreats DEF ForeignPush
  <2>5. CASE LaunchHeld
    BY <2>1, <2>2, <2>5, StutterRetreats DEF LaunchHeld
  <2>6. ASSUME NEW t \in Task, Launch(t) \/ LaunchSerial(t)
        PROVE  Retreats
    BY <2>1, <2>2, <2>6, StutterRetreats DEF Launch, LaunchSerial
  <2> QED BY <1>2, <2>3, <2>4, <2>5, <2>6
<1>3. CASE SelectBatch \/ ReserveBatch
  <2>1. ASSUME NEW batch
        PROVE  Withdraws(snap, [snap EXCEPT !.batch = batch])
    BY <1>0 DEF Withdraws, Snapshot
  <2>2. ASSUME NEW batch
        PROVE  BatchTrain(batch).pc # "checks"
    BY DEF BatchTrain, Idle
  <2> QED BY <1>3, <2>1, <2>2, MutateWithdraws, NextPostNotChecks, StutterRetreats
          DEF SelectBatch, ReserveBatch, MutateInTrain, Retreats
<1>4. ASSUME NEW t \in Task, Answer(t)
      PROVE  Retreats
  <2>1. snap.task[t].resume \in State /\ snap.task[t].resume \notin Admissions
    BY <1>0 DEF Snapshot, TaskRecord, ResumeState, State, Admissions
  <2>2. PICK state \in State : state = snap.task[t].resume
    BY <2>1
  <2>3. /\ Changes(snap, Staged(snap, t, state), t)
        /\ Restated(snap.task[t], Staged(snap, t, state).task[t], state, snap.task[t].resume)
    BY <1>0, StagedFacts, StagedRestates
  <2>4. Withdraws(snap, Staged(snap, t, state))
    BY <2>1, <2>2, <2>3 DEF Changes, Restated, Withdraws
  <2> QED BY <1>4, <2>2, <2>4, MutateWithdraws DEF Answer, Retreats
<1> QED BY <1>1, <1>2, <1>3, <1>4 DEF MergeTick

(* A step of the merge goroutine that publishes s, and ends or goes on. *)
LEMMA TrainRetreats ==
  ASSUME NEW s, NEW r, r.pc # "checks", MutateInTrain(s, r), Withdraws(snap, s)
  PROVE  Retreats
BY MutateWithdraws DEF MutateInTrain, Retreats

LEMMA AdmitOrRetreat ==
  ASSUME Types, train.pc \in {"gate", "review"}, Admit(train.task)
  PROVE  \/ Retreats
         \/ MutateInTrain(Staged(snap, train.task, "MERGE_TRAIN"),
              [train EXCEPT !.pc = "checks", !.base = main.version, !.head = snap.task[train.task].head])
<1> DEFINE t == train.task
<1>0. t \in Task /\ snap \in Snapshot
  BY TrainTask DEF Types
<1>1. ASSUME NEW s \in Retries(snap, t) \union {Blocked(snap, t, "SYNC_REQUIRED")}, MutateInTrain(s, Idle)
      PROVE  Retreats
  <2>1. SentBack(snap, s, t)
    BY <1>0, FailuresBack, Back
  <2> QED BY <1>1, <2>1, SentBackWithdraws, TrainRetreats, NextPostNotChecks
<1> QED BY <1>1 DEF Admit

LEMMA SerialRetreats ==
  ASSUME Types, Gate \/ Regate \/ ChecksFail \/ Publish \/ Settle
  PROVE  \/ Retreats
         \/ /\ MutateInTrain(Staged(snap, train.task, "MERGE_TRAIN"),
                 [train EXCEPT !.pc = "checks", !.base = main.version, !.head = snap.task[train.task].head])
            /\ snap.task[train.task].state = "MERGE_READY"
            /\ snap.task[train.task].base = main.version
<1> DEFINE t == train.task
<1>0. t \in Task /\ snap \in Snapshot /\ snap.task[t] \in TaskRecord /\ TrainOK(train)
  BY TrainTask DEF Types, Gate, Regate, ChecksFail, Publish, Settle
<1>b. SentBack(snap, Staged(snap, t, "SYNC_REQUIRED"), t) /\ SentBack(snap, Blocked(snap, t, "SYNC_REQUIRED"), t)
  BY <1>0, Back
<1>c. ASSUME NEW s, SentBack(snap, s, t), MutateInTrain(s, Idle)
      PROVE  Retreats
  BY <1>c, SentBackWithdraws, TrainRetreats, NextPostNotChecks
<1>1. CASE Gate
  <2>1. CASE Admit(t) /\ Reviewed(snap, t) /\ snap.task[t].base = main.version
    BY <1>1, <2>1, AdmitOrRetreat DEF Gate
  <2>2. CASE train' = [train EXCEPT !.pc = "review"] /\ UNCHANGED snap
    <3>1. train'.pc # "checks"
      BY <1>0, <2>2 DEF TrainOK, Train
    <3> QED BY <2>2, <3>1, StutterRetreats
  <2>3. CASE \E s \in {Staged(snap, t, "SYNC_REQUIRED"), Blocked(snap, t, "SYNC_REQUIRED")} :
               MutateInTrain(s, Idle)
    BY <2>3, <1>b, <1>c
  <2> QED BY <1>1, <2>1, <2>2, <2>3 DEF Gate
<1>2. CASE Regate
  <2>1. CASE Admit(t) /\ snap.task[t].state = "MERGE_READY" /\ snap.task[t].base = main.version
    BY <1>2, <2>1, AdmitOrRetreat DEF Regate
  <2>2. CASE MutateInTrain(Staged(snap, t, "SYNC_REQUIRED"), Idle)
    BY <2>2, <1>b, <1>c
  <2>3. CASE train' = Idle /\ UNCHANGED snap
    BY <2>3, StutterRetreats, NextPostNotChecks
  <2> QED BY <1>2, <2>1, <2>2, <2>3 DEF Regate
<1>3. CASE ChecksFail
  BY <1>0, <1>3, <1>c, FailuresBack DEF ChecksFail
<1>4. CASE Publish
  <2>1. ASSUME NEW pc \in {"post", "settle"},
               MutateInTrain(Integrated(snap, {t}), [train EXCEPT !.pc = pc])
        PROVE  Retreats
    <3>1. Withdraws(snap, Integrated(snap, {t}))
      BY <1>0, IntegratedFacts DEF Types, Withdraws, Merged, Admissions
    <3>2. [train EXCEPT !.pc = pc].pc # "checks"
      BY <1>0 DEF TrainOK, Train
    <3> QED BY <2>1, <3>1, <3>2, TrainRetreats
  <2>2. CASE train' = [train EXCEPT !.pc = "settle"] /\ UNCHANGED snap
    <3>1. train'.pc # "checks"
      BY <1>0, <2>2 DEF TrainOK, Train
    <3> QED BY <2>2, <3>1, StutterRetreats
  <2> QED BY <1>4, <2>1, <2>2 DEF Publish
<1>5. CASE Settle
  <2>1. snap.task[t].races + 1 \in Nat
    BY <1>0 DEF TaskRecord
  <2>2. LET raced == [snap EXCEPT !.task[t].races = snap.task[t].races + 1]
        IN SentBack(snap, Blocked(raced, t, "SYNC_REQUIRED"), t) /\ SentBack(snap, Invalidated(raced, t), t)
    BY <1>0, <2>1, RacedBack
  <2> QED BY <1>5, <2>2, <1>b, <1>c DEF Settle
<1> QED BY <1>1, <1>2, <1>3, <1>4, <1>5

LEMMA FailBatchRetreats ==
  ASSUME Types, MutateInTrain(FailBatch(snap), Idle)
  PROVE  Retreats
<1> DEFINE t == First(Members(train.batch))
           open == [snap EXCEPT !.batch = NoBatch]
<1>1. open.task = snap.task
  BY DEF Types, Snapshot
<1>2. \/ FailBatch(snap) = snap \/ FailBatch(snap) = open
      \/ SentBack(open, FailBatch(snap), t)
  BY FailBatchFacts
<1> HIDE DEF t, open
<1>3. ASSUME SentBack(open, FailBatch(snap), t)
      PROVE  Withdraws(snap, FailBatch(snap))
  BY <1>1, <1>3, SentBackWithdraws DEF Withdraws
<1>4. Withdraws(snap, FailBatch(snap))
  BY <1>1, <1>2, <1>3 DEF Withdraws
<1> QED BY <1>4, TrainRetreats, NextPostNotChecks

LEMMA BatchRetreats ==
  ASSUME Types, CheckBatch \/ PublishBatch
  PROVE  Retreats
<1>0. TrainOK(train)
  BY DEF Types
<1>1. CASE Abandon
  BY <1>1, FailBatchRetreats DEF Abandon
<1>2. CASE UNCHANGED snap /\ train' = Idle
  BY <1>2, StutterRetreats, NextPostNotChecks
<1>3. CASE UNCHANGED snap /\ train' = [train EXCEPT !.pc = "candidate"]
  <2>1. train'.pc # "checks"
    BY <1>0, <1>3 DEF TrainOK, Train
  <2> QED BY <1>3, <2>1, StutterRetreats
<1>4. CASE /\ Reservation /\ snap' = IntegratedBatch(snap)
           /\ train' \in {BatchVerification, Idle}
  <2>1. Withdraws(snap, IntegratedBatch(snap))
    BY <1>4, IntegratedBatchFacts DEF Withdraws, Merged, Admissions
  <2>2. BatchVerification.pc = "post" /\ Idle.pc = "idle"
    BY DEF BatchVerification, Idle
  <2>3. train'.pc # "checks"
    BY <1>4, <2>2
  <2> QED BY <1>4, <2>1, <2>3 DEF Retreats, Withdraws
<1> QED BY <1>1, <1>2, <1>3, <1>4 DEF CheckBatch, PublishBatch

LEMMA PostRetreats ==
  ASSUME Types, Resume \/ PostVerify \/ PostChecks \/ RecoveryQA \/ Finish \/ ScratchRemains
  PROVE  Retreats
<1> DEFINE t == train.task
<1>0. t \in Task /\ snap \in Snapshot /\ train \in Train
  BY TrainTask DEF Types, TrainOK, Resume, PostVerify, PostChecks, RecoveryQA, Finish, ScratchRemains
<1>b. ASSUME NEW s, NEW state, NEW h, Rehold(snap, s, t, state, h), MutateInTrain(s, NextPost)
      PROVE  Retreats
  BY <1>b, ReholdWithdraws, TrainRetreats, NextPostNotChecks
<1>c. ASSUME NEW pc \in TrainPc, pc # "checks"
      PROVE  [train EXCEPT !.pc = pc].pc # "checks"
  BY <1>0, <1>c DEF Train
<1>1. CASE Resume
  BY <1>1, <1>c, StutterRetreats DEF Resume, TrainPc
<1>2. CASE PostVerify
  <2>1. CASE MutateInTrain(Blocked(snap, t, "POST_VERIFY"), NextPost)
    BY <1>0, <1>b, <2>1, BlockedHeld
  <2>2. CASE \E pc \in {"finish", "postchecks"} : \E b, n :
               train' = [train EXCEPT !.pc = pc, !.recovering = b, !.base = n] /\ UNCHANGED snap
    <3>1. train'.pc # "checks"
      BY <1>0, <2>2 DEF Train
    <3> QED BY <2>2, <3>1, StutterRetreats
  <2> QED BY <1>2, <2>1, <2>2 DEF PostVerify
<1>3. CASE PostChecks
  <2>1. CASE MutateInTrain(Unhealthy(snap, t), NextPost)
    BY <1>0, <1>b, <2>1, BlockedHeld DEF Unhealthy
  <2>2. CASE \E pc \in {"qa", "finish"} : train' = [train EXCEPT !.pc = pc] /\ UNCHANGED snap
    BY <1>c, <2>2, StutterRetreats DEF TrainPc
  <2> QED BY <1>3, <2>1, <2>2 DEF PostChecks
<1>4. CASE RecoveryQA
  <2>1. CASE MutateInTrain(Blocked(snap, t, "POST_VERIFY"), NextPost)
    BY <1>0, <1>b, <2>1, BlockedHeld
  <2>2. CASE MutateInTrain([Blocked(snap, t, "POST_VERIFY") EXCEPT !.task[t].recovery = TRUE,
                                                                 !.held = None], NextPost)
    BY <1>0, <1>b, <2>2, BlockedHeld
  <2>3. CASE train' = [train EXCEPT !.pc = "finish"] /\ UNCHANGED snap
    BY <1>c, <2>3, StutterRetreats DEF TrainPc
  <2> QED BY <1>4, <2>1, <2>2, <2>3 DEF RecoveryQA
<1>5. CASE Finish
  <2>1. CASE MutateInTrain(Finished(snap, t), NextPost)
    BY <1>0, <1>b, <2>1, FinishedFacts
  <2>2. CASE Halt("failed") /\ UNCHANGED snap
    BY <2>2, StutterRetreats, NextPostNotChecks DEF Halt
  <2> QED BY <1>5, <2>1, <2>2 DEF Finish
<1>6. CASE ScratchRemains
  BY <1>6, StutterRetreats, NextPostNotChecks DEF ScratchRemains
<1> QED BY <1>1, <1>2, <1>3, <1>4, <1>5, <1>6

(* The end of a worker's review. *)
LEMMA AcceptKeepsReviews ==
  ASSUME Types, Reviews, Types', NEW t \in Task, Accept(t)
  PROVE  Reviews'
<1> DEFINE s2 == [Staged(snap, t, "MERGE_READY") EXCEPT !.task[t].evidence =
                    [base |-> snap.task[t].base, head |-> snap.task[t].head]]
<1>1. Changes(snap, s2, t) /\ Reviewed(s2, t) /\ s2.task[t].state = "MERGE_READY"
  BY AcceptedFacts DEF Types
<1>2. \/ snap' = s2 /\ UNCHANGED train
      \/ UNCHANGED snap /\ train' = Idle
  BY DEF Accept, MutateInWorker, Mutate, Halt
<1> HIDE DEF s2
<1>3. CASE snap' = s2 /\ UNCHANGED train
  <2>1. ASSUME NEW u \in Task, snap'.task[u].state \in Admissions
        PROVE  Reviewed(snap', u)
    BY <1>1, <1>3, <2>1 DEF Changes, Reviews, Reviewed
  <2>2. CASE train'.pc = "checks" /\ snap'.task[train'.task].state = "MERGE_TRAIN"
    <3>1. train.task \in Task /\ train.task # t
      BY <1>1, <1>3, <2>2, TrainTask
    <3> QED BY <1>1, <1>3, <2>1, <2>2, <3>1 DEF Changes, Reviews, Reviewed
  <2> QED BY <2>1, <2>2 DEF Reviews, Reviewed
<1>4. CASE UNCHANGED snap /\ train' = Idle
  BY <1>4, NextPostNotChecks DEF Reviews, Reviewed
<1> QED BY <1>2, <1>3, <1>4

(* The admission of a task whose evidence is of the fetched main. *)
LEMMA AdmitKeepsReviews ==
  ASSUME Types, Reviews, train.task \in Task,
         MutateInTrain(Staged(snap, train.task, "MERGE_TRAIN"),
           [train EXCEPT !.pc = "checks", !.base = main.version, !.head = snap.task[train.task].head]),
         snap.task[train.task].state = "MERGE_READY", snap.task[train.task].base = main.version
  PROVE  Reviews'
<1> DEFINE t == train.task
           s2 == Staged(snap, t, "MERGE_TRAIN")
           r == [train EXCEPT !.pc = "checks", !.base = main.version, !.head = snap.task[t].head]
<1>1. Changes(snap, s2, t) /\ Restated(snap.task[t], s2.task[t], "MERGE_TRAIN", snap.task[t].resume)
  BY StagedFacts, StagedRestates DEF Types, State
<1>2. r.task = t /\ r.base = main.version
  BY DEF Types, TrainOK, Train
<1>3. \/ snap' = s2 /\ train' = r
      \/ UNCHANGED snap /\ train' = Idle
  BY DEF MutateInTrain, Mutate, Halt
<1> HIDE DEF s2, r
<1>4. CASE snap' = s2 /\ train' = r
  <2>1. ASSUME NEW u \in Task, snap'.task[u].state \in Admissions
        PROVE  Reviewed(snap', u)
    BY <1>1, <1>4, <2>1 DEF Changes, Restated, Reviews, Reviewed, Admissions
  <2>2. snap'.task[train'.task].base = train'.base
    BY <1>1, <1>2, <1>4 DEF Restated
  <2> QED BY <2>1, <2>2 DEF Reviews, Reviewed
<1>5. CASE UNCHANGED snap /\ train' = Idle
  BY <1>5, NextPostNotChecks DEF Reviews, Reviewed
<1> QED BY <1>3, <1>4, <1>5

LEMMA ReviewsStep == Types /\ Reviews /\ [Next]_vars => Reviews'
<1> SUFFICES ASSUME Types, Reviews, [Next]_vars PROVE Reviews'
  OBVIOUS
<1>1. Types' /\ TrainOK(train)'
  BY TypesStep DEF Types
<1>r. ASSUME Retreats PROVE Reviews'
  BY <1>1, <1>r, ReviewsKept DEF Retreats
<1>2. CASE UNCHANGED vars
  BY <1>2 DEF vars, Reviews, Reviewed
<1>3. ASSUME NEW t \in Task, Working(t)
      PROVE  Reviews'
  BY <1>1, <1>3, <1>r, WorkerRetreats, AcceptKeepsReviews
<1>4. CASE Gate \/ Regate \/ ChecksFail \/ Publish \/ Settle
  <2>1. train.task \in Task
    BY <1>4, TrainTask DEF Gate, Regate, ChecksFail, Publish, Settle
  <2> QED BY <1>4, <1>r, <2>1, SerialRetreats, AdmitKeepsReviews
<1>5. CASE CheckBatch \/ PublishBatch
  BY <1>5, <1>r, BatchRetreats
<1>6. CASE Resume \/ PostVerify \/ PostChecks \/ RecoveryQA \/ Finish \/ ScratchRemains
  BY <1>6, <1>r, PostRetreats
<1>7. CASE \/ Start \/ Crash \/ ForeignPush \/ MergeTick \/ ReserveBatch
           \/ \E t \in Task : Launch(t) \/ Answer(t)
  BY <1>7, <1>r, SchedulerRetreats
<1> QED BY <1>2, <1>3, <1>4, <1>5, <1>6, <1>7 DEF Next, Merging

LEMMA ReviewsInit == Init => Reviews
BY NextPostNotChecks DEF Init, Reviews, Reviewed, Admissions

(* What reaches main was reviewed as it is, on the main it lands on        *)
(* (LandsAsReviewed; the fence of integrate and of publishBatch).          *)
THEOREM LandsReviewed == Spec => LandsAsReviewed
<1> DEFINE Own == \A t \in Task : main'.landed[t] # main.landed[t] =>
                    snap.task[t].evidence = [base |-> main.version, head |-> snap.task[t].head]
<1>1. ASSUME Types, Reviews, [Next]_vars PROVE Own
  <2> SUFFICES ASSUME NEW t \in Task, main'.landed[t] # main.landed[t]
               PROVE  snap.task[t].evidence = [base |-> main.version, head |-> snap.task[t].head]
    OBVIOUS
  <2>0. main.landed[t] \in Nat
    BY <1>1 DEF Types, Main
  <2>1. CASE /\ Lands({train.task}) /\ train.pc = "checks"
             /\ snap.task[train.task].state = "MERGE_TRAIN" /\ main.version = train.base
    <3>1. train.task \in Task
      BY <1>1, <2>1, TrainTask
    <3>2. main'.landed[t] = main.landed[t] + (IF t \in {train.task} THEN 1 ELSE 0)
      BY <1>1, <2>1, <3>1, Landed
    <3>3. t = train.task
      BY <2>0, <3>2
    <3> QED BY <1>1, <2>1, <3>3 DEF Reviews, Reviewed, Admissions
  <2>2. CASE Lands(Members(train.batch)) /\ Reservation /\ main.version = train.batch.base
    <3>1. Valid(snap, train.batch) /\ Members(train.batch) \in SUBSET Task
      BY <1>1, <2>2, ReservedMembers
    <3>2. main'.landed[t] = main.landed[t] + (IF t \in Members(train.batch) THEN 1 ELSE 0)
      BY <1>1, <2>2, <3>1, Landed
    <3>3. t \in Members(train.batch)
      BY <2>0, <3>2
    <3> QED BY <2>2, <3>1, <3>3 DEF Valid, Eligible, Reviewed
  <2> QED BY <1>1, <2>1, <2>2, Landings
<1>2. Types /\ Reviews /\ [Next]_vars => [Own]_vars
  BY <1>1
<1>3. Init /\ [][Next]_vars /\ []Types => []Reviews
  BY ReviewsInit, ReviewsStep, PTL
<1> QED BY <1>2, <1>3, TypesHold, PTL DEF Spec, LandsAsReviewed
=============================================================================
