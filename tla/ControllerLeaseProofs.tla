------------------------ MODULE ControllerLeaseProofs ------------------------
(***************************************************************************)
(* Type correctness of ControllerLease for every set of machines, commands *)
(* and tasks, every lease length and every bound, and what its operations  *)
(* compute, field by field.  ControllerLeaseSafety builds on it.           *)
(***************************************************************************)
EXTENDS ControllerLease, TLAPS

(* An attempt belongs to a publication, and only a publication that names  *)
(* its task can move main.                                                 *)
OpShape(o) == o.base = NoMain \/ o.task \in Task
Paired ==
  /\ \A m \in Machine :
       /\ pub[m].pc # "none" => op[m] # NoOp
       /\ op[m] # NoOp => OpShape(op[m])
       /\ op[m] # NoOp /\ op[m].kind \in {"reserve", "integrate"} => train[m].task \in Task
       /\ train[m].phase # "idle" => train[m].task \in Task
  /\ \A o \in flight : OpShape(o)

-----------------------------------------------------------------------------
(* What the published snapshots are, field by field. *)
SameContent(h, k) ==
  k.applied = h.applied /\ k.effects = h.effects /\ k.merged = h.merged

Follows(h, k, now) ==   \* the next commit of the same controller
  /\ k \in Commit
  /\ k.depth = h.depth + 1
  /\ k.epoch = h.epoch
  /\ k.owner = h.owner
  /\ k.expires = now + LeaseLen

LEMMA ExtendedFields ==
  ASSUME NEW h \in Commit, NEW now \in Nat
  PROVE  /\ Follows(h, Extended(h, now), now)
         /\ SameContent(h, Extended(h, now))
         /\ Extended(h, now).stage = h.stage
<1>1. ASSUME NEW d \in Nat, NEW e \in Nat
      PROVE  LET k == [h EXCEPT !.depth = d, !.expires = e]
             IN  /\ k \in Commit
                 /\ k.depth = d /\ k.expires = e
                 /\ k.epoch = h.epoch /\ k.owner = h.owner /\ k.stage = h.stage
                 /\ SameContent(h, k)
  BY DEF Commit, SameContent
<1>2. h.depth + 1 \in Nat /\ now + LeaseLen \in Nat
  BY ConstantsAssumption DEF Commit
<1> QED BY <1>1, <1>2 DEF Extended, Follows

(* The record updates of the operations, as operators of their fields.     *)
WithLease(g, e, w)   == [g EXCEPT !.epoch = e, !.owner = w]
WithStage(g, f)      == [g EXCEPT !.stage = f]
WithEffects(g, a, f) == [g EXCEPT !.applied = a, !.effects = f]
WithMerged(g, s)     == [g EXCEPT !.merged = s]

LEMMA LeaseUpdate ==
  ASSUME NEW g \in Commit, NEW e \in Nat, NEW w \in Owner
  PROVE  LET k == WithLease(g, e, w)
         IN  /\ k \in Commit /\ k.epoch = e /\ k.owner = w
             /\ k.depth = g.depth /\ k.expires = g.expires
             /\ k.stage = g.stage /\ SameContent(g, k)
  BY DEF WithLease, Commit, SameContent

LEMMA StageUpdate ==
  ASSUME NEW g \in Commit, NEW f \in [Task -> Stage]
  PROVE  LET k == WithStage(g, f)
         IN  /\ k \in Commit /\ k.epoch = g.epoch /\ k.owner = g.owner
             /\ k.depth = g.depth /\ k.expires = g.expires
             /\ k.stage = f /\ SameContent(g, k)
  BY DEF WithStage, Commit, SameContent

LEMMA EffectsUpdate ==
  ASSUME NEW g \in Commit, NEW a \in SUBSET Command, NEW f \in [Command -> Nat]
  PROVE  LET k == WithEffects(g, a, f)
         IN  /\ k \in Commit /\ k.epoch = g.epoch /\ k.owner = g.owner
             /\ k.depth = g.depth /\ k.expires = g.expires /\ k.stage = g.stage
             /\ k.applied = a /\ k.effects = f /\ k.merged = g.merged
  BY DEF WithEffects, Commit

LEMMA MergedUpdate ==
  ASSUME NEW g \in Commit, NEW s \in SUBSET Task
  PROVE  LET k == WithMerged(g, s)
         IN  /\ k \in Commit /\ k.epoch = g.epoch /\ k.owner = g.owner
             /\ k.depth = g.depth /\ k.expires = g.expires /\ k.stage = g.stage
             /\ k.applied = g.applied /\ k.effects = g.effects /\ k.merged = s
  BY DEF WithMerged, Commit

LEMMA TakenFields ==
  ASSUME NEW h \in Commit, NEW now \in Nat, NEW m \in Machine, inst[m] \in Nat
  PROVE  LET k == Taken(h, m, now)
         IN  /\ k \in Commit
             /\ k.depth = h.depth + 1
             /\ k.epoch = h.epoch + 1
             /\ k.owner = <<m, inst[m] + 1>>
             /\ k.expires = now + LeaseLen
             /\ SameContent(h, k)
             /\ k.stage = h.stage
<1> DEFINE w == <<m, inst[m] + 1>>
           e == h.epoch + 1
<1>1. Taken(h, m, now) = WithLease(Extended(h, now), e, w)
  BY DEF Taken, WithLease
<1>2. e \in Nat /\ w \in Owner
  BY DEF Commit, Owner
<1>3. Follows(h, Extended(h, now), now) /\ SameContent(h, Extended(h, now))
        /\ Extended(h, now).stage = h.stage
  BY ExtendedFields
<1> HIDE DEF w, e
<1>4. Extended(h, now) \in Commit
  BY <1>3 DEF Follows
<1>5. LET k == Taken(h, m, now)
      IN  /\ k \in Commit /\ k.epoch = e /\ k.owner = w
          /\ k.depth = Extended(h, now).depth /\ k.expires = Extended(h, now).expires
          /\ k.stage = Extended(h, now).stage /\ SameContent(Extended(h, now), k)
  BY <1>1, <1>2, <1>4, LeaseUpdate
<1> QED BY <1>3, <1>5 DEF w, e, Follows, SameContent

LEMMA RecoveredFields ==
  ASSUME NEW h \in Commit, NEW now \in Nat
  PROVE  /\ Follows(h, Recovered(h, now), now)
         /\ SameContent(h, Recovered(h, now))
<1> DEFINE f == [t \in Task |-> IF h.stage[t] = "MERGE_TRAIN"
                                THEN "SYNC_REQUIRED" ELSE h.stage[t]]
<1>1. f \in [Task -> Stage]
  BY DEF Commit, Stage
<1>2. Recovered(h, now) = WithStage(Extended(h, now), f)
  BY DEF Recovered, WithStage
<1> HIDE DEF f
<1>3. Follows(h, Extended(h, now), now) /\ SameContent(h, Extended(h, now))
        /\ Extended(h, now).stage = h.stage
  BY ExtendedFields
<1> QED BY <1>1, <1>2, <1>3, StageUpdate DEF Follows, SameContent

LEMMA StagedFields ==
  ASSUME NEW h \in Commit, NEW now \in Nat, NEW t \in Task, NEW s \in Stage
  PROVE  /\ Follows(h, Staged(h, t, s, now), now)
         /\ SameContent(h, Staged(h, t, s, now))
         /\ Staged(h, t, s, now).stage = [h.stage EXCEPT ![t] = s]
<1>1. [h.stage EXCEPT ![t] = s] \in [Task -> Stage]
  BY DEF Commit
<1>2. Staged(h, t, s, now) = WithStage(Extended(h, now), [h.stage EXCEPT ![t] = s])
  BY DEF Staged, WithStage
<1>3. Follows(h, Extended(h, now), now) /\ SameContent(h, Extended(h, now))
        /\ Extended(h, now).stage = h.stage
  BY ExtendedFields
<1> QED BY <1>1, <1>2, <1>3, StageUpdate DEF Follows, SameContent

LEMMA AcceptedFields ==
  ASSUME NEW h \in Commit, NEW now \in Nat, NEW c \in Command
  PROVE  LET k == Accepted(h, c, now)
         IN  /\ Follows(h, k, now)
             /\ k.applied = h.applied \union {c}
             /\ k.effects = [h.effects EXCEPT ![c] = h.effects[c] + 1]
             /\ k.merged = h.merged
             /\ k.stage = h.stage
<1>1. /\ h.applied \union {c} \in SUBSET Command
      /\ [h.effects EXCEPT ![c] = h.effects[c] + 1] \in [Command -> Nat]
  BY DEF Commit
<1>2. Accepted(h, c, now) =
        WithEffects(Extended(h, now), h.applied \union {c},
                    [h.effects EXCEPT ![c] = h.effects[c] + 1])
  BY DEF Accepted, WithEffects
<1>3. Follows(h, Extended(h, now), now) /\ SameContent(h, Extended(h, now))
        /\ Extended(h, now).stage = h.stage
  BY ExtendedFields
<1> QED BY <1>1, <1>2, <1>3, EffectsUpdate DEF Follows, SameContent

LEMMA IntegratedFields ==
  ASSUME NEW h \in Commit, NEW now \in Nat, NEW t \in Task
  PROVE  LET k == Integrated(h, t, now)
         IN  /\ Follows(h, k, now)
             /\ k.merged = h.merged \union {t}
             /\ k.applied = h.applied /\ k.effects = h.effects
             /\ k.stage = [h.stage EXCEPT ![t] = "POST_VERIFY"]
<1>1. h.merged \union {t} \in SUBSET Task /\ "POST_VERIFY" \in Stage
  BY DEF Commit, Stage
<1>2. Integrated(h, t, now) =
        WithMerged(Staged(h, t, "POST_VERIFY", now), h.merged \union {t})
  BY DEF Integrated, WithMerged
<1> QED BY <1>1, <1>2, MergedUpdate, StagedFields DEF Follows, SameContent

LEMMA ReleasedFields ==
  ASSUME NEW h \in Commit, NEW now \in Nat
  PROVE  LET k == Released(h, now)
         IN  /\ k \in Commit
             /\ k.depth = h.depth + 1
             /\ k.epoch = h.epoch
             /\ k.owner = NoOwner
             /\ k.expires = now
             /\ SameContent(h, k)
             /\ k.stage = h.stage
<1>1. ASSUME NEW d \in Nat
      PROVE  LET k == [h EXCEPT !.depth = d, !.owner = NoOwner, !.expires = now]
             IN  /\ k \in Commit
                 /\ k.depth = d /\ k.owner = NoOwner /\ k.expires = now
                 /\ k.epoch = h.epoch /\ k.stage = h.stage
                 /\ SameContent(h, k)
  BY DEF Commit, SameContent
<1>2. h.depth + 1 \in Nat
  BY DEF Commit
<1> QED BY <1>1, <1>2 DEF Released

-----------------------------------------------------------------------------
(* Type correctness. *)
Typed == TypeOK /\ Paired

LEMMA PersistTyped ==
  ASSUME TypeOK, NEW m \in Machine, NEW kind \in Kind, NEW new \in Commit,
         NEW base \in Main \union {NoMain}, NEW task \in Task \union {NoTask},
         Persist(m, kind, new, base, task)
  PROVE  /\ op' \in [Machine -> Op \union {NoOp}]
         /\ pub' \in [Machine -> Attempt]
         /\ op'[m] # NoOp
         /\ op'[m].kind = kind /\ op'[m].old = head[m] /\ op'[m].new = new
         /\ op'[m].base = base /\ op'[m].task = task
         /\ pub'[m].seen = "none"
         /\ \A n \in Machine : n # m => op'[n] = op[n] /\ pub'[n] = pub[n]
<1> DEFINE o == [kind |-> kind, old |-> head[m], new |-> new, base |-> base,
                 task |-> task, deadline |-> head[m].expires]
           p == [Closed EXCEPT !.pc = "push"]
<1>1. o \in Op
  BY DEF TypeOK, Op, Commit
<1>2. o # NoOp
  BY <1>1, NullsAssumption
<1>3. p \in Attempt /\ p.seen = "none"
  BY DEF Closed, Attempt
<1>4. op' = [op EXCEPT ![m] = o] /\ pub' = [pub EXCEPT ![m] = p]
  BY DEF Persist
<1>5. o.kind = kind /\ o.old = head[m] /\ o.new = new /\ o.base = base /\ o.task = task
  OBVIOUS
<1> HIDE DEF o, p
<1> QED BY <1>1, <1>2, <1>3, <1>4, <1>5 DEF TypeOK

(* The caller gets an answer: its publication is over and nobody else's    *)
(* changes.                                                                *)
LEMMA ReturnTyped ==
  ASSUME TypeOK, NEW m \in Machine, op[m] # NoOp,
         NEW published \in BOOLEAN, NEW saved \in BOOLEAN,
         Return(m, published, saved)
  PROVE  /\ op' = [op EXCEPT ![m] = NoOp]
         /\ pub' = [pub EXCEPT ![m] = Closed]
         /\ op' \in [Machine -> Op \union {NoOp}]
         /\ pub' \in [Machine -> Attempt]
         /\ head' \in [Machine -> Commit]
         /\ mode' \in [Machine -> Mode]
         /\ ack' \in [Machine -> Handled]
         /\ train' \in [Machine -> Work]
         /\ head'[m] \in {Genesis, head[m]} \/ (published /\ head'[m] = op[m].new)
         /\ \/ train'[m] = train[m] \/ train'[m] = NoWork
            \/ /\ op[m].kind \in {"reserve", "integrate"}
               /\ train'[m].phase # "idle" /\ train'[m].task = train[m].task
         /\ \A n \in Machine : n # m => /\ head'[n] = head[n] /\ mode'[n] = mode[n]
                                        /\ ack'[n] = ack[n] /\ train'[n] = train[n]
<1>1. op[m] \in Op /\ op[m].new \in Commit
  BY DEF TypeOK, Op
<1>2. op' = [op EXCEPT ![m] = NoOp] /\ pub' = [pub EXCEPT ![m] = Closed]
  BY DEF Return
<1>3. Closed \in Attempt /\ Genesis \in Commit /\ NoWork \in Work /\ NoWork.phase = "idle"
  BY DEF Closed, Attempt, Genesis, Commit, Stage, NoWork, Work
<1>4. /\ mode' \in [Machine -> Mode]
      /\ \A n \in Machine : n # m => mode'[n] = mode[n]
  BY DEF TypeOK, Return, Mode
<1>5. /\ head' \in [Machine -> Commit]
      /\ head'[m] \in {Genesis, head[m]} \/ (published /\ head'[m] = op[m].new)
      /\ \A n \in Machine : n # m => head'[n] = head[n]
  BY <1>1, <1>3 DEF TypeOK, Return
<1>6. /\ ack' \in [Machine -> Handled]
      /\ \A n \in Machine : n # m => ack'[n] = ack[n]
  <2>1. ack[m] \in Handled
    BY DEF TypeOK
  <2>2. /\ [ack[m] EXCEPT !.outcome = "ok"] \in Handled
        /\ [ack[m] EXCEPT !.outcome = "error"] \in Handled
    BY <2>1 DEF Handled
  <2>3. /\ ack' = [ack EXCEPT ![m] = ack'[m]]
        /\ ack'[m] \in {ack[m], [ack[m] EXCEPT !.outcome = "ok"],
                        [ack[m] EXCEPT !.outcome = "error"]}
    BY DEF TypeOK, Return
  <2> QED BY <2>1, <2>2, <2>3 DEF TypeOK
<1>7. /\ train' \in [Machine -> Work]
      /\ \/ train'[m] = train[m] \/ train'[m] = NoWork
         \/ /\ op[m].kind \in {"reserve", "integrate"}
            /\ train'[m].phase # "idle" /\ train'[m].task = train[m].task
      /\ \A n \in Machine : n # m => train'[n] = train[n]
  <2> DEFINE In(phase) == [train[m] EXCEPT !.phase = phase]
  <2>1. train[m] \in Work
    BY DEF TypeOK
  <2>2. \A phase \in {"reserved", "failed"} :
          In(phase) \in Work /\ In(phase).phase # "idle" /\ In(phase).task = train[m].task
    BY <2>1 DEF Work
  <2>3. train' = [train EXCEPT ![m] = train'[m]]
    BY DEF TypeOK, Return
  <2>4. CASE op[m].kind \in {"reserve", "integrate"}
    <3>1. train'[m] \in {In("reserved"), In("failed"), NoWork}
      BY <2>4 DEF TypeOK, Return
    <3>2. In("reserved") \in Work /\ In("failed") \in Work
      BY <2>2
    <3>3. train'[m] \in Work /\ train \in [Machine -> Work]
      BY <3>1, <3>2, <1>3 DEF TypeOK
    <3>4. train'[m] = NoWork \/ (train'[m].phase # "idle" /\ train'[m].task = train[m].task)
      BY <2>2, <3>1
    <3> HIDE DEF In
    <3> QED BY <2>3, <2>4, <3>3, <3>4
  <2>6. CASE op[m].kind \notin {"reserve", "integrate"}
    <3>1. train'[m] \in {train[m], NoWork}
      BY <2>6 DEF TypeOK, Return
    <3> QED BY <2>1, <2>3, <3>1, <1>3 DEF TypeOK
  <2> QED BY <2>4, <2>6
<1> QED BY <1>1, <1>2, <1>3, <1>4, <1>5, <1>6, <1>7 DEF TypeOK

LEMMA PersistPaired ==
  ASSUME Typed, NEW m \in Machine, NEW kind \in Kind, NEW new \in Commit,
         NEW base \in Main \union {NoMain}, NEW task \in Task \union {NoTask},
         Persist(m, kind, new, base, task),
         base = NoMain \/ task \in Task,
         flight' = flight,
         kind \in {"reserve", "integrate"} => train'[m].task \in Task,
         train'[m].phase # "idle" => train'[m].task \in Task,
         \A n \in Machine : n # m => train'[n] = train[n]
  PROVE  Paired'
<1>1. /\ op'[m] # NoOp /\ op'[m].kind = kind /\ op'[m].base = base /\ op'[m].task = task
      /\ \A n \in Machine : n # m => op'[n] = op[n] /\ pub'[n] = pub[n]
  BY PersistTyped DEF Typed
<1> QED BY <1>1 DEF Typed, Paired, OpShape

LEMMA ReturnPaired ==
  ASSUME Typed, NEW m \in Machine, op[m] # NoOp,
         NEW published \in BOOLEAN, NEW saved \in BOOLEAN,
         Return(m, published, saved), flight' = flight
  PROVE  Paired'
<1> USE DEF Typed
<1>1. /\ op' = [op EXCEPT ![m] = NoOp] /\ pub' = [pub EXCEPT ![m] = Closed]
      /\ \A n \in Machine : n # m => train'[n] = train[n]
      /\ train'[m].phase # "idle" => train'[m].task \in Task
  BY ReturnTyped DEF Paired, NoWork
<1>2. /\ op'[m] = NoOp /\ pub'[m].pc = "none"
      /\ \A n \in Machine : n # m => op'[n] = op[n] /\ pub'[n] = pub[n]
  BY <1>1 DEF TypeOK, Closed
<1> QED BY <1>1, <1>2 DEF Paired

(* Every answer to a caller is a Return; the rest of a publication only    *)
(* moves its attempt on.                                                   *)
Again(m) ==
  /\ pub' = [pub EXCEPT ![m] = pub'[m]]
  /\ pub[m].pc # "none"
  /\ pub'[m] \in Attempt
  /\ UNCHANGED <<op, head, mode, ack, train>>

Answered(m) == \E published, saved \in BOOLEAN : Return(m, published, saved)

LEMMA ConcludeCases ==
  ASSUME TypeOK, NEW m \in Machine, pub[m].pc # "none",
         NEW transient \in BOOLEAN, NEW seen, Conclude(m, transient, seen)
  PROVE  \/ Again(m) /\ pub'[m].seen = pub[m].seen
         \/ \E saved \in BOOLEAN : seen = "new" /\ Return(m, TRUE, saved)
         \/ Return(m, FALSE, FALSE)
<1>1. CASE Succeed(m) /\ seen = "new"
  BY <1>1 DEF Succeed
<1>2. CASE Fail(m)
  BY <1>2 DEF Fail
<1>3. CASE pub' = [pub EXCEPT ![m].pc = "push"] /\ UNCHANGED <<op, head, mode, ack, train>>
  BY <1>3 DEF Again, TypeOK, Attempt
<1> QED BY <1>1, <1>2, <1>3 DEF Conclude

LEMMA PublishingCases ==
  ASSUME Typed, NEW m \in Machine, Publishing(m)
  PROVE  /\ UNCHANGED <<clock, remoteVars, inst, status>>
         /\ op[m] # NoOp
         /\ \/ /\ Again(m)
               /\ flight' \subseteq flight \union {op[m]}
               /\ pub'[m].seen \in {pub[m].seen, "old", "unresolved"}
                    \/ remote = op[m].new
            \/ /\ flight' = flight
               /\ \E published, saved \in BOOLEAN :
                    /\ Return(m, published, saved)
                    /\ published => \/ op[m].new \in landed
                                    \/ remote = op[m].new
                                    \/ pub[m].seen = "new"
<1> USE DEF Typed
<1>1. CASE Push(m)
  <2>1. pub[m].pc = "push" /\ op[m] # NoOp
    BY <1>1 DEF Push, Paired
  <2>2. Again(m) /\ pub'[m].seen = pub[m].seen
    BY <1>1 DEF Push, Again, TypeOK, Attempt, localVars
  <2> QED BY <1>1, <2>1, <2>2 DEF Push, remoteVars, localVars
<1>2. CASE Acknowledged(m)
  BY <1>2 DEF Acknowledged, Succeed, Paired
<1>3. CASE PushFails(m)
  <2>1. pub[m].pc = "await" /\ op[m] # NoOp
    BY <1>3 DEF PushFails, Paired
  <2>2. PICK transient \in BOOLEAN, seen \in {"old", "new", "unresolved"} :
          /\ seen = "new" => remote = op[m].new
          /\ IF op[m].base = NoMain
             THEN Conclude(m, transient, seen)
             ELSE /\ pub' = [pub EXCEPT ![m].pc = "main", ![m].transient = transient,
                                        ![m].seen = seen]
                  /\ UNCHANGED <<op, head, mode, ack, train>>
    BY <1>3 DEF PushFails
  <2>3. CASE op[m].base = NoMain
    BY <1>3, <2>1, <2>2, <2>3, ConcludeCases DEF PushFails
  <2>4. CASE op[m].base # NoMain
    <3>1. Again(m) /\ pub'[m].seen = seen
      BY <2>1, <2>2, <2>4 DEF Again, TypeOK, Attempt
    <3> QED BY <1>3, <2>1, <2>2, <3>1 DEF PushFails
  <2> QED BY <2>3, <2>4
<1>4. CASE ReadMain(m)
  <2>1. pub[m].pc = "main" /\ op[m] # NoOp
    BY <1>4 DEF ReadMain, Paired
  <2>2. PICK seen \in {"old", "new", "unresolved"} :
          Conclude(m, pub[m].transient, IF seen = pub[m].seen THEN seen ELSE "mixed")
    BY <1>4 DEF ReadMain
  <2>3. pub[m].transient \in BOOLEAN
    BY DEF TypeOK, Attempt
  <2> DEFINE both == IF seen = pub[m].seen THEN seen ELSE "mixed"
  <2>4. both = "new" => pub[m].seen = "new"
    OBVIOUS
  <2> HIDE DEF both
  <2>5. \/ Again(m) /\ pub'[m].seen = pub[m].seen
        \/ \E saved \in BOOLEAN : both = "new" /\ Return(m, TRUE, saved)
        \/ Return(m, FALSE, FALSE)
    BY <2>1, <2>2, <2>3, ConcludeCases DEF both
  <2> QED BY <1>4, <2>1, <2>4, <2>5 DEF ReadMain
<1>5. CASE Diverged(m)
  BY <1>5 DEF Diverged, Fail, Paired
<1>6. CASE GiveUp(m)
  BY <1>6 DEF GiveUp, Fail
<1> QED BY <1>1, <1>2, <1>3, <1>4, <1>5, <1>6 DEF Publishing

LEMMA PublishingTyped ==
  ASSUME Typed, NEW m \in Machine, Publishing(m)
  PROVE  Typed'
<1> USE DEF Typed
<1>1. UNCHANGED <<clock, remoteVars, inst, status>> /\ op[m] # NoOp
  BY PublishingCases
<1>2. CASE Again(m) /\ flight' \subseteq flight \union {op[m]}
  <2>1. op[m] \in Op /\ OpShape(op[m])
    BY <1>1 DEF TypeOK, Paired
  <2>2. TypeOK'
    BY <1>1, <1>2, <2>1 DEF TypeOK, Again, remoteVars
  <2>3. \A n \in Machine : n # m => pub'[n] = pub[n]
    BY <1>2 DEF Again, TypeOK
  <2>4. Paired'
    BY <1>1, <1>2, <2>1, <2>3 DEF Again, Paired, OpShape
  <2> QED BY <2>2, <2>4
<1>3. CASE flight' = flight /\ Answered(m)
  <2>1. PICK published, saved \in BOOLEAN : Return(m, published, saved)
    BY <1>3 DEF Answered
  <2>2. TypeOK'
    BY <1>1, <1>3, <2>1, ReturnTyped DEF TypeOK, remoteVars
  <2>3. Paired'
    BY <1>1, <1>3, <2>1, ReturnPaired
  <2> QED BY <2>2, <2>3
<1> QED BY <1>2, <1>3, PublishingCases DEF Answered

(* One step per action. *)
THEOREM TypedStep == Typed /\ [Next]_vars => Typed'
<1> SUFFICES ASSUME Typed, [Next]_vars PROVE Typed'
  OBVIOUS
<1> USE DEF Typed
<1>0. ASSUME NEW m \in Machine
      PROVE  /\ inst[m] \in Nat /\ head[m] \in Commit /\ train[m] \in Work /\ ack[m] \in Handled
             /\ mode[m] \in Mode /\ remote \in Commit /\ main \in Main
             /\ Now(m) \in Nat
             /\ Genesis \in Commit /\ Idle \in Handled /\ NoWork \in Work /\ NoWork.phase = "idle"
             /\ Closed \in Attempt /\ Closed.pc = "none"
  BY ConstantsAssumption DEF TypeOK, Now, Genesis, Commit, Stage, Idle, Handled, NoWork,
     Work, Closed, Attempt
<1>1. ASSUME NEW m \in Machine, Acquire(m) PROVE Typed'
  <2> DEFINE o == [kind |-> "acquire", old |-> remote, new |-> Taken(remote, m, Now(m)),
                   base |-> NoMain, task |-> NoTask, deadline |-> Now(m) + LeaseLen]
             p == [Closed EXCEPT !.pc = "push"]
  <2>1. o \in Op /\ o.kind = "acquire" /\ OpShape(o)
    <3>1. Taken(remote, m, Now(m)) \in Commit
      BY <1>0, TakenFields
    <3>2. Now(m) + LeaseLen \in Nat
      BY <1>0, ConstantsAssumption
    <3> QED BY <1>0, <3>1, <3>2 DEF Op, Kind, OpShape
  <2>2. p \in Attempt
    BY DEF Closed, Attempt
  <2>3. op' = [op EXCEPT ![m] = o] /\ pub' = [pub EXCEPT ![m] = p]
    BY <1>1 DEF Acquire
  <2> HIDE DEF o, p
  <2>4. TypeOK'
    BY <1>1, <1>0, <2>1, <2>2, <2>3 DEF Acquire, TypeOK, Mode, remoteVars, localVars
  <2>5. o # NoOp
    BY <2>1, NullsAssumption
  <2>6. Paired'
    BY <1>1, <2>1, <2>3, <2>5 DEF Acquire, TypeOK, Paired, localVars
  <2> QED BY <2>4, <2>6
<1>2. ASSUME NEW m \in Machine, Publishing(m) PROVE Typed'
  BY <1>2, PublishingTyped
<1>3. ASSUME NEW m \in Machine, Crash(m) PROVE Typed'
  BY <1>3, <1>0 DEF Crash, Down, TypeOK, Mode, Paired, remoteVars
<1>4. ASSUME NEW m \in Machine, Recover(m) PROVE Typed'
  <2>1. CASE Persist(m, "recover", Recovered(head[m], Now(m)), NoMain, NoTask)
              /\ UNCHANGED <<mode, head>>
    <3>1. Recovered(head[m], Now(m)) \in Commit /\ "recover" \in Kind
      BY <1>0, RecoveredFields DEF Follows, Kind
    <3>2. TypeOK'
      BY <1>4, <2>1, <3>1, PersistTyped DEF Recover, TypeOK, remoteVars, localVars
    <3>3. Paired'
      BY <1>4, <2>1, <3>1, PersistPaired DEF Recover, Paired, localVars
    <3> QED BY <3>2, <3>3
  <2>2. CASE UNCHANGED <<op, pub>>
    BY <1>4, <2>2, <1>0 DEF Recover, Down, TypeOK, Mode, Paired, remoteVars, localVars
  <2> QED BY <1>4, <2>1, <2>2 DEF Recover
<1>5. ASSUME NEW m \in Machine, Heartbeat(m) PROVE Typed'
  <2>1. CASE Persist(m, "renew", Extended(head[m], Now(m)), NoMain, NoTask) /\ UNCHANGED mode
    <3>1. Extended(head[m], Now(m)) \in Commit /\ "renew" \in Kind
      BY <1>0, ExtendedFields DEF Follows, Kind
    <3>2. TypeOK'
      BY <1>5, <2>1, <3>1, PersistTyped DEF Heartbeat, TypeOK, remoteVars, localVars
    <3>3. Paired'
      BY <1>5, <2>1, <3>1, PersistPaired DEF Heartbeat, Paired, localVars
    <3> QED BY <3>2, <3>3
  <2>2. CASE UNCHANGED <<op, pub>>
    BY <1>5, <2>2 DEF Heartbeat, Stop, TypeOK, Mode, Paired, remoteVars, localVars
  <2> QED BY <1>5, <2>1, <2>2 DEF Heartbeat
<1>6. ASSUME NEW m \in Machine, NEW c \in Command, TakeCommand(m, c) PROVE Typed'
  <2>0. /\ [ack EXCEPT ![m] = [cmd |-> c, outcome |-> "pending"]] \in [Machine -> Handled]
        /\ [ack EXCEPT ![m] = [cmd |-> c, outcome |-> "error"]] \in [Machine -> Handled]
    BY DEF TypeOK, Handled
  <2>1. CASE Persist(m, "command", Accepted(head[m], c, Now(m)), NoMain, NoTask)
              /\ ack' = [ack EXCEPT ![m] = [cmd |-> c, outcome |-> "pending"]]
              /\ UNCHANGED <<status, mode>>
    <3>1. Accepted(head[m], c, Now(m)) \in Commit /\ "command" \in Kind
      BY <1>0, AcceptedFields DEF Follows, Kind
    <3>2. TypeOK'
      BY <1>6, <2>0, <2>1, <3>1, PersistTyped DEF TakeCommand, TypeOK, remoteVars
    <3>3. Paired'
      BY <1>6, <2>1, <3>1, PersistPaired DEF TakeCommand, Paired
    <3> QED BY <3>2, <3>3
  <2>2. CASE UNCHANGED <<op, pub>>
    BY <1>6, <2>0, <2>2 DEF TakeCommand, Stop, TypeOK, Mode, Paired, remoteVars
  <2> QED BY <1>6, <2>1, <2>2 DEF TakeCommand
<1>7. ASSUME NEW m \in Machine, AckCommand(m) PROVE Typed'
  <2>1. TypeOK'
    BY <1>7, <1>0 DEF AckCommand, Stop, TypeOK, Mode, remoteVars
  <2> QED BY <1>7, <2>1 DEF AckCommand, Paired
<1>8. ASSUME NEW m \in Machine, NEW t \in Task, Reserve(m, t) PROVE Typed'
  <2> DEFINE w == [task |-> t, base |-> main, phase |-> "reserving"]
  <2>1. w \in Work /\ w.task = t
    BY <1>0 DEF Work
  <2>2. train' = [train EXCEPT ![m] = w]
    BY <1>8 DEF Reserve
  <2> HIDE DEF w
  <2>3. train' \in [Machine -> Work] /\ train'[m].task = t
          /\ \A n \in Machine : n # m => train'[n] = train[n]
    BY <2>1, <2>2 DEF TypeOK
  <2>4. Staged(head[m], t, "MERGE_TRAIN", Now(m)) \in Commit /\ "reserve" \in Kind
    BY <1>0, StagedFields DEF Follows, Kind, Stage
  <2>5. Persist(m, "reserve", Staged(head[m], t, "MERGE_TRAIN", Now(m)), NoMain, t)
    BY <1>8 DEF Reserve
  <2>6. TypeOK'
    BY <1>8, <2>3, <2>4, <2>5, PersistTyped DEF Reserve, TypeOK, remoteVars
  <2>7. Paired'
    BY <1>8, <2>3, <2>4, <2>5, PersistPaired DEF Reserve
  <2> QED BY <2>6, <2>7
<1>9. ASSUME NEW m \in Machine, Integrate(m) PROVE Typed'
  <2> DEFINE t == train[m].task
             at(phase) == [train[m] EXCEPT !.phase = phase]
  <2>1. t \in Task /\ train[m].base \in Main \union {NoMain}
    BY <1>9, <1>0 DEF Integrate, Paired, Work
  <2>2. at("publishing") \in Work /\ at("publishing").task = t
          /\ at("failed") \in Work /\ at("failed").task = t
    BY <1>0 DEF Work
  <2>3. CASE /\ Persist(m, "integrate", Integrated(head[m], t, Now(m)), train[m].base, t)
             /\ train' = [train EXCEPT ![m].phase = "publishing"]
    <3>1. train' = [train EXCEPT ![m] = at("publishing")]
      BY <2>3
    <3> HIDE DEF at
    <3>2. train' \in [Machine -> Work] /\ train'[m].task = t
            /\ \A n \in Machine : n # m => train'[n] = train[n]
      BY <2>2, <3>1 DEF TypeOK
    <3>3. Integrated(head[m], t, Now(m)) \in Commit /\ "integrate" \in Kind
      BY <1>0, <2>1, IntegratedFields DEF Follows, Kind
    <3> HIDE DEF t
    <3>4. TypeOK'
      <4>1. op' \in [Machine -> Op \union {NoOp}] /\ pub' \in [Machine -> Attempt]
        BY <2>1, <2>3, <3>3, PersistTyped
      <4> QED BY <1>9, <2>3, <3>2, <4>1 DEF Integrate, TypeOK, remoteVars
    <3>5. Paired'
      BY <1>9, <2>1, <2>3, <3>2, <3>3, PersistPaired DEF Integrate
    <3> QED BY <3>4, <3>5
  <2>4. CASE train' = [train EXCEPT ![m].phase = "failed"] /\ UNCHANGED <<op, pub>>
    <3>1. train' = [train EXCEPT ![m] = at("failed")]
      BY <2>4
    <3> HIDE DEF at
    <3>2. train' \in [Machine -> Work] /\ train'[m].task = t
            /\ \A n \in Machine : n # m => train'[n] = train[n]
      BY <2>2, <3>1 DEF TypeOK
    <3>3. TypeOK'
      BY <1>9, <2>4, <3>2 DEF Integrate, TypeOK, remoteVars
    <3>4. Paired'
      BY <1>9, <2>1, <2>4, <3>2 DEF Integrate, Paired
    <3> QED BY <3>3, <3>4
  <2> QED BY <1>9, <2>3, <2>4 DEF Integrate
<1>10. ASSUME NEW m \in Machine, Reload(m) PROVE Typed'
  <2> DEFINE t == train[m].task
             w == [train[m] EXCEPT !.phase = "settling"]
  <2>1. t \in Task
    BY <1>10, <1>0 DEF Reload, Paired, Work
  <2>2. w \in Work /\ w.task = t
    BY <1>0 DEF Work
  <2>3. ASSUME NEW kind \in {"demote", "block"}, NEW s \in {"SYNC_REQUIRED", "BLOCKED_HUMAN"},
               Persist(m, kind, Staged(head[m], t, s, Now(m)), NoMain, t),
               train' = [train EXCEPT ![m].phase = "settling"], UNCHANGED mode
        PROVE  Typed'
    <3>1. train' = [train EXCEPT ![m] = w]
      BY <2>3
    <3> HIDE DEF w
    <3>2. train' \in [Machine -> Work] /\ train'[m].task = t
            /\ \A n \in Machine : n # m => train'[n] = train[n]
      BY <2>2, <3>1 DEF TypeOK
    <3>3. Staged(head[m], t, s, Now(m)) \in Commit /\ kind \in Kind
            /\ kind \notin {"reserve", "integrate"}
      BY <1>0, <2>1, <2>3, StagedFields DEF Follows, Kind, Stage
    <3> HIDE DEF t
    <3>4. TypeOK'
      <4>1. op' \in [Machine -> Op \union {NoOp}] /\ pub' \in [Machine -> Attempt]
        BY <2>1, <2>3, <3>3, PersistTyped
      <4> QED BY <1>10, <2>3, <3>2, <4>1 DEF Reload, TypeOK, remoteVars
    <3>5. Paired'
      BY <1>10, <2>1, <2>3, <3>2, <3>3, PersistPaired DEF Reload
    <3> QED BY <3>4, <3>5
  <2>4. CASE Stop(m) /\ train' = [train EXCEPT ![m] = NoWork] /\ UNCHANGED <<op, pub>>
    <3>1. op[m] = NoOp
      BY <1>10 DEF Reload
    <3> QED BY <1>10, <2>4, <3>1, <1>0 DEF Reload, Stop, TypeOK, Mode, Paired, remoteVars
  <2> QED BY <1>10, <2>3, <2>4 DEF Reload
<1>11. ASSUME NEW m \in Machine, StopRequested(m) PROVE Typed'
  BY <1>11 DEF StopRequested, TypeOK, Mode, Paired, remoteVars, localVars
<1>12. ASSUME NEW m \in Machine, Release(m) PROVE Typed'
  <2>0. /\ train' \in [Machine -> Work] /\ train'[m] = NoWork /\ op[m] = NoOp
        /\ \A n \in Machine : n # m => train'[n] = train[n]
    BY <1>12, <1>0 DEF Release, TypeOK
  <2>1. CASE Persist(m, "release", Released(head[m], Now(m)), NoMain, NoTask)
              /\ UNCHANGED <<mode, head>>
    <3>1. Released(head[m], Now(m)) \in Commit /\ "release" \in Kind
      BY <1>0, ReleasedFields DEF Kind
    <3>2. TypeOK'
      BY <1>12, <2>0, <2>1, <3>1, PersistTyped DEF Release, TypeOK, remoteVars
    <3>3. Paired'
      BY <1>12, <1>0, <2>0, <2>1, <3>1, PersistPaired DEF Release
    <3> QED BY <3>2, <3>3
  <2>2. CASE Down(m) /\ UNCHANGED <<op, pub>>
    BY <1>12, <2>0, <2>2, <1>0 DEF Release, Down, TypeOK, Mode, Paired, remoteVars
  <2> QED BY <1>12, <2>1, <2>2 DEF Release
<1>13. ASSUME NEW m \in Machine, Exit(m) PROVE Typed'
  BY <1>13, <1>0 DEF Exit, Down, TypeOK, Mode, Paired, remoteVars
<1>14. ASSUME NEW o \in flight, Land(o) PROVE Typed'
  <2>1. o \in Op /\ OpShape(o) /\ o.new \in Commit /\ flight' \subseteq flight
    BY <1>14 DEF Land, TypeOK, Paired, Op
  <2>2. o.base # NoMain => o.base \in Main /\ o.task \in Task
    BY <2>1 DEF Op, OpShape
  <2>3. o.base # NoMain => Merged(o) \in Main
    BY <2>2 DEF Merged, Main
  <2>4. TypeOK'
    BY <1>14, <2>1, <2>3 DEF Land, TypeOK, localVars
  <2>5. Paired'
    BY <1>14, <2>1 DEF Land, Paired, localVars
  <2> QED BY <2>4, <2>5
<1>15. ASSUME NEW c \in Command, Submit(c) PROVE Typed'
  BY <1>15 DEF Submit, TypeOK, Paired, remoteVars
<1>16. CASE Tick
  BY <1>16 DEF Tick, TypeOK, Paired, remoteVars, localVars
<1>17. CASE ExternalPush
  <2>1. main' \in Main
    BY <1>17 DEF ExternalPush, TypeOK, Main
  <2> QED BY <1>17, <2>1 DEF ExternalPush, TypeOK, Paired, localVars
<1>18. CASE UNCHANGED vars
  BY <1>18 DEF vars, TypeOK, Paired, remoteVars, localVars
<1> QED BY <1>1, <1>2, <1>3, <1>4, <1>5, <1>6, <1>7, <1>8, <1>9, <1>10, <1>11, <1>12,
           <1>13, <1>14, <1>15, <1>16, <1>17, <1>18 DEF Next, Serving

THEOREM TypedInit == Init => Typed
<1> SUFFICES ASSUME Init PROVE Typed
  OBVIOUS
<1>1. Genesis \in Commit
  BY DEF Genesis, Commit, Stage
<1>2. Closed \in Attempt /\ Idle \in Handled /\ NoWork \in Work
  BY DEF Closed, Attempt, Idle, Handled, NoWork, Work
<1>3. TypeOK
  BY <1>1, <1>2 DEF Init, TypeOK, Mode, Main
<1> QED BY <1>3 DEF Init, Typed, Paired, Closed, NoWork

(* Every variable keeps its type: no publication, crash or lost answer     *)
(* leaves a supervisor with a record of the wrong shape.                   *)
THEOREM TypeCorrect == Spec => []TypeOK
<1>1. Spec => []Typed
  BY TypedInit, TypedStep, PTL DEF Spec
<1> QED BY <1>1, PTL DEF Typed
=============================================================================
