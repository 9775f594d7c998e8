------------------------ MODULE ControllerLeaseSafety ------------------------
(***************************************************************************)
(* Safety of ControllerLease.  The inductive invariant says of every       *)
(* commit that ever was the head of aih-state that its owner is finished   *)
(* (its lease ran out on some clock, with the grace, or it is giving the   *)
(* lease back or is gone) or still holds the authority under a lease at    *)
(* least as long; and of every publication, sent or not, what it may       *)
(* change.                                                                 *)
(***************************************************************************)
EXTENDS ControllerLeaseProofs

Gone(w) ==
  \/ w[2] < inst[w[1]]
  \/ w[2] = inst[w[1]] /\ (mode[w[1]] = "down" \/ Releasing(w[1]))

Over(c) == (\E n \in Machine : c.expires + Grace <= Now(n)) \/ Gone(c.owner)

Contains(d, c) ==
  c.depth <= d.depth /\ c.applied \subseteq d.applied /\ c.merged \subseteq d.merged

TakeoverOp(o) ==
  /\ o.kind = "acquire"
  /\ o.new.owner \in Owner
  /\ o.old.owner = NoOwner \/ o.old.expires + Grace <= Now(o.new.owner[1])

ReleaseOp(o) ==
  /\ o.kind = "release"
  /\ o.new.owner = NoOwner
  /\ o.new.epoch = o.old.epoch
  /\ o.old.owner \in Owner /\ Gone(o.old.owner)

OwnOp(o) ==
  /\ o.kind \notin {"acquire", "release"}
  /\ o.new.owner = o.old.owner
  /\ o.new.epoch = o.old.epoch
  /\ o.old.expires <= o.new.expires

Sound(o) == Contains(o.new, o.old) /\ (TakeoverOp(o) \/ ReleaseOp(o) \/ OwnOp(o))

History ==
  /\ Genesis \in landed /\ remote \in landed
  /\ \A c \in landed :
       /\ Contains(remote, c)
       /\ \/ c.owner = NoOwner
          \/ Over(c)
          \/ remote.owner = c.owner /\ c.expires <= remote.expires

Publications ==
  /\ \A o \in flight : Sound(o)
  /\ \A m \in Machine :
       /\ op[m] # NoOp => Sound(op[m]) /\ op[m].new.expires <= Now(m) + LeaseLen
       /\ pub[m].seen = "new" => op[m].new \in landed

Cached ==
  \A m \in Machine :
    /\ head[m] \in landed
    /\ head[m].expires <= Now(m) + LeaseLen
    /\ mode[m] = "down" => head[m] = Genesis /\ op[m] = NoOp

Commands ==
  /\ \A m \in Machine :
       /\ op[m] # NoOp /\ op[m].kind = "command" =>
            ack[m].outcome = "pending" /\ ack[m].cmd \in op[m].new.applied
       /\ ack[m].outcome = "ok" => ack[m].cmd \in remote.applied
  /\ \A c \in Command : status[c] = "accepted" => c \in remote.applied

Inductive == History /\ Publications /\ Cached /\ Commands

-----------------------------------------------------------------------------
(* Time, starts and the end of a supervisor go one way.                    *)
Later ==
  /\ clock' >= clock
  /\ \A m \in Machine :
       /\ inst'[m] >= inst[m]
       /\ mode[m] = "down" \/ Releasing(m) =>
            inst'[m] > inst[m] \/ mode'[m] = "down" \/ Releasing(m)'

LEMMA NowLater ==
  ASSUME TypeOK, TypeOK', Later, NEW m \in Machine
  PROVE  Now(m) \in Nat /\ Now(m)' \in Nat /\ Now(m) <= Now(m)'
  BY ConstantsAssumption DEF TypeOK, Later, Now

LEMMA GoneStable ==
  ASSUME TypeOK, TypeOK', Later, NEW w \in Owner, Gone(w)
  PROVE  Gone(w)'
<1>1. PICK m \in Machine, i \in Nat : w = <<m, i>>
  BY DEF Owner
<1>2. w[1] = m /\ w[2] = i
  BY <1>1
<1>3. inst[m] \in Nat /\ inst'[m] \in Nat
  BY DEF TypeOK
<1> QED BY <1>2, <1>3 DEF Gone, Later

LEMMA OverStable ==
  ASSUME TypeOK, TypeOK', Later, NEW c \in Commit, c.owner # NoOwner, Over(c)
  PROVE  Over(c)'
<1>1. c.owner \in Owner /\ c.expires + Grace \in Nat
  BY ConstantsAssumption DEF Commit
<1>2. CASE Gone(c.owner)
  BY <1>1, <1>2, GoneStable DEF Over
<1>3. ASSUME NEW n \in Machine, c.expires + Grace <= Now(n) PROVE Over(c)'
  <2>1. c.expires + Grace <= Now(n)'
    BY <1>1, <1>3, NowLater
  <2> QED BY <2>1 DEF Over
<1> QED BY <1>2, <1>3 DEF Over

LEMMA SoundStable ==
  ASSUME TypeOK, TypeOK', Later, NEW o \in Op, Sound(o)
  PROVE  Sound(o)'
<1>1. o.old.expires + Grace \in Nat
  BY ConstantsAssumption DEF Op, Commit
<1>2. Contains(o.new, o.old)'
  BY DEF Sound, Contains
<1>3. CASE TakeoverOp(o)
  <2>1. o.new.owner[1] \in Machine
    BY <1>3 DEF TakeoverOp, Owner
  <2>2. o.old.owner = NoOwner \/ o.old.expires + Grace <= Now(o.new.owner[1])'
    BY <1>1, <1>3, <2>1, NowLater DEF TakeoverOp
  <2> QED BY <1>2, <1>3, <2>2 DEF Sound, TakeoverOp
<1>4. CASE ReleaseOp(o)
  BY <1>2, <1>4, GoneStable DEF Sound, ReleaseOp
<1>5. CASE OwnOp(o)
  BY <1>2, <1>5 DEF Sound, OwnOp
<1> QED BY <1>3, <1>4, <1>5 DEF Sound

LEMMA ContainsTransitive ==
  ASSUME NEW c \in Commit, NEW d \in Commit, NEW e \in Commit,
         Contains(d, c), Contains(e, d)
  PROVE  Contains(e, c)
  BY DEF Contains, Commit

-----------------------------------------------------------------------------
(***************************************************************************)
(* A step of one machine that leaves the remote refs alone: what may       *)
(* happen to its publication, to its cached head and to its command.       *)
(***************************************************************************)
OpStep(m) ==
  \/ /\ op'[m] = op[m]
     /\ pub'[m].seen = "new" => pub[m].seen = "new" \/ op[m].new \in landed
  \/ op'[m] = NoOp /\ pub'[m].seen = "none"
  \/ /\ op'[m] # NoOp /\ pub'[m].seen = "none"
     /\ Sound(op[m])' /\ op'[m].new.expires <= Now(m) + LeaseLen

HeadStep(m) ==
  /\ \/ head'[m] \in {head[m], Genesis}
     \/ op[m] # NoOp /\ op[m].new \in landed /\ head'[m] = op[m].new
  /\ mode'[m] = "down" =>
       \/ mode[m] = "down" /\ head'[m] = head[m] /\ op'[m] = op[m]
       \/ head'[m] = Genesis /\ op'[m] = NoOp

CommandStep(m) ==
  /\ op'[m] # NoOp /\ op'[m].kind = "command" =>
       \/ op'[m] = op[m] /\ ack'[m] = ack[m]
       \/ ack'[m].outcome = "pending" /\ ack'[m].cmd \in op'[m].new.applied
  /\ ack'[m].outcome = "ok" => ack'[m] = ack[m] \/ ack'[m].cmd \in remote.applied

LocalStep(m) == OpStep(m) /\ HeadStep(m) /\ CommandStep(m)

(* Machine n is not the one that acts. *)
Quiet(n) ==
  /\ op'[n] = op[n] /\ pub'[n] = pub[n] /\ head'[n] = head[n]
  /\ mode'[n] = mode[n] /\ ack'[n] = ack[n]

LEMMA LocalStepSafe ==
  ASSUME Typed, TypeOK', Inductive, Later,
         UNCHANGED <<remote, landed>>,
         \A o \in flight' : o \in flight \/ \E n \in Machine : op[n] # NoOp /\ o = op[n],
         \A n \in Machine : Quiet(n) \/ LocalStep(n),
         \A c \in Command : status'[c] = "accepted" =>
                              status[c] = "accepted" \/ c \in remote.applied
  PROVE  Inductive'
<1> USE DEF Typed
<1>1. History'
  <2>1. ASSUME NEW c \in landed
        PROVE  \/ c.owner = NoOwner
               \/ Over(c)'
               \/ remote.owner = c.owner /\ c.expires <= remote.expires
    <3>1. c \in Commit
      BY DEF TypeOK
    <3> QED BY <3>1, OverStable DEF Inductive, History
  <2> QED BY <2>1 DEF Inductive, History, Contains
<1>2. ASSUME NEW m \in Machine
      PROVE  /\ op'[m] # NoOp => Sound(op[m])' /\ op'[m].new.expires <= Now(m)' + LeaseLen
             /\ pub'[m].seen = "new" => op'[m].new \in landed'
  <2>1. Now(m) <= Now(m)' /\ Now(m) \in Nat /\ Now(m)' \in Nat /\ LeaseLen \in Nat
    BY NowLater, ConstantsAssumption
  <2>2. op'[m] # NoOp => op'[m] \in Op /\ op'[m].new.expires \in Nat
    BY DEF TypeOK, Op, Commit
  <2>3. CASE op'[m] = op[m]
              /\ (pub'[m].seen = "new" => pub[m].seen = "new" \/ op[m].new \in landed)
    <3>1. op[m] # NoOp => Sound(op[m])'
      BY <2>2, <2>3, SoundStable DEF Inductive, Publications
    <3> QED BY <2>1, <2>2, <2>3, <3>1 DEF Inductive, Publications
  <2>4. CASE op'[m] = NoOp /\ pub'[m].seen = "none"
    BY <2>4
  <2>5. CASE /\ op'[m] # NoOp /\ pub'[m].seen = "none"
             /\ Sound(op[m])' /\ op'[m].new.expires <= Now(m) + LeaseLen
    BY <2>1, <2>2, <2>5
  <2> QED BY <2>3, <2>4, <2>5 DEF LocalStep, OpStep, Quiet
<1>3. Publications'
  <2>1. ASSUME NEW o \in flight' PROVE Sound(o)'
    <3>1. o \in Op /\ Sound(o)
      BY DEF TypeOK, Inductive, Publications
    <3> QED BY <3>1, SoundStable
  <2>2. \A m \in Machine :
          /\ (op[m] # NoOp => Sound(op[m]) /\ op[m].new.expires <= Now(m) + LeaseLen)'
          /\ (pub[m].seen = "new" => op[m].new \in landed)'
    BY <1>2 DEF Now
  <2> QED BY <2>1, <2>2 DEF Publications
<1>4. Cached'
  <2>1. ASSUME NEW m \in Machine
        PROVE  /\ head'[m] \in landed'
               /\ head'[m].expires <= Now(m)' + LeaseLen
               /\ mode'[m] = "down" => head'[m] = Genesis /\ op'[m] = NoOp
    <3>1. Now(m) <= Now(m)' /\ Now(m) \in Nat /\ Now(m)' \in Nat /\ LeaseLen \in Nat
      BY NowLater, ConstantsAssumption
    <3>2. head[m].expires \in Nat /\ Genesis.expires = 0
      BY DEF TypeOK, Commit, Genesis
    <3>3. op[m] # NoOp => op[m].new.expires \in Nat
      BY DEF TypeOK, Op, Commit
    <3>4. head'[m] \in landed'
      BY DEF LocalStep, HeadStep, Quiet, Inductive, Cached, History
    <3>5. head'[m].expires <= Now(m)' + LeaseLen
      <4>1. CASE head'[m] \in {head[m], Genesis}
        BY <3>1, <3>2, <4>1 DEF Inductive, Cached
      <4>2. CASE op[m] # NoOp /\ head'[m] = op[m].new
        BY <3>1, <3>3, <4>2 DEF Inductive, Publications
      <4> QED BY <4>1, <4>2 DEF LocalStep, HeadStep, Quiet
    <3>6. mode'[m] = "down" => head'[m] = Genesis /\ op'[m] = NoOp
      BY DEF LocalStep, HeadStep, Quiet, Inductive, Cached
    <3> QED BY <3>4, <3>5, <3>6
  <2> QED BY <2>1 DEF Cached
<1>5. Commands'
  BY DEF Inductive, Commands, LocalStep, CommandStep, Quiet
<1> QED BY <1>1, <1>3, <1>4, <1>5 DEF Inductive

(* The two ways an action of a machine touches its publication.            *)
LEMMA PersistLocal ==
  ASSUME Typed, Inductive, NEW m \in Machine,
         NEW kind \in Kind \ {"acquire", "release"},
         NEW new, Follows(head[m], new, Now(m)), Contains(new, head[m]),
         NEW base \in Main \union {NoMain}, NEW task \in Task \union {NoTask},
         Persist(m, kind, new, base, task),
         head'[m] = head[m], mode'[m] = mode[m], mode[m] # "down",
         IF kind = "command"
         THEN ack'[m].outcome = "pending" /\ ack'[m].cmd \in new.applied
         ELSE ack'[m] = ack[m]
  PROVE  LocalStep(m)
<1>1. new \in Commit
  BY DEF Follows
<1>2. /\ op'[m] # NoOp /\ op'[m].kind = kind /\ op'[m].old = head[m] /\ op'[m].new = new
      /\ pub'[m].seen = "none"
  BY <1>1, PersistTyped DEF Typed
<1>3. OwnOp(op[m])'
  BY <1>2 DEF OwnOp, Follows, Inductive, Cached
<1>4. OpStep(m)
  <2>1. Now(m) \in Nat /\ LeaseLen \in Nat
    BY ConstantsAssumption DEF Typed, TypeOK, Now
  <2>2. Contains(op[m].new, op[m].old)'
    BY <1>2 DEF Contains
  <2>3. op'[m].new.expires <= Now(m) + LeaseLen
    BY <1>2, <2>1 DEF Follows
  <2> QED BY <1>2, <1>3, <2>2, <2>3 DEF OpStep, Sound
<1>5. HeadStep(m)
  BY DEF HeadStep
<1>6. CommandStep(m)
  BY <1>2 DEF CommandStep
<1> QED BY <1>4, <1>5, <1>6 DEF LocalStep

LEMMA ReturnLocal ==
  ASSUME Typed, Inductive, NEW m \in Machine, op[m] # NoOp,
         NEW published \in BOOLEAN, NEW saved \in BOOLEAN,
         Return(m, published, saved), published => op[m].new \in landed
  PROVE  LocalStep(m) /\ \A n \in Machine : n # m => Quiet(n)
<1> USE DEF Typed
<1>1. op'[m] = NoOp /\ pub'[m].seen = "none"
  BY DEF Return, TypeOK, Closed
<1>2. mode[m] # "down"
  BY DEF Inductive, Cached
<1>3. HeadStep(m)
  <2>1. head'[m] \in {Genesis, head[m]} \/ (op[m].new \in landed /\ head'[m] = op[m].new)
    BY ReturnTyped
  <2>2. mode'[m] = "down" => head'[m] = Genesis
    BY <1>2 DEF Return, TypeOK
  <2> QED BY <1>1, <2>1, <2>2 DEF HeadStep
<1>4. CommandStep(m)
  <2>1. CASE ack'[m] = ack[m]
    BY <1>1, <2>1 DEF CommandStep
  <2>2. CASE ack'[m] # ack[m]
    <3>1. op[m].kind = "command"
      BY <2>2 DEF Return, TypeOK
    <3>2. /\ ack'[m].cmd = ack[m].cmd
          /\ ack'[m].outcome = "ok" => published
      BY <3>1 DEF Return, TypeOK, Handled
    <3>3. ack[m].cmd \in op[m].new.applied
      BY <3>1 DEF Inductive, Commands
    <3>4. op[m].new \in landed => op[m].new.applied \subseteq remote.applied
      BY DEF Inductive, History, Contains
    <3> QED BY <1>1, <3>2, <3>3, <3>4 DEF CommandStep
  <2> QED BY <2>1, <2>2
<1>5. ASSUME NEW n \in Machine, n # m PROVE Quiet(n)
  BY <1>5 DEF Return, Quiet, TypeOK
<1> QED BY <1>1, <1>3, <1>4, <1>5 DEF LocalStep, OpStep

LEMMA PersistQuiet ==
  ASSUME Typed, NEW m \in Machine, NEW kind, NEW new, NEW base, NEW task,
         Persist(m, kind, new, base, task), NEW n \in Machine, n # m
  PROVE  op'[n] = op[n] /\ pub'[n] = pub[n]
  BY DEF Persist, Typed, TypeOK

-----------------------------------------------------------------------------
LEMMA StepLater ==
  ASSUME Typed, Typed', Inductive, [Next]_vars
  PROVE  Later
<1> USE DEF Typed
<1>1. ASSUME UNCHANGED <<clock, inst>>,
             \A m \in Machine : mode[m] = "down" => mode'[m] = "down",
             \A m \in Machine : Releasing(m) => mode'[m] = "down" \/ op'[m] = op[m]
      PROVE  Later
  BY <1>1 DEF Later, Releasing, TypeOK
<1>2. ASSUME NEW m \in Machine, Acquire(m) PROVE Later
  BY <1>2 DEF Acquire, Later, Releasing, TypeOK
<1>3. ASSUME NEW m \in Machine, Publishing(m) PROVE Later
  <2>1. UNCHANGED <<clock, inst>> /\ op[m] # NoOp
    BY <1>3, PublishingCases
  <2>2. CASE Again(m)
    BY <1>1, <2>1, <2>2 DEF Again
  <2>3. ASSUME NEW published \in BOOLEAN, NEW saved \in BOOLEAN, Return(m, published, saved)
        PROVE  Later
    <3>1. mode[m] # "down"
      BY <2>1 DEF Inductive, Cached
    <3>2. Releasing(m) => mode'[m] = "down"
      BY <2>3 DEF Releasing, Return, TypeOK
    <3>3. \A n \in Machine : n # m => mode'[n] = mode[n] /\ op'[n] = op[n]
      BY <2>3 DEF Return, TypeOK
    <3> QED BY <1>1, <2>1, <3>1, <3>2, <3>3
  <2> QED BY <1>3, <2>2, <2>3, PublishingCases
<1>4. ASSUME NEW m \in Machine, Crash(m) PROVE Later
  BY <1>1, <1>4 DEF Crash, Down, TypeOK
<1>5. ASSUME NEW m \in Machine, op[m] = NoOp,
             UNCHANGED <<clock, inst>>,
             mode[m] # "down" \/ mode'[m] = "down",
             \A n \in Machine : n # m => op'[n] = op[n] /\ mode'[n] = mode[n]
      PROVE  Later
  BY <1>1, <1>5 DEF Releasing
<1>6. ASSUME NEW m \in Machine, Recover(m) PROVE Later
  BY <1>5, <1>6 DEF Recover, Persist, Down, TypeOK
<1>7. ASSUME NEW m \in Machine, Heartbeat(m) PROVE Later
  BY <1>5, <1>7 DEF Heartbeat, Persist, Stop, TypeOK
<1>8. ASSUME NEW m \in Machine, NEW c \in Command, TakeCommand(m, c) PROVE Later
  BY <1>5, <1>8 DEF TakeCommand, Persist, Stop, TypeOK
<1>9. ASSUME NEW m \in Machine, AckCommand(m) PROVE Later
  BY <1>1, <1>9 DEF AckCommand, Stop, TypeOK
<1>10. ASSUME NEW m \in Machine, NEW t \in Task, Reserve(m, t) PROVE Later
  BY <1>5, <1>10 DEF Reserve, Persist, TypeOK
<1>11. ASSUME NEW m \in Machine, Integrate(m) PROVE Later
  BY <1>5, <1>11 DEF Integrate, Persist, TypeOK
<1>12. ASSUME NEW m \in Machine, Reload(m) PROVE Later
  BY <1>5, <1>12 DEF Reload, Persist, Stop, TypeOK
<1>13. ASSUME NEW m \in Machine, StopRequested(m) PROVE Later
  BY <1>1, <1>13 DEF StopRequested, TypeOK
<1>14. ASSUME NEW m \in Machine, Release(m) PROVE Later
  BY <1>5, <1>14 DEF Release, Persist, Down, TypeOK
<1>15. ASSUME NEW m \in Machine, Exit(m) PROVE Later
  BY <1>5, <1>15 DEF Exit, Down, TypeOK
<1>16. ASSUME NEW o \in flight, Land(o) PROVE Later
  BY <1>1, <1>16 DEF Land
<1>17. ASSUME NEW c \in Command, Submit(c) PROVE Later
  BY <1>1, <1>17 DEF Submit
<1>18. CASE Tick
  BY <1>18 DEF Tick, Later, Releasing, TypeOK
<1>19. CASE ExternalPush
  BY <1>1, <1>19 DEF ExternalPush
<1>20. CASE UNCHANGED vars
  BY <1>1, <1>20 DEF vars
<1> QED BY <1>2, <1>3, <1>4, <1>6, <1>7, <1>8, <1>9, <1>10, <1>11, <1>12, <1>13, <1>14,
           <1>15, <1>16, <1>17, <1>18, <1>19, <1>20 DEF Next, Serving

-----------------------------------------------------------------------------
(* What a controller publishes contains what it published before.          *)
LEMMA OwnSnapshots ==
  ASSUME Typed, NEW m \in Machine
  PROVE  LET h == head[m]
             now == Now(m)
         IN  /\ Follows(h, Extended(h, now), now) /\ Contains(Extended(h, now), h)
             /\ Follows(h, Recovered(h, now), now) /\ Contains(Recovered(h, now), h)
             /\ \A c \in Command : /\ Follows(h, Accepted(h, c, now), now)
                                   /\ Contains(Accepted(h, c, now), h)
                                   /\ c \in Accepted(h, c, now).applied
             /\ \A t \in Task : /\ Follows(h, Integrated(h, t, now), now)
                                /\ Contains(Integrated(h, t, now), h)
             /\ \A t \in Task : \A s \in Stage : /\ Follows(h, Staged(h, t, s, now), now)
                                                 /\ Contains(Staged(h, t, s, now), h)
<1> DEFINE h == head[m]
           now == Now(m)
<1>1. h \in Commit /\ now \in Nat
  BY ConstantsAssumption DEF Typed, TypeOK, Now
<1> HIDE DEF h, now
<1>2. h.depth \in Nat
  BY <1>1 DEF Commit
<1>3. ASSUME NEW k, Follows(h, k, now), h.applied \subseteq k.applied, h.merged \subseteq k.merged
      PROVE  Contains(k, h)
  BY <1>2, <1>3 DEF Follows, Contains
<1>4. Follows(h, Extended(h, now), now) /\ Contains(Extended(h, now), h)
  BY <1>1, <1>3, ExtendedFields DEF SameContent
<1>5. Follows(h, Recovered(h, now), now) /\ Contains(Recovered(h, now), h)
  BY <1>1, <1>3, RecoveredFields DEF SameContent
<1>6. ASSUME NEW c \in Command
      PROVE  /\ Follows(h, Accepted(h, c, now), now) /\ Contains(Accepted(h, c, now), h)
             /\ c \in Accepted(h, c, now).applied
  <2>1. /\ Follows(h, Accepted(h, c, now), now)
        /\ Accepted(h, c, now).applied = h.applied \union {c}
        /\ Accepted(h, c, now).merged = h.merged
    BY <1>1, AcceptedFields
  <2> QED BY <1>3, <2>1
<1>7. ASSUME NEW t \in Task
      PROVE  Follows(h, Integrated(h, t, now), now) /\ Contains(Integrated(h, t, now), h)
  <2>1. /\ Follows(h, Integrated(h, t, now), now)
        /\ Integrated(h, t, now).applied = h.applied
        /\ Integrated(h, t, now).merged = h.merged \union {t}
    BY <1>1, IntegratedFields
  <2> QED BY <1>3, <2>1
<1>8. ASSUME NEW t \in Task, NEW s \in Stage
      PROVE  Follows(h, Staged(h, t, s, now), now) /\ Contains(Staged(h, t, s, now), h)
  <2>1. /\ Follows(h, Staged(h, t, s, now), now)
        /\ SameContent(h, Staged(h, t, s, now))
    BY <1>1, StagedFields
  <2> QED BY <1>3, <2>1 DEF SameContent
<1> QED BY <1>4, <1>5, <1>6, <1>7, <1>8 DEF h, now

(* A push that lands carries the history on: whoever held the authority    *)
(* under another owner is over.                                            *)
LEMMA LandHistory ==
  ASSUME Typed, Typed', Inductive, Later, NEW o \in flight, Land(o)
  PROVE  History'
<1> USE DEF Typed
<1>1. /\ o \in Op /\ o.old \in Commit /\ o.new \in Commit /\ remote = o.old
      /\ remote' = o.new /\ landed' = landed \union {o.new} /\ clock' = clock
      /\ Sound(o)
  BY DEF Land, Current, TypeOK, Op, Inductive, Publications
<1>2. Contains(o.new, o.old)
  BY <1>1 DEF Sound
<1>3. Contains(o.new, o.new)
  BY <1>1 DEF Contains, Commit
<1>4. ASSUME NEW c \in landed PROVE Contains(o.new, c)
  <2>1. c \in Commit /\ Contains(o.old, c)
    BY <1>1 DEF TypeOK, Inductive, History
  <2> QED BY <1>1, <1>2, <2>1, ContainsTransitive
<1>5. ASSUME NEW c \in landed, c.owner # NoOwner, ~Over(c)
      PROVE  Over(c)' \/ (o.new.owner = c.owner /\ c.expires <= o.new.expires)
  <2>1. /\ c \in Commit /\ c.owner \in Owner /\ c.expires \in Nat
        /\ o.old.owner = c.owner /\ c.expires <= o.old.expires
    BY <1>1, <1>5 DEF TypeOK, Commit, Inductive, History
  <2>2. o.old.expires \in Nat /\ o.new.expires \in Nat /\ Grace \in Nat
    BY <1>1, ConstantsAssumption DEF Commit
  <2>3. CASE TakeoverOp(o)
    <3>1. o.new.owner[1] \in Machine /\ Now(o.new.owner[1]) \in Nat
      BY <2>3, NowLater DEF TakeoverOp, Owner
    <3>2. o.old.expires + Grace <= Now(o.new.owner[1])
      BY <2>1, <2>3, <1>5 DEF TakeoverOp
    <3>3. c.expires + Grace <= Now(o.new.owner[1])
      BY <2>1, <2>2, <3>1, <3>2
    <3> QED BY <1>5, <3>1, <3>3 DEF Over
  <2>4. CASE ReleaseOp(o)
    BY <1>5, <2>1, <2>4 DEF ReleaseOp, Over
  <2>5. CASE OwnOp(o)
    BY <2>1, <2>2, <2>5 DEF OwnOp
  <2> QED BY <1>1, <2>3, <2>4, <2>5 DEF Sound
<1>6. ASSUME NEW c \in landed'
      PROVE  /\ Contains(o.new, c)
             /\ \/ c.owner = NoOwner
                \/ Over(c)'
                \/ o.new.owner = c.owner /\ c.expires <= o.new.expires
  <2>1. CASE c = o.new
    BY <2>1, <1>1, <1>3 DEF Commit
  <2>2. CASE c \in landed /\ c.owner # NoOwner /\ Over(c)
    BY <2>2, <1>4, OverStable DEF TypeOK
  <2>3. CASE c \in landed /\ ~(c.owner # NoOwner /\ Over(c))
    BY <2>3, <1>4, <1>5
  <2> QED BY <1>1, <2>1, <2>2, <2>3
<1> QED BY <1>1, <1>6 DEF History, Contains, Inductive

-----------------------------------------------------------------------------
(* One step per action. *)
LEMMA AcquireSafe ==
  ASSUME Typed, Typed', Inductive, Later, NEW m \in Machine, Acquire(m)
  PROVE  Inductive'
<1> USE DEF Typed
<1> DEFINE new == Taken(remote, m, Now(m))
           o   == [kind |-> "acquire", old |-> remote, new |-> new, base |-> NoMain,
                   task |-> NoTask, deadline |-> Now(m) + LeaseLen]
           p   == [Closed EXCEPT !.pc = "push"]
<1>1. Now(m) \in Nat /\ LeaseLen \in Nat /\ Grace \in Nat
  BY ConstantsAssumption DEF TypeOK, Now
<1>2. /\ new \in Commit /\ new.depth = remote.depth + 1 /\ new.owner = <<m, inst[m] + 1>>
      /\ new.expires = Now(m) + LeaseLen
      /\ new.applied = remote.applied /\ new.merged = remote.merged
  BY <1>1, TakenFields DEF TypeOK, SameContent
<1>3. op' = [op EXCEPT ![m] = o] /\ pub' = [pub EXCEPT ![m] = p]
  BY <1>1, <1>2 DEF Acquire
<1>4. o.kind = "acquire" /\ o.old = remote /\ o.new = new /\ p.seen = "none"
  BY DEF Closed
<1>5. o \in Op
  BY <1>2, <1>1 DEF TypeOK, Op, Kind
<1> HIDE DEF new, o, p
<1>6. op'[m] = o /\ op'[m] # NoOp /\ pub'[m].seen = "none"
  BY <1>3, <1>4, <1>5, NullsAssumption DEF TypeOK
<1>7. Contains(new, remote)
  BY <1>2 DEF Contains, TypeOK, Commit
<1>8. TakeoverOp(op[m])'
  <2>1. new.owner \in Owner /\ new.owner[1] = m
    BY <1>2 DEF Owner, TypeOK
  <2>2. remote.owner = NoOwner \/ remote.expires + Grace <= Now(m)
    BY DEF Acquire, Free
  <2>3. clock' = clock
    BY DEF Acquire
  <2> QED BY <1>4, <1>6, <2>1, <2>2, <2>3 DEF TakeoverOp, Now
<1>9. OpStep(m)
  BY <1>1, <1>2, <1>4, <1>6, <1>7, <1>8 DEF OpStep, Sound, Contains
<1>10. LocalStep(m)
  BY <1>4, <1>6, <1>9 DEF LocalStep, HeadStep, CommandStep, Acquire, TypeOK, localVars
<1>11. ASSUME NEW n \in Machine, n # m PROVE Quiet(n)
  BY <1>3, <1>11 DEF Acquire, Quiet, TypeOK, localVars
<1> QED BY <1>10, <1>11, LocalStepSafe DEF Acquire, remoteVars, localVars

LEMMA PublishingSafe ==
  ASSUME Typed, Typed', Inductive, Later, NEW m \in Machine, Publishing(m)
  PROVE  Inductive'
<1> USE DEF Typed
<1>1. UNCHANGED <<clock, remoteVars, inst, status>> /\ op[m] # NoOp
  BY PublishingCases
<1>2. remote \in landed
  BY DEF Inductive, History
<1>3. CASE /\ Again(m)
           /\ flight' \subseteq flight \union {op[m]}
           /\ pub'[m].seen \in {pub[m].seen, "old", "unresolved"} \/ remote = op[m].new
  <2>1. LocalStep(m)
    BY <1>2, <1>3 DEF Again, LocalStep, OpStep, HeadStep, CommandStep
  <2>2. ASSUME NEW n \in Machine, n # m PROVE Quiet(n)
    BY <1>3, <2>2 DEF Again, Quiet, TypeOK
  <2> QED BY <1>1, <1>3, <2>1, <2>2, LocalStepSafe DEF remoteVars
<1>4. ASSUME flight' = flight,
             NEW published \in BOOLEAN, NEW saved \in BOOLEAN, Return(m, published, saved),
             published => op[m].new \in landed \/ remote = op[m].new \/ pub[m].seen = "new"
      PROVE  Inductive'
  <2>1. published => op[m].new \in landed
    BY <1>2, <1>4 DEF Inductive, Publications
  <2>2. LocalStep(m) /\ \A n \in Machine : n # m => Quiet(n)
    BY <1>1, <1>4, <2>1, ReturnLocal
  <2> QED BY <1>1, <1>4, <2>2, LocalStepSafe DEF remoteVars
<1> QED BY <1>3, <1>4, PublishingCases

LEMMA ReleaseSafe ==
  ASSUME Typed, Typed', Inductive, Later, NEW m \in Machine, Release(m)
  PROVE  Inductive'
<1> USE DEF Typed
<1> DEFINE new == Released(head[m], Now(m))
<1>1. /\ UNCHANGED <<clock, remoteVars, flight, inst, ack, status>>
      /\ mode[m] = "orderly" /\ op[m] = NoOp
  BY DEF Release
<1>2. CASE Persist(m, "release", new, NoMain, NoTask) /\ UNCHANGED <<mode, head>>
  <2>1. /\ head[m] \in Commit /\ Now(m) \in Nat /\ LeaseLen \in Nat
    BY ConstantsAssumption DEF TypeOK, Now
  <2>2. /\ new \in Commit /\ new.depth = head[m].depth + 1 /\ new.epoch = head[m].epoch
        /\ new.owner = NoOwner /\ new.expires = Now(m) /\ SameContent(head[m], new)
    BY <2>1, ReleasedFields
  <2> HIDE DEF new
  <2>3. /\ op'[m] # NoOp /\ op'[m].kind = "release" /\ op'[m].old = head[m]
        /\ op'[m].new = new /\ pub'[m].seen = "none"
        /\ \A n \in Machine : n # m => op'[n] = op[n] /\ pub'[n] = pub[n]
    BY <1>2, <2>2, PersistTyped DEF Kind
  <2>4. head[m].owner = <<m, inst[m]>>
    BY <1>2 DEF Persist, Live, Me
  <2>5. Contains(op[m].new, op[m].old)'
    BY <2>1, <2>2, <2>3 DEF Contains, SameContent, Commit
  <2>6. ReleaseOp(op[m])'
    <3>1. head[m].owner \in Owner /\ head[m].owner[1] = m /\ head[m].owner[2] = inst[m]
      BY <2>4 DEF TypeOK, Owner
    <3> QED BY <1>1, <2>2, <2>3, <3>1 DEF ReleaseOp, Gone, Releasing
  <2>7. OpStep(m)
    BY <2>1, <2>2, <2>3, <2>5, <2>6 DEF OpStep, Sound
  <2>8. LocalStep(m)
    BY <1>1, <1>2, <2>3, <2>7 DEF LocalStep, HeadStep, CommandStep
  <2>9. ASSUME NEW n \in Machine, n # m PROVE Quiet(n)
    BY <1>1, <1>2, <2>3, <2>9 DEF Quiet
  <2> QED BY <1>1, <2>8, <2>9, LocalStepSafe DEF remoteVars
<1>3. CASE Down(m) /\ UNCHANGED <<op, pub>>
  BY <1>1, <1>3, LocalStepSafe DEF Down, LocalStep, OpStep, HeadStep, CommandStep, Quiet,
     TypeOK, remoteVars
<1> QED BY <1>2, <1>3 DEF Release

THEOREM SafeStep == Typed /\ Typed' /\ Inductive /\ [Next]_vars => Inductive'
<1> SUFFICES ASSUME Typed, Typed', Inductive, [Next]_vars PROVE Inductive'
  OBVIOUS
<1> USE DEF Typed
<1>0. Later
  BY StepLater
<1>1. ASSUME NEW m \in Machine, Acquire(m) PROVE Inductive'
  BY <1>0, <1>1, AcquireSafe
<1>2. ASSUME NEW m \in Machine, Publishing(m) PROVE Inductive'
  BY <1>0, <1>2, PublishingSafe
<1>3. ASSUME NEW m \in Machine, Release(m) PROVE Inductive'
  BY <1>0, <1>3, ReleaseSafe
<1>4. ASSUME NEW m \in Machine, UNCHANGED <<remoteVars, flight>>,
             LocalStep(m), \A n \in Machine : n # m => Quiet(n),
             \A c \in Command : status'[c] = "accepted" =>
                                  status[c] = "accepted" \/ c \in remote.applied
      PROVE  Inductive'
  BY <1>0, <1>4, LocalStepSafe DEF remoteVars
<1>5. ASSUME NEW m \in Machine, NEW kind \in Kind \ {"acquire", "release"},
             NEW new, Follows(head[m], new, Now(m)), Contains(new, head[m]),
             NEW base \in Main \union {NoMain}, NEW task \in Task \union {NoTask},
             Persist(m, kind, new, base, task),
             UNCHANGED <<remoteVars, flight, head, mode, status>>, mode[m] # "down",
             IF kind = "command"
             THEN ack'[m].outcome = "pending" /\ ack'[m].cmd \in new.applied
             ELSE ack'[m] = ack[m],
             \A n \in Machine : n # m => ack'[n] = ack[n]
      PROVE  Inductive'
  <2>1. LocalStep(m)
    BY <1>5, PersistLocal
  <2>2. ASSUME NEW n \in Machine, n # m PROVE Quiet(n)
    BY <1>5, <2>2, PersistQuiet DEF Quiet
  <2> QED BY <1>4, <1>5, <2>1, <2>2
<1>6. ASSUME NEW m \in Machine, Crash(m) PROVE Inductive'
  <2>1. LocalStep(m) /\ \A n \in Machine : n # m => Quiet(n)
    BY <1>6 DEF Crash, Down, Idle, Closed, LocalStep, OpStep, HeadStep, CommandStep, Quiet, TypeOK
  <2> QED BY <1>4, <1>6, <2>1 DEF Crash
<1>7. ASSUME NEW m \in Machine, Recover(m) PROVE Inductive'
  <2>1. CASE Persist(m, "recover", Recovered(head[m], Now(m)), NoMain, NoTask)
              /\ UNCHANGED <<mode, head>>
    BY <1>5, <1>7, <2>1, OwnSnapshots DEF Recover, Kind, localVars
  <2>2. CASE UNCHANGED <<op, pub>>
    <3>1. LocalStep(m) /\ \A n \in Machine : n # m => Quiet(n)
      BY <1>7, <2>2 DEF Recover, Down, LocalStep, OpStep, HeadStep, CommandStep, Quiet,
         TypeOK, localVars
    <3> QED BY <1>4, <1>7, <3>1 DEF Recover, localVars
  <2> QED BY <1>7, <2>1, <2>2 DEF Recover
<1>8. ASSUME NEW m \in Machine, Heartbeat(m) PROVE Inductive'
  <2>1. CASE Persist(m, "renew", Extended(head[m], Now(m)), NoMain, NoTask) /\ UNCHANGED mode
    BY <1>5, <1>8, <2>1, OwnSnapshots DEF Heartbeat, Kind, localVars
  <2>2. CASE UNCHANGED <<op, pub>> /\ Stop(m) /\ mode[m] = "serve"
    <3>1. LocalStep(m) /\ \A n \in Machine : n # m => Quiet(n)
      BY <1>8, <2>2 DEF Heartbeat, Stop, LocalStep, OpStep, HeadStep, CommandStep, Quiet,
         TypeOK, localVars
    <3> QED BY <1>4, <1>8, <3>1 DEF Heartbeat, localVars
  <2> QED BY <1>8, <2>1, <2>2 DEF Heartbeat
<1>9. ASSUME NEW m \in Machine, NEW c \in Command, TakeCommand(m, c) PROVE Inductive'
  <2>1. CASE /\ Persist(m, "command", Accepted(head[m], c, Now(m)), NoMain, NoTask)
             /\ ack' = [ack EXCEPT ![m] = [cmd |-> c, outcome |-> "pending"]]
             /\ UNCHANGED <<status, mode>>
    <3>1. /\ ack'[m].outcome = "pending" /\ ack'[m].cmd = c
          /\ \A n \in Machine : n # m => ack'[n] = ack[n]
      BY <2>1 DEF TypeOK
    <3> QED BY <1>5, <1>9, <2>1, <3>1, OwnSnapshots DEF TakeCommand, Kind
  <2>2. CASE c \in head[m].applied /\ status' = [status EXCEPT ![c] = "accepted"]
              /\ UNCHANGED <<op, pub, ack, mode>>
    <3>1. c \in remote.applied
      BY <2>2 DEF Inductive, Cached, History, Contains
    <3>2. LocalStep(m) /\ \A n \in Machine : n # m => Quiet(n)
      BY <1>9, <2>2 DEF TakeCommand, LocalStep, OpStep, HeadStep, CommandStep, Quiet
    <3> QED BY <1>4, <1>9, <2>2, <3>1, <3>2 DEF TakeCommand, TypeOK
  <2>3. CASE ack' = [ack EXCEPT ![m] = [cmd |-> c, outcome |-> "error"]]
              /\ Stop(m) /\ UNCHANGED <<status, op, pub>>
    <3>1. LocalStep(m) /\ \A n \in Machine : n # m => Quiet(n)
      BY <1>9, <2>3 DEF TakeCommand, Stop, LocalStep, OpStep, HeadStep, CommandStep, Quiet,
         TypeOK
    <3> QED BY <1>4, <1>9, <2>3, <3>1 DEF TakeCommand
  <2> QED BY <1>9, <2>1, <2>2, <2>3 DEF TakeCommand
<1>10. ASSUME NEW m \in Machine, AckCommand(m) PROVE Inductive'
  <2>1. LocalStep(m) /\ \A n \in Machine : n # m => Quiet(n)
    BY <1>10 DEF AckCommand, Stop, Idle, LocalStep, OpStep, HeadStep, CommandStep, Quiet,
       TypeOK, Inductive, Commands
  <2>2. ASSUME NEW c \in Command, status'[c] = "accepted"
        PROVE  status[c] = "accepted" \/ c \in remote.applied
    BY <1>10, <2>2 DEF AckCommand, TypeOK, Inductive, Commands
  <2> QED BY <1>4, <1>10, <2>1, <2>2 DEF AckCommand
<1>11. ASSUME NEW m \in Machine, NEW t \in Task, Reserve(m, t) PROVE Inductive'
  BY <1>5, <1>11, OwnSnapshots DEF Reserve, Kind, Stage
<1>12. ASSUME NEW m \in Machine, Integrate(m) PROVE Inductive'
  <2>1. CASE Persist(m, "integrate", Integrated(head[m], train[m].task, Now(m)),
                     train[m].base, train[m].task)
    <3>1. train[m].task \in Task /\ train[m].base \in Main \union {NoMain}
      BY <1>12 DEF Integrate, Paired, TypeOK, Work
    <3> QED BY <1>5, <1>12, <2>1, <3>1, OwnSnapshots DEF Integrate, Kind
  <2>2. CASE UNCHANGED <<op, pub>>
    <3>1. LocalStep(m) /\ \A n \in Machine : n # m => Quiet(n)
      BY <1>12, <2>2 DEF Integrate, LocalStep, OpStep, HeadStep, CommandStep, Quiet
    <3> QED BY <1>4, <1>12, <3>1 DEF Integrate
  <2> QED BY <1>12, <2>1, <2>2 DEF Integrate
<1>13. ASSUME NEW m \in Machine, Reload(m) PROVE Inductive'
  <2>1. ASSUME NEW kind \in {"demote", "block"}, NEW s \in {"SYNC_REQUIRED", "BLOCKED_HUMAN"},
               Persist(m, kind, Staged(head[m], train[m].task, s, Now(m)), NoMain, train[m].task),
               UNCHANGED mode
        PROVE  Inductive'
    <3>1. train[m].task \in Task
      BY <1>13 DEF Reload, Paired
    <3> QED BY <1>5, <1>13, <2>1, <3>1, OwnSnapshots DEF Reload, Kind, Stage
  <2>2. CASE Stop(m) /\ UNCHANGED <<op, pub>>
    <3>1. LocalStep(m) /\ \A n \in Machine : n # m => Quiet(n)
      BY <1>13, <2>2 DEF Reload, Stop, LocalStep, OpStep, HeadStep, CommandStep, Quiet, TypeOK
    <3> QED BY <1>4, <1>13, <3>1 DEF Reload
  <2> QED BY <1>13, <2>1, <2>2 DEF Reload
<1>14. ASSUME NEW m \in Machine, StopRequested(m) PROVE Inductive'
  <2>1. LocalStep(m) /\ \A n \in Machine : n # m => Quiet(n)
    BY <1>14 DEF StopRequested, LocalStep, OpStep, HeadStep, CommandStep, Quiet, TypeOK, localVars
  <2> QED BY <1>4, <1>14, <2>1 DEF StopRequested, localVars
<1>15. ASSUME NEW m \in Machine, Exit(m) PROVE Inductive'
  <2>1. LocalStep(m) /\ \A n \in Machine : n # m => Quiet(n)
    BY <1>15 DEF Exit, Down, LocalStep, OpStep, HeadStep, CommandStep, Quiet, TypeOK
  <2> QED BY <1>4, <1>15, <2>1 DEF Exit
<1>16. ASSUME NEW o \in flight, Land(o) PROVE Inductive'
  <2>1. History'
    BY <1>0, <1>16, LandHistory
  <2>2. /\ landed \subseteq landed' /\ flight' \subseteq flight
        /\ UNCHANGED <<clock, mode, inst, head, op, pub, ack, train, status>>
    BY <1>16 DEF Land, localVars
  <2>3. Publications'
    <3>1. ASSUME NEW p \in Op, Sound(p) PROVE Sound(p)'
      BY <1>0, <3>1, SoundStable
    <3>2. \A p \in flight' : Sound(p)'
      BY <2>2, <3>1 DEF Inductive, Publications, TypeOK
    <3>3. ASSUME NEW m \in Machine, op[m] # NoOp PROVE Sound(op[m])'
      BY <2>2, <3>1, <3>3 DEF Inductive, Publications, TypeOK
    <3> QED BY <2>2, <3>2, <3>3 DEF Inductive, Publications, Now
  <2>4. Cached'
    BY <2>2 DEF Inductive, Cached, Now
  <2>5. remote.applied \subseteq remote'.applied
    BY <1>16 DEF Land, Current, Inductive, Publications, Sound, Contains
  <2>6. Commands'
    BY <2>2, <2>5 DEF Inductive, Commands
  <2> QED BY <2>1, <2>3, <2>4, <2>6 DEF Inductive
<1>17. ASSUME UNCHANGED <<remote, landed, flight, mode, head, op, pub, ack>>,
              \A c \in Command : status'[c] = "accepted" => status[c] = "accepted"
       PROVE  Inductive'
  BY <1>0, <1>17, LocalStepSafe DEF Quiet
<1>18. ASSUME NEW c \in Command, Submit(c) PROVE Inductive'
  BY <1>17, <1>18 DEF Submit, remoteVars, TypeOK
<1>19. CASE Tick
  BY <1>17, <1>19 DEF Tick, remoteVars, localVars
<1>20. CASE ExternalPush
  BY <1>17, <1>20 DEF ExternalPush, localVars
<1>21. CASE UNCHANGED vars
  BY <1>17, <1>21 DEF vars, remoteVars, localVars
<1> QED BY <1>1, <1>2, <1>3, <1>6, <1>7, <1>8, <1>9, <1>10, <1>11, <1>12, <1>13, <1>14,
           <1>15, <1>16, <1>18, <1>19, <1>20, <1>21 DEF Next, Serving

THEOREM SafeInit == Init => Inductive
<1> SUFFICES ASSUME Init PROVE Inductive
  OBVIOUS
<1>1. TypeOK
  BY TypedInit DEF Typed
<1>2. Contains(Genesis, Genesis) /\ Genesis.owner = NoOwner /\ Genesis.expires = 0
  BY DEF Contains, Genesis
<1>3. \A m \in Machine : Now(m) \in Nat /\ LeaseLen \in Nat
  BY <1>1, ConstantsAssumption DEF TypeOK, Now
<1> QED BY <1>2, <1>3 DEF Init, Inductive, History, Publications, Cached, Commands, Closed, Idle

LEMMA Invariance == Spec => [](Typed /\ Inductive)
<1>1. Init => Typed /\ Inductive
  BY TypedInit, SafeInit
<1>2. (Typed /\ Inductive) /\ [Next]_vars => (Typed /\ Inductive)'
  BY TypedStep, SafeStep
<1> QED BY <1>1, <1>2, PTL DEF Spec

-----------------------------------------------------------------------------
(* Whatever the network does and whoever crashes, two supervisors never    *)
(* hold the controller lease at once, provided that their clocks differ by *)
(* no more than the grace of acquire.                                      *)
THEOREM LeaseIsExclusive == Spec => []OneController
<1>1. Typed /\ Inductive => OneController
  <2> SUFFICES ASSUME Typed, Inductive, NEW m \in Machine, NEW n \in Machine,
                      Holds(m), Holds(n)
               PROVE  m = n
    BY DEF OneController
  <2> USE DEF Typed
  <2>1. ASSUME NEW k \in Machine, Holds(k)
        PROVE  head[k].owner = <<k, inst[k]>> /\ remote.owner = head[k].owner
    <3>1. /\ head[k] \in Commit /\ head[k] \in landed
          /\ head[k].owner = <<k, inst[k]>> /\ head[k].expires > Now(k) /\ ~Releasing(k)
      BY <2>1 DEF Holds, Live, Me, Inductive, Cached, TypeOK
    <3>2. <<k, inst[k]>> \in Owner /\ head[k].owner # NoOwner
      BY <3>1, NullsAssumption DEF TypeOK, Owner
    <3>3. mode[k] # "down"
      BY <3>1, <3>2 DEF Inductive, Cached, Genesis
    <3>4. ~Gone(head[k].owner)
      BY <3>1, <3>3 DEF Gone, TypeOK
    <3>5. ASSUME NEW i \in Machine PROVE ~(head[k].expires + Grace <= Now(i))
      <4>1. Skew[i] <= Skew[k] + Grace
        BY ClocksAssumption
      <4>2. /\ clock \in Nat /\ Grace \in Nat /\ Skew[i] \in Nat /\ Skew[k] \in Nat
            /\ head[k].expires \in Nat
        BY <3>1, ConstantsAssumption DEF TypeOK, Commit
      <4> QED BY <3>1, <4>1, <4>2 DEF Now
    <3> QED BY <3>1, <3>2, <3>4, <3>5 DEF Inductive, History, Over
  <2>2. <<m, inst[m]>> = <<n, inst[n]>>
    BY <2>1
  <2> QED BY <2>2
<1> QED BY <1>1, Invariance, PTL

(* Nothing a supervisor was told is published, and no command an operator  *)
(* was told is accepted, is ever lost, whoever publishes afterwards.       *)
THEOREM AcknowledgementsLast == Spec => []AcknowledgedDurable
<1>1. Inductive => AcknowledgedDurable
  BY DEF Inductive, History, Cached, Commands, Contains, AcknowledgedDurable
<1> QED BY <1>1, Invariance, PTL

(* The epoch changes only by a takeover of a lease that nobody held or     *)
(* that had run out, with the grace, on the clock of the new controller.   *)
THEOREM TakeoverIsFenced == Spec => NoStealing
<1>1. ASSUME Typed, Typed', Inductive, [Next]_vars, remote'.epoch # remote.epoch
      PROVE  \/ remote.owner = NoOwner
             \/ remote.expires + Grace <= Now(remote'.owner[1])
  <2> USE DEF Typed
  <2>1. remote' # remote
    BY <1>1
  <2>2. PICK o \in flight : Land(o)
    <3>1. ASSUME NEW m \in Machine, Publishing(m) PROVE remote' = remote
      BY <1>1, <3>1, PublishingCases DEF remoteVars
    <3> QED BY <1>1, <2>1, <3>1 DEF Next, Serving, Acquire, Recover, Heartbeat, TakeCommand,
           AckCommand, Reserve, Integrate, Reload, StopRequested, Release, Exit, Crash,
           Submit, Tick, ExternalPush, vars, remoteVars
  <2>3. remote = o.old /\ remote' = o.new /\ Sound(o)
    BY <1>1, <2>2 DEF Land, Current, Inductive, Publications
  <2>4. TakeoverOp(o)
    BY <1>1, <2>3 DEF Sound, ReleaseOp, OwnOp
  <2> QED BY <2>3, <2>4 DEF TakeoverOp
<1>2. Typed /\ Inductive /\ (Typed /\ Inductive)' /\ [Next]_vars =>
        [remote'.epoch # remote.epoch =>
           \/ remote.owner = NoOwner
           \/ remote.expires + Grace <= Now(remote'.owner[1])]_vars
  BY <1>1
<1> QED BY <1>2, Invariance, PTL DEF Spec, NoStealing

(* Main only advances: every push that moves it was made for the main it   *)
(* replaces.                                                               *)
THEOREM MainOnlyAdvances == Spec => MainAdvances
<1>1. ASSUME Typed, [Next]_vars
      PROVE  [main'.external >= main.external /\ main.merged \subseteq main'.merged]_vars
  <2> USE DEF Typed
  <2>0. main.external \in Nat
    BY <1>1 DEF TypeOK, Main
  <2>1. ASSUME NEW o \in flight, Land(o)
        PROVE  main'.external >= main.external /\ main.merged \subseteq main'.merged
    <3>1. CASE o.base = NoMain
      BY <2>0, <2>1, <3>1 DEF Land
    <3>2. CASE o.base # NoMain
      <4>1. o.base = main /\ main' = Merged(o)
        BY <2>1, <3>2 DEF Land, Current
      <4> QED BY <1>1, <2>0, <4>1 DEF Merged, TypeOK, Main
    <3> QED BY <3>1, <3>2
  <2>2. CASE ExternalPush
    BY <1>1, <2>0, <2>2 DEF ExternalPush, TypeOK, Main
  <2>3. ASSUME NEW m \in Machine, Publishing(m) PROVE main' = main
    BY <1>1, <2>3, PublishingCases DEF remoteVars
  <2>4. CASE main' = main
    BY <2>0, <2>4
  <2> QED BY <1>1, <2>1, <2>2, <2>3, <2>4 DEF Next, Serving, Acquire, Recover, Heartbeat,
         TakeCommand, AckCommand, Reserve, Integrate, Reload, StopRequested, Release, Exit,
         Crash, Submit, Tick, vars, remoteVars
<1>2. Typed /\ [Next]_vars =>
        [main'.external >= main.external /\ main.merged \subseteq main'.merged]_vars
  BY <1>1
<1> QED BY <1>2, Invariance, PTL DEF Spec, MainAdvances

-----------------------------------------------------------------------------
(* ControllerLease implements StateAuthority: what a publication may make  *)
(* of the commit it replaces.                                              *)
Takes(old, new) ==
  /\ new.epoch = old.epoch + 1 /\ new.owner \in Owner \ {old.owner}
  /\ SameContent(old, new)

Accepts(old, new) ==
  \E c \in Command :
    /\ c \notin old.applied /\ new.applied = old.applied \union {c}
    /\ new.effects = [old.effects EXCEPT ![c] = old.effects[c] + 1]
    /\ new.merged = old.merged

Records(old, new, t) ==
  new.merged = old.merged \union {t} /\ new.applied = old.applied /\ new.effects = old.effects

Holding(old, new) == old.owner \in Owner /\ new.owner = old.owner /\ new.epoch = old.epoch
GivesBack(old, new) ==
  old.owner \in Owner /\ new.owner = NoOwner /\ new.epoch = old.epoch /\ SameContent(old, new)

Change(old, new, base, t) ==
  \/ base = NoMain /\ (Takes(old, new) \/ GivesBack(old, new))
  \/ base = NoMain /\ Holding(old, new) /\ (SameContent(old, new) \/ Accepts(old, new))
  \/ base # NoMain /\ t \in Task /\ Holding(old, new) /\ Records(old, new, t)

Lawful(o) == Change(o.old, o.new, o.base, o.task)

(* A controller's number is that of a start which has happened.            *)
Known(w) == w \in Owner => w[2] <= inst[w[1]]
Allowed(o) == Lawful(o) /\ Known(o.new.owner)

(* The merge goroutine has captured the main it works on.                  *)
Captured(m) ==
  train[m].phase # "idle" \/ (op[m] # NoOp /\ op[m].kind \in {"reserve", "integrate"}) =>
    train[m].base # NoMain

Governed ==
  /\ main.merged = remote.merged
  /\ Known(remote.owner)
  /\ \A o \in flight : Allowed(o)
  /\ \A m \in Machine : (op[m] # NoOp => Allowed(op[m])) /\ Captured(m)

(* What a step does to one machine. *)
Lawfully(m) ==
  /\ op'[m] = op[m] \/ op'[m] = NoOp \/ Allowed(op[m])'
  /\ Captured(m)'

LEMMA KnownStays ==
  ASSUME Typed, Typed', Later, NEW w, Known(w)
  PROVE  Known(w)'
<1> SUFFICES ASSUME w \in Owner PROVE w[2] <= inst'[w[1]]
  BY DEF Known
<1>1. PICK m \in Machine, i \in Nat : w = <<m, i>>
  BY DEF Owner
<1>2. i <= inst[m] /\ inst[m] <= inst'[m] /\ inst[m] \in Nat /\ inst'[m] \in Nat
  BY <1>1 DEF Known, Later, Typed, TypeOK
<1> QED BY <1>1, <1>2

(* A step that moves no ref. *)
LEMMA LocalGoverned ==
  ASSUME Typed, Typed', Later, Governed, UNCHANGED remote, UNCHANGED main.merged,
         \A o \in flight' : o \in flight \/ \E n \in Machine : op[n] # NoOp /\ o = op[n],
         \A n \in Machine : Lawfully(n)
  PROVE  Governed'
<1>1. Known(remote.owner)'
  BY KnownStays DEF Governed
<1>2. ASSUME NEW o, Allowed(o) PROVE Allowed(o)'
  BY <1>2, KnownStays DEF Allowed, Lawful
<1>3. \A o \in flight' : Allowed(o)'
  BY <1>2 DEF Governed
<1>4. ASSUME NEW n \in Machine, op'[n] # NoOp PROVE Allowed(op[n])'
  <2>1. CASE op'[n] = op[n]
    BY <1>2, <1>4, <2>1 DEF Governed
  <2>2. CASE op'[n] # op[n]
    BY <1>4, <2>2 DEF Lawfully
  <2> QED BY <2>1, <2>2
<1> QED BY <1>1, <1>3, <1>4 DEF Governed, Lawfully

(* What one machine's publications and goroutines do, the others see not. *)
LEMMA OthersLawful ==
  ASSUME Governed, NEW n \in Machine, op'[n] = op[n], train'[n] = train[n]
  PROVE  Lawfully(n)
BY DEF Governed, Lawfully, Captured

LEMMA PersistLawful ==
  ASSUME Typed, NEW m \in Machine, NEW kind, NEW new, NEW base, NEW task,
         Persist(m, kind, new, base, task), UNCHANGED inst,
         Change(head[m], new, base, task),
         new.owner \in {head[m].owner, NoOwner}
  PROVE  /\ op'[m].kind = kind /\ Allowed(op[m])'
         /\ \A n \in Machine : n # m => op'[n] = op[n]
<1> DEFINE o == [kind |-> kind, old |-> head[m], new |-> new, base |-> base,
                 task |-> task, deadline |-> head[m].expires]
<1>1. /\ op'[m] = o /\ head[m].owner = <<m, inst[m]>> /\ inst[m] \in Nat
      /\ \A n \in Machine : n # m => op'[n] = op[n]
  BY DEF Persist, Live, Me, Typed, TypeOK
<1>2. o.old = head[m] /\ o.new = new /\ o.base = base /\ o.task = task /\ o.kind = kind
  OBVIOUS
<1> HIDE DEF o
<1>3. Known(op[m].new.owner)'
  <2>1. op'[m].new = new
    BY <1>1, <1>2
  <2>2. <<m, inst[m]>>[1] = m /\ <<m, inst[m]>>[2] = inst[m]
    OBVIOUS
  <2>3. new.owner \in Owner => new.owner = <<m, inst[m]>>
    BY <1>1, NullsAssumption
  <2>4. new.owner \in Owner => new.owner[2] <= inst[new.owner[1]]
    BY <1>1, <2>2, <2>3
  <2> QED BY <2>1, <2>4 DEF Known
<1>4. Lawful(op[m])'
  BY <1>1, <1>2 DEF Lawful, Change, Takes, GivesBack, Holding, SameContent, Accepts, Records
<1> QED BY <1>1, <1>2, <1>3, <1>4 DEF Allowed

(* The snapshots that a controller publishes under its own lease.          *)
LEMMA OwnChange ==
  ASSUME Typed, NEW m \in Machine, Live(m), NEW new, Follows(head[m], new, Now(m)), NEW task
  PROVE  /\ new.owner = head[m].owner
         /\ SameContent(head[m], new) => Change(head[m], new, NoMain, task)
         /\ Accepts(head[m], new) => Change(head[m], new, NoMain, task)
         /\ \A base : base # NoMain /\ task \in Task /\ Records(head[m], new, task) =>
              Change(head[m], new, base, task)
<1>1. Holding(head[m], new)
  BY DEF Live, Me, Typed, TypeOK, Owner, Follows, Holding
<1> QED BY <1>1 DEF Change, Follows, Holding

LEMMA MachineTypes ==
  ASSUME TypeOK, NEW m \in Machine
  PROVE  Now(m) \in Nat /\ inst[m] \in Nat /\ head[m] \in Commit
BY ConstantsAssumption DEF TypeOK, Now

LEMMA AcceptedAccepts ==
  ASSUME NEW h \in Commit, NEW now \in Nat, NEW c \in Command, c \notin h.applied
  PROVE  Follows(h, Accepted(h, c, now), now) /\ Accepts(h, Accepted(h, c, now))
<1> DEFINE k == Accepted(h, c, now)
<1>1. /\ Follows(h, k, now) /\ k.applied = h.applied \union {c}
      /\ k.effects = [h.effects EXCEPT ![c] = h.effects[c] + 1]
      /\ k.merged = h.merged
  BY AcceptedFields
<1> HIDE DEF k
<1>2. Accepts(h, k)
  BY <1>1 DEF Accepts
<1> QED BY <1>1, <1>2 DEF k

LEMMA AcquireLawful ==
  ASSUME Typed, Governed, NEW m \in Machine, Acquire(m)
  PROVE  Lawfully(m) /\ \A n \in Machine : n # m => op'[n] = op[n]
<1> USE DEF Typed
<1> DEFINE new == Taken(remote, m, Now(m))
           o == [kind |-> "acquire", old |-> remote, new |-> new,
                 base |-> NoMain, task |-> NoTask, deadline |-> Now(m) + LeaseLen]
<1>1. /\ op'[m] = o /\ inst'[m] = inst[m] + 1 /\ inst[m] \in Nat /\ Now(m) \in Nat
      /\ train'[m] = train[m] /\ \A n \in Machine : n # m => op'[n] = op[n]
  <2>1. op' = [op EXCEPT ![m] = o] /\ inst' = [inst EXCEPT ![m] = inst[m] + 1] /\ train' = train
    BY DEF Acquire, localVars
  <2> HIDE DEF o
  <2> QED BY <2>1, MachineTypes DEF TypeOK
<1>2. o.old = remote /\ o.new = new /\ o.base = NoMain /\ o.kind = "acquire"
  OBVIOUS
<1>3. new.epoch = remote.epoch + 1 /\ new.owner = <<m, inst[m] + 1>> /\ SameContent(remote, new)
  BY <1>1, TakenFields DEF TypeOK
<1> HIDE DEF o, new
<1>4. <<m, inst[m] + 1>> \in Owner
  BY <1>1 DEF Owner
<1>5. remote.owner # <<m, inst[m] + 1>>
  BY <1>1, <1>4 DEF Governed, Known
<1>6. Lawful(op[m])'
  BY <1>1, <1>2, <1>3, <1>4, <1>5
     DEF Lawful, Change, Takes, GivesBack, Holding, SameContent, Accepts, Records
<1>7. Known(op[m].new.owner)'
  BY <1>1, <1>2, <1>3 DEF Known
<1>8. Captured(m)'
  BY <1>1, <1>2 DEF Captured, Governed
<1> QED BY <1>1, <1>6, <1>7, <1>8 DEF Lawfully, Allowed

LEMMA ReleaseLawful ==
  ASSUME Typed, Governed, NEW m \in Machine, Release(m)
  PROVE  Lawfully(m) /\ \A n \in Machine : n # m => op'[n] = op[n]
<1> USE DEF Typed
<1>1. train'[m] = NoWork
  BY DEF Release, TypeOK
<1>2. CASE Persist(m, "release", Released(head[m], Now(m)), NoMain, NoTask)
  <2>1. head[m] \in Commit /\ Now(m) \in Nat /\ head[m].owner \in Owner
    BY <1>2, MachineTypes DEF Persist, Live, Me, Owner
  <2>2. Change(head[m], Released(head[m], Now(m)), NoMain, NoTask)
    BY <2>1, ReleasedFields DEF Change, GivesBack
  <2>3. Released(head[m], Now(m)).owner = NoOwner
    BY <2>1, ReleasedFields
  <2>4. /\ op'[m].kind = "release" /\ Allowed(op[m])'
        /\ \A n \in Machine : n # m => op'[n] = op[n]
    BY <1>2, <2>2, <2>3, PersistLawful DEF Release
  <2> QED BY <1>1, <2>4 DEF Lawfully, Captured, NoWork
<1>3. CASE UNCHANGED <<op, pub>>
  BY <1>1, <1>3 DEF Release, Lawfully, Captured, NoWork, Governed
<1> QED BY <1>2, <1>3 DEF Release

LEMMA ServingLawful ==
  ASSUME Typed, Governed, NEW m \in Machine, Serving(m)
  PROVE  Lawfully(m) /\ \A n \in Machine : n # m => op'[n] = op[n]
<1> USE DEF Typed
<1> DEFINE Goal == Lawfully(m) /\ \A n \in Machine : n # m => op'[n] = op[n]
<1>1. ASSUME NEW kind, NEW new, NEW base, NEW task,
             Persist(m, kind, new, base, task), UNCHANGED inst,
             Change(head[m], new, base, task), new.owner = head[m].owner,
             kind \in {"reserve", "integrate"} => train'[m].base # NoMain,
             train'[m].phase # "idle" => train'[m].base # NoMain
      PROVE  Goal
  <2>1. /\ op'[m].kind = kind /\ Allowed(op[m])'
        /\ \A n \in Machine : n # m => op'[n] = op[n]
    BY <1>1, PersistLawful
  <2> QED BY <1>1, <2>1 DEF Lawfully, Captured
<1>2. ASSUME UNCHANGED op, train'[m] = train[m] \/ (train'[m] = NoWork /\ op[m] = NoOp) PROVE Goal
  <2>1. CASE train'[m] = train[m]
    BY <1>2, <2>1 DEF Lawfully, Captured, Governed
  <2>2. CASE train'[m] = NoWork /\ op[m] = NoOp
    BY <1>2, <2>2 DEF Lawfully, Captured, NoWork, Governed
  <2> QED BY <1>2, <2>1, <2>2
<1>3. head[m] \in Commit /\ Now(m) \in Nat
  BY MachineTypes
<1>4. Captured(m)
  BY DEF Governed
<1>p. ASSUME NEW kind, NEW new, NEW task, kind \notin {"reserve", "integrate"},
             Persist(m, kind, new, NoMain, task), UNCHANGED <<inst, train>>,
             Follows(head[m], new, Now(m)),
             SameContent(head[m], new) \/ Accepts(head[m], new)
      PROVE  Goal
  <2>1. Live(m)
    BY <1>p DEF Persist
  <2>2. new.owner = head[m].owner /\ Change(head[m], new, NoMain, task)
    BY <1>p, <2>1, OwnChange
  <2>3. train'[m].phase # "idle" => train'[m].base # NoMain
    BY <1>4, <1>p DEF Captured
  <2> HIDE DEF Goal
  <2> QED BY <1>1, <1>p, <2>2, <2>3
<1>5. CASE Acquire(m)
  BY <1>5, AcquireLawful
<1>6. CASE Recover(m)
  <2>1. CASE Persist(m, "recover", Recovered(head[m], Now(m)), NoMain, NoTask)
    BY <1>3, <1>p, <1>6, <2>1, RecoveredFields DEF Recover, localVars
  <2>2. CASE UNCHANGED op
    BY <1>2, <1>6, <2>2 DEF Recover, localVars
  <2> QED BY <1>6, <2>1, <2>2 DEF Recover
<1>7. CASE Heartbeat(m)
  <2>1. CASE Persist(m, "renew", Extended(head[m], Now(m)), NoMain, NoTask)
    BY <1>3, <1>p, <1>7, <2>1, ExtendedFields DEF Heartbeat, localVars
  <2>2. CASE UNCHANGED op
    BY <1>2, <1>7, <2>2 DEF Heartbeat, localVars
  <2> QED BY <1>7, <2>1, <2>2 DEF Heartbeat
<1>8. ASSUME NEW c \in Command, TakeCommand(m, c) PROVE Goal
  <2>1. CASE Persist(m, "command", Accepted(head[m], c, Now(m)), NoMain, NoTask)
              /\ c \notin head[m].applied
    <3>1. Follows(head[m], Accepted(head[m], c, Now(m)), Now(m))
            /\ Accepts(head[m], Accepted(head[m], c, Now(m)))
      BY <1>3, <2>1, AcceptedAccepts
    <3>2. UNCHANGED <<inst, train>>
      BY <1>8 DEF TakeCommand
    <3> QED BY <1>p, <2>1, <3>1, <3>2
  <2>2. CASE UNCHANGED op
    BY <1>2, <1>8, <2>2 DEF TakeCommand
  <2> QED BY <1>8, <2>1, <2>2 DEF TakeCommand
<1>9. CASE AckCommand(m)
  BY <1>2, <1>9 DEF AckCommand
<1>10. ASSUME NEW t \in Task, Reserve(m, t) PROVE Goal
  <2>1. train'[m].base = main /\ main # NoMain
    BY <1>10, NullsAssumption DEF Reserve, TypeOK
  <2>2. Follows(head[m], Staged(head[m], t, "MERGE_TRAIN", Now(m)), Now(m))
          /\ SameContent(head[m], Staged(head[m], t, "MERGE_TRAIN", Now(m)))
    BY <1>3, StagedFields DEF Stage
  <2>3. /\ Persist(m, "reserve", Staged(head[m], t, "MERGE_TRAIN", Now(m)), NoMain, t)
        /\ Live(m) /\ UNCHANGED inst
    BY <1>10 DEF Reserve, Persist
  <2>4. /\ Staged(head[m], t, "MERGE_TRAIN", Now(m)).owner = head[m].owner
        /\ Change(head[m], Staged(head[m], t, "MERGE_TRAIN", Now(m)), NoMain, t)
    BY <2>2, <2>3, OwnChange
  <2> HIDE DEF Goal
  <2> QED BY <1>1, <2>1, <2>3, <2>4
<1>11. ASSUME Integrate(m) PROVE Goal
  <2>1. train[m].base # NoMain /\ train[m].task \in Task
    BY <1>4, <1>11 DEF Integrate, Captured, Paired
  <2>2. train'[m].base = train[m].base
    BY <1>11 DEF Integrate, TypeOK, Work
  <2>3. CASE Persist(m, "integrate", Integrated(head[m], train[m].task, Now(m)),
                     train[m].base, train[m].task)
    <3>1. /\ Follows(head[m], Integrated(head[m], train[m].task, Now(m)), Now(m))
          /\ Records(head[m], Integrated(head[m], train[m].task, Now(m)), train[m].task)
      BY <1>3, <2>1, IntegratedFields DEF Records
    <3>2. Live(m) /\ UNCHANGED inst
      BY <1>11, <2>3 DEF Integrate, Persist
    <3>3. /\ Integrated(head[m], train[m].task, Now(m)).owner = head[m].owner
          /\ Change(head[m], Integrated(head[m], train[m].task, Now(m)), train[m].base, train[m].task)
      BY <2>1, <3>1, <3>2, OwnChange
    <3> HIDE DEF Goal
    <3> QED BY <1>1, <2>1, <2>2, <2>3, <3>2, <3>3
  <2>4. CASE UNCHANGED op
    BY <1>4, <2>1, <2>2, <2>4 DEF Lawfully, Captured
  <2> QED BY <1>11, <2>3, <2>4 DEF Integrate
<1>12. CASE Reload(m)
  <2>1. train[m].base # NoMain /\ train[m].task \in Task
    BY <1>4, <1>12 DEF Reload, Captured, Paired
  <2>2. ASSUME NEW kind \in {"demote", "block"}, NEW s \in {"SYNC_REQUIRED", "BLOCKED_HUMAN"},
               Persist(m, kind, Staged(head[m], train[m].task, s, Now(m)), NoMain, train[m].task),
               train' = [train EXCEPT ![m].phase = "settling"]
        PROVE  Goal
    <3>1. train'[m].base = train[m].base
      BY <2>2 DEF TypeOK, Work
    <3>2. Follows(head[m], Staged(head[m], train[m].task, s, Now(m)), Now(m))
            /\ SameContent(head[m], Staged(head[m], train[m].task, s, Now(m)))
      BY <1>3, <2>1, <2>2, StagedFields DEF Stage
    <3>3. Live(m) /\ UNCHANGED inst
      BY <1>12, <2>2 DEF Reload, Persist
    <3>4. /\ Staged(head[m], train[m].task, s, Now(m)).owner = head[m].owner
          /\ Change(head[m], Staged(head[m], train[m].task, s, Now(m)), NoMain, train[m].task)
      BY <3>2, <3>3, OwnChange
    <3>5. kind \notin {"reserve", "integrate"}
      BY <2>2
    <3> HIDE DEF Goal
    <3> QED BY <1>1, <2>1, <2>2, <3>1, <3>3, <3>4, <3>5
  <2>3. CASE UNCHANGED op /\ train' = [train EXCEPT ![m] = NoWork]
    BY <1>2, <1>12, <2>3 DEF Reload, TypeOK
  <2> QED BY <1>12, <2>2, <2>3 DEF Reload
<1>13. CASE StopRequested(m)
  BY <1>2, <1>13 DEF StopRequested, localVars
<1>14. CASE Release(m)
  BY <1>14, ReleaseLawful
<1>15. CASE Exit(m)
  BY <1>2, <1>15 DEF Exit, TypeOK
<1> QED BY <1>5, <1>6, <1>7, <1>8, <1>9, <1>10, <1>11, <1>12, <1>13, <1>14, <1>15 DEF Serving

(* A call that returns leaves the lock, and its merge goroutine with the   *)
(* main it captured or idle.                                               *)
LEMMA PublishingLawful ==
  ASSUME Typed, Governed, NEW m \in Machine, Publishing(m)
  PROVE  /\ Lawfully(m)
         /\ \A n \in Machine : n # m => op'[n] = op[n] /\ train'[n] = train[n]
<1> USE DEF Typed
<1>1. Captured(m) /\ op[m] # NoOp
  BY PublishingCases DEF Governed
<1>2. CASE Again(m)
  BY <1>1, <1>2 DEF Again, Lawfully, Captured
<1>3. ASSUME NEW published \in BOOLEAN, NEW saved \in BOOLEAN, Return(m, published, saved)
      PROVE  /\ Lawfully(m)
             /\ \A n \in Machine : n # m => op'[n] = op[n] /\ train'[n] = train[n]
  <2>1. op'[m] = NoOp /\ \A n \in Machine : n # m => op'[n] = op[n] /\ train'[n] = train[n]
    BY <1>3 DEF Return, TypeOK
  <2>2. \/ op[m].kind = "reserve" /\ train'[m] = [train[m] EXCEPT !.phase = "reserved"]
        \/ op[m].kind = "integrate" /\ train'[m] = [train[m] EXCEPT !.phase = "failed"]
        \/ train'[m] = train[m]
        \/ train'[m] = NoWork
    BY <1>3 DEF Return, TypeOK
  <2>3. train[m] \in Work
    BY DEF TypeOK
  <2>4. train'[m].phase # "idle" => train'[m].base # NoMain
    BY <1>1, <2>2, <2>3 DEF Captured, NoWork, Work
  <2> QED BY <2>1, <2>4 DEF Lawfully, Captured
<1> QED BY <1>2, <1>3, PublishingCases

LEMMA ServingKeeps ==
  ASSUME Typed, NEW m \in Machine, Serving(m) \/ Crash(m)
  PROVE  UNCHANGED <<remote, main, flight>> /\ \A n \in Machine : n # m => train'[n] = train[n]
BY DEF Typed, TypeOK, Serving, Acquire, Recover, Heartbeat, TakeCommand, AckCommand, Reserve,
       Integrate, Reload, StopRequested, Release, Exit, Crash, remoteVars, localVars

(* A publication lands: snapshot and main move together.                   *)
LEMMA LandLawful ==
  ASSUME Typed, Governed, NEW o \in flight, Land(o)
  PROVE  /\ remote = o.old /\ remote' = o.new /\ Change(remote, remote', o.base, o.task)
         /\ Known(o.new.owner)
         /\ main'.merged = IF o.base = NoMain THEN main.merged ELSE main.merged \union {o.task}
<1>1. remote = o.old /\ remote' = o.new /\ Allowed(o) /\ o.base \in {NoMain, main}
  BY DEF Land, Current, Governed
<1>2. CASE o.base = NoMain
  BY <1>1, <1>2 DEF Land, Allowed, Lawful
<1>3. CASE o.base # NoMain
  <2>1. main' = [main EXCEPT !.merged = main.merged \union {o.task}] /\ main \in Main
    BY <1>1, <1>3 DEF Land, Merged, Typed, TypeOK
  <2>2. main'.merged = main.merged \union {o.task}
    BY <2>1 DEF Main
  <2> QED BY <1>1, <1>3, <2>2 DEF Allowed, Lawful
<1> QED BY <1>2, <1>3

LEMMA GovernedStays == Typed /\ Typed' /\ Inductive /\ Governed /\ [Next]_vars => Governed'
<1> SUFFICES ASSUME Typed, Typed', Inductive, Governed, [Next]_vars PROVE Governed'
  OBVIOUS
<1>0. Later
  BY StepLater
<1>1. ASSUME NEW m \in Machine, Serving(m) PROVE Governed'
  <2>1. \A n \in Machine : Lawfully(n)
    BY <1>1, ServingLawful, ServingKeeps, OthersLawful
  <2>2. UNCHANGED <<remote, main, flight>>
    BY <1>1, ServingKeeps
  <2> QED BY <1>0, <2>1, <2>2, LocalGoverned
<1>2. ASSUME NEW m \in Machine, Publishing(m) PROVE Governed'
  <2>1. \A n \in Machine : Lawfully(n)
    BY <1>2, PublishingLawful, OthersLawful
  <2>2. /\ UNCHANGED <<remote, main>> /\ op[m] # NoOp
        /\ \A o \in flight' : o \in flight \/ o = op[m]
    BY <1>2, PublishingCases DEF remoteVars
  <2> QED BY <1>0, <2>1, <2>2, LocalGoverned
<1>3. ASSUME NEW m \in Machine, Crash(m) PROVE Governed'
  <2>1. Lawfully(m) /\ \A n \in Machine : n # m => op'[n] = op[n]
    BY <1>3 DEF Crash, Typed, TypeOK, Lawfully, Captured, NoWork
  <2>2. \A n \in Machine : Lawfully(n)
    BY <1>3, <2>1, ServingKeeps, OthersLawful
  <2>3. UNCHANGED <<remote, main, flight>>
    BY <1>3, ServingKeeps
  <2> QED BY <1>0, <2>2, <2>3, LocalGoverned
<1>4. ASSUME NEW o \in flight, Land(o) PROVE Governed'
  <2>1. /\ remote' = o.new /\ Change(remote, remote', o.base, o.task) /\ Known(o.new.owner)
        /\ main'.merged = IF o.base = NoMain THEN main.merged ELSE main.merged \union {o.task}
    BY <1>4, LandLawful
  <2>2. remote'.merged = IF o.base = NoMain THEN remote.merged ELSE remote.merged \union {o.task}
    BY <2>1 DEF Change, Takes, GivesBack, Holding, SameContent, Accepts, Records
  <2>3. main'.merged = remote'.merged
    BY <2>1, <2>2 DEF Governed
  <2>4. flight' \subseteq flight /\ UNCHANGED <<op, train, inst>>
    BY <1>4 DEF Land, localVars
  <2> QED BY <2>1, <2>3, <2>4 DEF Governed, Allowed, Lawful, Known, Captured
<1>5. CASE UNCHANGED <<remote, flight, op, train>> /\ main'.merged = main.merged
  BY <1>0, <1>5, LocalGoverned, OthersLawful
<1>6. ASSUME NEW c \in Command, Submit(c) PROVE Governed'
  BY <1>5, <1>6 DEF Submit, remoteVars
<1>7. CASE Tick
  BY <1>5, <1>7 DEF Tick, remoteVars, localVars
<1>8. CASE ExternalPush
  BY <1>5, <1>8 DEF ExternalPush, Typed, TypeOK, Main, localVars
<1>9. CASE UNCHANGED vars
  BY <1>5, <1>9 DEF vars
<1> QED BY <1>1, <1>2, <1>3, <1>4, <1>6, <1>7, <1>8, <1>9 DEF Next

LEMMA InitGoverned == Init => Governed
<1> SUFFICES ASSUME Init PROVE Governed
  OBVIOUS
<1>1. remote.owner = NoOwner /\ remote.merged = {} /\ main.merged = {}
  BY DEF Init, Genesis
<1>2. \A m \in Machine : op[m] = NoOp /\ train[m].phase = "idle"
  BY DEF Init, NoWork
<1> QED BY <1>1, <1>2, NullsAssumption DEF Init, Governed, Known, Captured

LEMMA AuthorityStep ==
  ASSUME Typed, Governed, [Next]_vars
  PROVE  [Authority!Next]_(Authority!vars)
<1>1. CASE UNCHANGED <<remote, main.merged>>
  BY <1>1 DEF Authority!vars
<1>2. ASSUME NEW o \in flight, Land(o) PROVE [Authority!Next]_(Authority!vars)
  <2>1. /\ Change(remote, remote', o.base, o.task)
        /\ main'.merged = IF o.base = NoMain THEN main.merged ELSE main.merged \union {o.task}
    BY <1>2, LandLawful
  <2>2. CASE o.base = NoMain /\ Takes(remote, remote')
    BY <2>1, <2>2 DEF Takes, SameContent, Authority!TakeOver, Authority!Next
  <2>3. CASE o.base = NoMain /\ GivesBack(remote, remote')
    BY <2>1, <2>3, NullsAssumption DEF GivesBack, SameContent, Authority!Release, Authority!Next
  <2>4. CASE o.base = NoMain /\ Holding(remote, remote') /\ SameContent(remote, remote')
    BY <2>1, <2>4 DEF Holding, SameContent, Authority!vars
  <2>5. CASE o.base = NoMain /\ Holding(remote, remote') /\ Accepts(remote, remote')
    <3>1. PICK c \in Command :
            /\ c \notin remote.applied /\ remote'.applied = remote.applied \union {c}
            /\ remote'.effects = [remote.effects EXCEPT ![c] = remote.effects[c] + 1]
            /\ remote'.merged = remote.merged
      BY <2>5 DEF Accepts
    <3>2. Authority!Accept(c)
      BY <2>1, <2>5, <3>1, NullsAssumption DEF Holding, Authority!Accept
    <3> QED BY <3>2 DEF Authority!Next
  <2>6. CASE /\ o.base # NoMain /\ o.task \in Task /\ Holding(remote, remote')
             /\ Records(remote, remote', o.task)
    <3>1. CASE o.task \in remote.merged
      BY <2>1, <2>6, <3>1 DEF Records, Holding, Governed, Authority!vars
    <3>2. CASE o.task \notin remote.merged
      <4>1. Authority!Integrate(o.task)
        BY <2>1, <2>6, <3>2, NullsAssumption DEF Records, Holding, Authority!Integrate
      <4> QED BY <2>6, <4>1 DEF Authority!Next
    <3> QED BY <3>1, <3>2
  <2> QED BY <2>1, <2>2, <2>3, <2>4, <2>5, <2>6 DEF Change
<1>3. ASSUME NEW m \in Machine, Serving(m) \/ Crash(m) PROVE UNCHANGED <<remote, main.merged>>
  BY <1>3, ServingKeeps
<1>4. ASSUME NEW m \in Machine, Publishing(m) PROVE UNCHANGED <<remote, main.merged>>
  BY <1>4, PublishingCases DEF remoteVars
<1>5. ASSUME ExternalPush PROVE UNCHANGED <<remote, main.merged>>
  BY <1>5 DEF ExternalPush, Typed, TypeOK, Main
<1>6. ASSUME Tick \/ (\E c \in Command : Submit(c)) \/ UNCHANGED vars
      PROVE  UNCHANGED <<remote, main.merged>>
  BY <1>6 DEF Tick, Submit, vars, remoteVars
<1> QED BY <1>1, <1>2, <1>3, <1>4, <1>5, <1>6 DEF Next

LEMMA AuthorityInit == Init => Authority!Init
BY DEF Init, Genesis, Authority!Init

(* The remote state evolves as StateAuthority promises, whatever the       *)
(* network, the clocks and the controllers do: the authority passes by     *)
(* increasing epochs, only its holder changes anything, a command takes    *)
(* effect once, and main and the snapshot record an integration in one     *)
(* step (controller.go:282, git.go:383).                                   *)
THEOREM Implements == Spec => AuthoritySpec
<1>1. Init => Governed
  BY InitGoverned
<1>2. Typed /\ Typed' /\ Inductive /\ Governed /\ [Next]_vars => Governed'
  BY GovernedStays
<1>3. Typed /\ Governed /\ [Next]_vars => [Authority!Next]_(Authority!vars)
  BY AuthorityStep
<1> QED BY <1>1, <1>2, <1>3, Invariance, AuthorityInit, PTL
        DEF Spec, AuthoritySpec, Authority!Spec
=============================================================================
