--------------------------- MODULE ControllerLease ---------------------------
(***************************************************************************)
(* The supervisors of one project and the state they share: the remote     *)
(* aih-state ref with the controller lease, main, and each machine's local *)
(* command queue (internal/engine/controller.go, internal/gitx/git.go,     *)
(* internal/store/store.go and the publication in                          *)
(* internal/engine/integration.go).                                        *)
(*                                                                         *)
(* A publication is split the way the code and the network split it: the   *)
(* commit is built on the cached head, a push is sent, the server applies  *)
(* or refuses it (perhaps long after its sender gave up), an answer        *)
(* arrives or is lost, the refs are read back, the push is retried or      *)
(* given up, the cached snapshot and SQLite follow.  Any process may crash *)
(* between any two of these, and each machine has a clock of its own.      *)
(***************************************************************************)
EXTENDS Integers, FiniteSets

CONSTANTS
  Machine,      \* the machines a supervisor may run on
  Command,      \* the commands an operator submits
  Home,         \* Home[c]: the machine whose SQLite queue holds command c
  Task,         \* tasks that reach the merge train
  NoOwner, NoOp, NoMain, NoCommand, NoTask,
  LeaseLen,     \* lease_seconds
  Grace,        \* the five seconds acquire adds to a foreign expiry
  Skew,         \* Skew[m]: how far the clock of m is ahead of true time
  MaxAttempts,  \* pushes per publication (20 in the code)
  SaveMayFail,  \* whether a SQLite write may fail
  MaxClock,     \* bound on time
  Starts,       \* Starts[m]: bound on supervisor starts on m
  MaxExternal   \* bound on pushes to main from outside AIH

ASSUME ConstantsAssumption ==
  /\ Home \in [Command -> Machine]
  /\ LeaseLen \in Nat \ {0, 1}
  /\ Grace \in Nat
  /\ Skew \in [Machine -> Nat]
  /\ MaxAttempts \in Nat \ {0}
  /\ SaveMayFail \in BOOLEAN
  /\ MaxClock \in Nat
  /\ Starts \in [Machine -> Nat]
  /\ MaxExternal \in Nat

(* The clocks of two machines differ by no more than the grace of acquire. *)
ASSUME ClocksAssumption ==
  \A m, n \in Machine : Skew[m] <= Skew[n] + Grace

Owner == Machine \X Nat   \* model.ID() of one Controller: <<machine, start>>
Stage == {"MERGE_READY", "MERGE_TRAIN", "POST_VERIFY", "SYNC_REQUIRED",
          "BLOCKED_HUMAN"}

(* One commit of aih-state: its place in the ancestry and its snapshot. *)
Commit ==
  [depth: Nat, epoch: Nat, owner: Owner \union {NoOwner}, expires: Nat,
   applied: SUBSET Command, effects: [Command -> Nat],
   merged: SUBSET Task, stage: [Task -> Stage]]

Genesis ==
  [depth |-> 0, epoch |-> 0, owner |-> NoOwner, expires |-> 0,
   applied |-> {}, effects |-> [c \in Command |-> 0],
   merged |-> {}, stage |-> [t \in Task |-> "MERGE_READY"]]

Main == [merged: SUBSET Task, external: Nat]

Kind == {"acquire", "recover", "renew", "command", "reserve", "integrate",
         "demote", "block", "release"}

(* A publication in progress: the refs it replaces and their new values.   *)
(* base is NoMain when main is not part of the transaction.                *)
Op == [kind: Kind, old: Commit, new: Commit, base: Main \union {NoMain},
       task: Task \union {NoTask}, deadline: Nat]

ASSUME NullsAssumption ==
  /\ NoOwner \notin Owner
  /\ NoOp \notin Op
  /\ NoCommand \notin Command
  /\ NoTask \notin Task
  /\ NoMain \notin Main

VARIABLES
  clock,    \* true time
  remote,   \* the commit refs/heads/aih-state points at
  main,     \* what refs/heads/main contains
  landed,   \* every commit that ever was aih-state's head (history)
  flight,   \* pushes the server has not evaluated yet
  mode,     \* mode[m]: where Serve is on machine m
  inst,     \* inst[m]: starts of the supervisor on m, so Me(m) is unique
  head,     \* head[m]: Controller.s and Controller.head
  op,       \* op[m]: the publication that holds Controller.mu
  pub,      \* pub[m]: where publishWithRetry is
  ack,      \* ack[m]: the command being processed and its outcome so far
  train,    \* train[m]: the task the merge goroutine integrates
  status    \* status[c]: the command's row in SQLite

remoteVars == <<remote, main, landed>>
localVars  == <<ack, train, status>>
vars == <<clock, remote, main, landed, flight, mode, inst, head, op, pub,
          ack, train, status>>

-----------------------------------------------------------------------------
Idle   == [cmd |-> NoCommand, outcome |-> "none"]
NoWork == [task |-> NoTask, base |-> NoMain, phase |-> "idle"]
Closed == [pc |-> "none", tries |-> 0, transient |-> FALSE, seen |-> "none"]

Mode    == {"down", "acquire", "recover", "serve", "fatal", "orderly"}
Attempt == [pc: {"none", "push", "await", "main"}, tries: Nat, transient: BOOLEAN,
            seen: {"none", "old", "new", "unresolved"}]
Handled == [cmd: Command \union {NoCommand}, outcome: {"none", "pending", "ok", "error"}]
Work    == [task: Task \union {NoTask}, base: Main \union {NoMain},
            phase: {"idle", "reserving", "reserved", "publishing", "failed", "settling"}]

TypeOK ==
  /\ clock \in Nat
  /\ remote \in Commit
  /\ main \in Main
  /\ landed \in SUBSET Commit
  /\ flight \in SUBSET Op
  /\ mode \in [Machine -> Mode]
  /\ inst \in [Machine -> Nat]
  /\ head \in [Machine -> Commit]
  /\ op \in [Machine -> Op \union {NoOp}]
  /\ pub \in [Machine -> Attempt]
  /\ ack \in [Machine -> Handled]
  /\ train \in [Machine -> Work]
  /\ status \in [Command -> {"none", "queued", "accepted", "failed"}]

Init ==
  /\ clock = 0
  /\ remote = Genesis
  /\ main = [merged |-> {}, external |-> 0]
  /\ landed = {Genesis}
  /\ flight = {}
  /\ mode = [m \in Machine |-> "down"]
  /\ inst = [m \in Machine |-> 0]
  /\ head = [m \in Machine |-> Genesis]
  /\ op = [m \in Machine |-> NoOp]
  /\ pub = [m \in Machine |-> Closed]
  /\ ack = [m \in Machine |-> Idle]
  /\ train = [m \in Machine |-> NoWork]
  /\ status = [c \in Command |-> "none"]

-----------------------------------------------------------------------------
(* The lease as one machine sees it. *)
Now(m) == clock + Skew[m]
Me(m)  == <<m, inst[m]>>

(* persist refuses to go on unless the cached lease is its own and unexpired. *)
Live(m) == head[m].owner = Me(m) /\ head[m].expires > Now(m)

(* acquire refuses a lease that is held until Grace after its expiry. *)
FreeWithoutGrace(h, now) == h.owner = NoOwner \/ h.expires <= now   \* mutant
Free(h, now) == h.owner = NoOwner \/ h.expires + Grace <= now

RenewalDue(m) == 2 * head[m].expires <= 2 * Now(m) + LeaseLen

(* The snapshots the operations publish on top of a head h. *)
Extended(h, now) == [h EXCEPT !.depth = h.depth + 1, !.expires = now + LeaseLen]
Taken(h, m, now) ==
  [Extended(h, now) EXCEPT !.epoch = h.epoch + 1, !.owner = <<m, inst[m] + 1>>]
Recovered(h, now) ==
  [Extended(h, now) EXCEPT !.stage = [t \in Task |->
     IF h.stage[t] = "MERGE_TRAIN" THEN "SYNC_REQUIRED" ELSE h.stage[t]]]
Accepted(h, c, now) ==
  [Extended(h, now) EXCEPT !.applied = h.applied \union {c},
     !.effects = [h.effects EXCEPT ![c] = h.effects[c] + 1]]
Staged(h, t, s, now) ==
  [Extended(h, now) EXCEPT !.stage = [h.stage EXCEPT ![t] = s]]
Integrated(h, t, now) ==
  [Staged(h, t, "POST_VERIFY", now) EXCEPT !.merged = h.merged \union {t}]
ReleasedBackdated(h, now) ==   \* mutant
  [h EXCEPT !.depth = h.depth + 1, !.owner = NoOwner, !.expires = now - LeaseLen]
Released(h, now) ==
  [h EXCEPT !.depth = h.depth + 1, !.owner = NoOwner, !.expires = now]

(* persist: take Controller.mu and hand a commit on the cached head, and   *)
(* perhaps main's new value, to publishWithRetry.                          *)
Persist(m, kind, new, base, task) ==
  /\ Live(m)
  /\ op[m] = NoOp
  /\ op' = [op EXCEPT ![m] =
       [kind |-> kind, old |-> head[m], new |-> new, base |-> base,
        task |-> task, deadline |-> head[m].expires]]
  /\ pub' = [pub EXCEPT ![m] = [Closed EXCEPT !.pc = "push"]]

(* The process is gone and its memory with it. *)
Down(m) ==
  /\ mode' = [mode EXCEPT ![m] = "down"]
  /\ head' = [head EXCEPT ![m] = Genesis]

(* fail: the error reaches Serve and the context is cancelled. *)
Stop(m) == mode' = [mode EXCEPT ![m] = IF mode[m] = "serve" THEN "fatal" ELSE @]

-----------------------------------------------------------------------------
(* Serve: supervisor.lock admits one process, which loads the remote state *)
(* and publishes a lease of the next epoch on it.                          *)
Acquire(m) ==
  /\ mode[m] = "down"
  /\ inst[m] < Starts[m]
  /\ Free(remote, Now(m))
  /\ mode' = [mode EXCEPT ![m] = "acquire"]
  /\ inst' = [inst EXCEPT ![m] = inst[m] + 1]
  /\ op' = [op EXCEPT ![m] =
       [kind |-> "acquire", old |-> remote, new |-> Taken(remote, m, Now(m)),
        base |-> NoMain, task |-> NoTask, deadline |-> Now(m) + LeaseLen]]
  /\ pub' = [pub EXCEPT ![m] = [Closed EXCEPT !.pc = "push"]]
  /\ UNCHANGED <<clock, remoteVars, flight, head, localVars>>

(* recover: what an earlier controller left half done is demoted; a        *)
(* snapshot with nothing to demote is not published again.                 *)
Recover(m) ==
  /\ mode[m] = "recover"
  /\ op[m] = NoOp
  /\ \/ /\ \E t \in Task : head[m].stage[t] = "MERGE_TRAIN"
        /\ Persist(m, "recover", Recovered(head[m], Now(m)), NoMain, NoTask)
        /\ UNCHANGED <<mode, head>>
     \/ /\ \A t \in Task : head[m].stage[t] # "MERGE_TRAIN"
        /\ Live(m)
        /\ mode' = [mode EXCEPT ![m] = "serve"]
        /\ UNCHANGED <<op, pub, head>>
     \/ /\ ~Live(m)
        /\ Down(m)
        /\ UNCHANGED <<op, pub>>
  /\ UNCHANGED <<clock, remoteVars, flight, inst, localVars>>

(* heartbeat: a pulse publishes nothing before the lease is at half-life,  *)
(* and a pulse that finds the lease gone stops the supervisor.             *)
Heartbeat(m) ==
  /\ mode[m] \in {"serve", "fatal", "orderly"}
  /\ op[m] = NoOp
  /\ \/ /\ RenewalDue(m)
        /\ Persist(m, "renew", Extended(head[m], Now(m)), NoMain, NoTask)
        /\ UNCHANGED mode
     \/ /\ ~Live(m)
        /\ mode[m] = "serve"
        /\ Stop(m)
        /\ UNCHANGED <<op, pub>>
  /\ UNCHANGED <<clock, remoteVars, flight, inst, head, localVars>>

-----------------------------------------------------------------------------
(* The local command queue. *)
Submit(c) ==
  /\ status[c] = "none"
  /\ status' = [status EXCEPT ![c] = "queued"]
  /\ UNCHANGED <<clock, remoteVars, flight, mode, inst, head, op, pub,
                 ack, train>>

TakeCommandAgain(m, c) ==   \* mutant: the applied IDs are not consulted
  /\ mode[m] = "serve"
  /\ Home[c] = m
  /\ status[c] = "queued"
  /\ ack[m] = Idle
  /\ Persist(m, "command", Accepted(head[m], c, Now(m)), NoMain, NoTask)
  /\ ack' = [ack EXCEPT ![m] = [cmd |-> c, outcome |-> "pending"]]
  /\ UNCHANGED <<clock, remoteVars, flight, mode, inst, head, train, status>>

(* commands: an ID the snapshot already holds is only acknowledged;        *)
(* otherwise the command and its ID are published in one snapshot.         *)
TakeCommand(m, c) ==
  /\ mode[m] = "serve"
  /\ Home[c] = m
  /\ status[c] = "queued"
  /\ ack[m] = Idle
  /\ op[m] = NoOp
  /\ \/ /\ c \in head[m].applied
        /\ status' = [status EXCEPT ![c] = "accepted"]
        /\ UNCHANGED <<op, pub, ack, mode>>
     \/ /\ c \notin head[m].applied
        /\ Persist(m, "command", Accepted(head[m], c, Now(m)), NoMain, NoTask)
        /\ ack' = [ack EXCEPT ![m] = [cmd |-> c, outcome |-> "pending"]]
        /\ UNCHANGED <<status, mode>>
     \/ /\ c \notin head[m].applied
        /\ ~Live(m)
        /\ ack' = [ack EXCEPT ![m] = [cmd |-> c, outcome |-> "error"]]
        /\ Stop(m)
        /\ UNCHANGED <<status, op, pub>>
  /\ UNCHANGED <<clock, remoteVars, flight, inst, head, train>>

(* commands: after persist returned (and Controller.mu was released) the   *)
(* row is marked accepted or failed.  The supervisor stops on an error, of *)
(* the publication or of the acknowledgement itself.                       *)
AckCommand(m) ==
  /\ ack[m].outcome \in {"ok", "error"}
  /\ ack' = [ack EXCEPT ![m] = Idle]
  /\ \/ /\ status' = [status EXCEPT ![ack[m].cmd] =
             IF ack[m].outcome = "ok" THEN "accepted" ELSE "failed"]
        /\ UNCHANGED mode
     \/ /\ SaveMayFail
        /\ Stop(m)
        /\ UNCHANGED status
  /\ UNCHANGED <<clock, remoteVars, flight, inst, head, op, pub, train>>

-----------------------------------------------------------------------------
(* The merge goroutine. *)

(* integrate: capture the fetched main as base, build the merge on it and  *)
(* move the task to MERGE_TRAIN.                                           *)
Reserve(m, t) ==
  /\ mode[m] = "serve"
  /\ train[m] = NoWork
  /\ head[m].stage[t] = "MERGE_READY"
  /\ Persist(m, "reserve", Staged(head[m], t, "MERGE_TRAIN", Now(m)), NoMain, t)
  /\ train' = [train EXCEPT ![m] = [task |-> t, base |-> main, phase |-> "reserving"]]
  /\ UNCHANGED <<clock, remoteVars, flight, mode, inst, head, ack, status>>

(* integrate: after the checks passed on the merge commit, publish main,   *)
(* the task ref and the snapshot together.                                 *)
Integrate(m) ==
  /\ mode[m] = "serve"
  /\ train[m].phase = "reserved"
  /\ op[m] = NoOp
  /\ \/ /\ Persist(m, "integrate", Integrated(head[m], train[m].task, Now(m)),
                   train[m].base, train[m].task)
        /\ train' = [train EXCEPT ![m].phase = "publishing"]
     \/ /\ ~Live(m)
        /\ train' = [train EXCEPT ![m].phase = "failed"]
        /\ UNCHANGED <<op, pub>>
  /\ UNCHANGED <<clock, remoteVars, flight, mode, inst, head, ack, status>>

(* integrate, after a failed publication: reload the remote state.  Lost   *)
(* authority or an unreadable remote stops the supervisor; a main that is  *)
(* no longer base sends the task back to synchronization; anything else    *)
(* (a main that cannot be read, too) asks the operator.                    *)
Reload(m) ==
  /\ mode[m] = "serve"
  /\ train[m].phase = "failed"
  /\ op[m] = NoOp
  /\ LET t == train[m].task
         owned == remote = head[m] /\ remote.owner = Me(m) /\ Live(m)
         Settle(kind, stage) ==
           /\ owned
           /\ Persist(m, kind, Staged(head[m], t, stage, Now(m)), NoMain, t)
           /\ train' = [train EXCEPT ![m].phase = "settling"]
           /\ UNCHANGED mode
     IN \/ main # train[m].base /\ Settle("demote", "SYNC_REQUIRED")
        \/ Settle("block", "BLOCKED_HUMAN")
        \/ /\ Stop(m)
           /\ train' = [train EXCEPT ![m] = NoWork]
           /\ UNCHANGED <<op, pub>>
  /\ UNCHANGED <<clock, remoteVars, flight, inst, head, ack, status>>

-----------------------------------------------------------------------------
(* What the caller of a publication does when it returns.  published: the  *)
(* refs are known to have moved; saved: SQLite followed.  The cached head  *)
(* follows a publication even when SQLite does not, and the caller then    *)
(* sees an error all the same.                                             *)
Return(m, published, saved) ==
  LET kind == op[m].kind
      ok   == published /\ saved
      next == CASE kind = "acquire"   -> IF ok THEN "recover" ELSE "down"
                [] kind = "recover"   -> IF ok THEN "serve" ELSE "down"
                [] kind = "release"   -> "down"
                [] kind = "integrate" -> mode[m]
                [] OTHER -> IF ok \/ mode[m] # "serve" THEN mode[m] ELSE "fatal"
  IN /\ op' = [op EXCEPT ![m] = NoOp]
     /\ pub' = [pub EXCEPT ![m] = Closed]
     /\ head' = [head EXCEPT ![m] = IF next = "down" THEN Genesis
                                    ELSE IF published THEN op[m].new ELSE head[m]]
     /\ mode' = [mode EXCEPT ![m] = next]
     /\ ack' = [ack EXCEPT ![m] =
          IF kind = "command"
          THEN [ack[m] EXCEPT !.outcome = IF ok THEN "ok" ELSE "error"]
          ELSE ack[m]]
     /\ train' = [train EXCEPT ![m] =
          CASE kind = "reserve" /\ ok        -> [train[m] EXCEPT !.phase = "reserved"]
            [] kind = "integrate" /\ ~ok     -> [train[m] EXCEPT !.phase = "failed"]
            [] kind \in {"renew", "command"} -> train[m]
            [] OTHER                         -> NoWork]

Succeed(m) == \E saved \in BOOLEAN : (saved \/ SaveMayFail) /\ Return(m, TRUE, saved)
Fail(m)    == Return(m, FALSE, FALSE)

Expired(m) == Now(m) >= op[m].deadline

(* What main becomes, and whether every ref of a push has its old value.   *)
Merged(o) == [o.base EXCEPT !.merged = o.base.merged \union {o.task}]
CurrentForced(o, state, trunk) == TRUE   \* mutant: a plain forced push
CurrentStateOnly(o, state, trunk) == state = o.old   \* mutant: no lease on main
Current(o, state, trunk) == state = o.old /\ o.base \in {NoMain, trunk}

(* The context the publication runs under is cancelled when the supervisor *)
(* stops; the heartbeat's only once the other goroutines have ended.       *)
Cancelled(m) == mode[m] \in {"fatal", "orderly"} /\ op[m].kind # "release"

(* One attempt.  The deadline is the expiry the controller published last, *)
(* so a push is sent only while that lease runs.  A push whose old values  *)
(* are gone already can only be refused, so it need not be kept in flight. *)
Push(m) ==
  /\ pub[m].pc = "push"
  /\ ~Expired(m)
  /\ ~Cancelled(m) \/ op[m].kind = "renew"
  /\ flight' = flight \union {o \in {op[m]} : Current(o, remote, main)}
  /\ pub' = [pub EXCEPT ![m].pc = "await", ![m].tries = pub[m].tries + 1]
  /\ UNCHANGED <<clock, remoteVars, mode, inst, head, op, localVars>>

LandStateOnly(o) ==   \* mutant: the transaction is not atomic
  /\ o \in flight
  /\ Current(o, remote, main)
  /\ remote' = o.new
  /\ landed' = landed \union {o.new}
  /\ flight' = {p \in flight : Current(p, remote', main)}
  /\ UNCHANGED <<clock, main, mode, inst, head, op, pub, localVars>>

(* The server evaluates a push: every ref still has the old value of its   *)
(* force-with-lease and all of them move, or none does.  The pushes this   *)
(* makes stale are refused.                                                *)
Land(o) ==
  /\ o \in flight
  /\ Current(o, remote, main)
  /\ remote' = o.new
  /\ landed' = landed \union {o.new}
  /\ main' = IF o.base = NoMain THEN main ELSE Merged(o)
  /\ flight' = {p \in flight : Current(p, remote', main')}
  /\ UNCHANGED <<clock, mode, inst, head, op, pub, localVars>>

Acknowledged(m) ==
  /\ pub[m].pc = "await"
  /\ op[m].new \in landed
  /\ Succeed(m)
  /\ UNCHANGED <<clock, remoteVars, flight, inst, status>>

(* ctx.Err between two steps: the lease ran out or the supervisor stops.   *)
GiveUp(m) ==
  /\ op[m] # NoOp
  /\ Expired(m) \/ Cancelled(m)
  /\ Fail(m)
  /\ UNCHANGED <<clock, remoteVars, flight, inst, status>>

-----------------------------------------------------------------------------
(* publishWithRetry reads every ref back before it believes anything.      *)

ConcludeUnconfirmed(m, transient, seen) ==   \* mutant: silence is success
  IF seen = "old" THEN Fail(m) ELSE Succeed(m)
ConcludeUncounted(m, transient, seen) ==   \* mutant: attempts start over
  LET again == seen = "old" /\ transient
  IN \/ seen = "new" /\ Succeed(m)
     \/ /\ again
        /\ pub' = [pub EXCEPT ![m].pc = "push", ![m].tries = 0]
        /\ UNCHANGED <<op, head, mode, ack, train>>
     \/ seen # "new" /\ ~again /\ Fail(m)

(* After the last ref: all new is success, all old may be retried after a  *)
(* transient error, everything else is an error.                           *)
Conclude(m, transient, seen) ==
  LET again == seen = "old" /\ transient /\ pub[m].tries < MaxAttempts
  IN \/ seen = "new" /\ Succeed(m)
     \/ /\ again
        /\ pub' = [pub EXCEPT ![m].pc = "push"]
        /\ UNCHANGED <<op, head, mode, ack, train>>
     \/ seen # "new" /\ ~again /\ Fail(m)

(* The push was refused, the transport failed or the attempt timed out,    *)
(* and the server has applied it, will apply it or never will.  The state  *)
(* ref is read first; a main in the transaction is read after it.          *)
PushFails(m) ==
  /\ pub[m].pc = "await"
  /\ ~Expired(m)
  /\ \E transient \in BOOLEAN, seen \in {"old", "new", "unresolved"} :
       /\ seen = "old" => remote = op[m].old
       /\ seen = "new" => remote = op[m].new
       /\ IF op[m].base = NoMain
          THEN Conclude(m, transient, seen)
          ELSE /\ pub' = [pub EXCEPT ![m].pc = "main", ![m].transient = transient,
                                     ![m].seen = seen]
               /\ UNCHANGED <<op, head, mode, ack, train>>
  /\ UNCHANGED <<clock, remoteVars, flight, inst, status>>

ReadMain(m) ==
  /\ pub[m].pc = "main"
  /\ \E seen \in {"old", "new", "unresolved"} :
       /\ seen = "old" => main = op[m].base
       /\ seen = "new" => main = Merged(op[m])
       /\ Conclude(m, pub[m].transient, IF seen = pub[m].seen THEN seen ELSE "mixed")
  /\ UNCHANGED <<clock, remoteVars, flight, inst, status>>

(* A ref that is neither old nor new, or that cannot be read for a reason  *)
(* that is not transient.                                                  *)
Diverged(m) ==
  /\ pub[m].pc \in {"await", "main"}
  /\ Fail(m)
  /\ UNCHANGED <<clock, remoteVars, flight, inst, status>>

-----------------------------------------------------------------------------
(* The end of a supervisor. *)

(* A stop or handoff command, or a signal. *)
StopRequested(m) ==
  /\ mode[m] = "serve"
  /\ ack[m] = Idle
  /\ mode' = [mode EXCEPT ![m] = "orderly"]
  /\ UNCHANGED <<clock, remoteVars, flight, inst, head, op, pub, localVars>>

(* Serve, after jobs.Wait and the heartbeat: publish the released lease.   *)
Release(m) ==
  /\ mode[m] = "orderly"
  /\ op[m] = NoOp
  /\ train' = [train EXCEPT ![m] = NoWork]
  /\ \/ /\ Persist(m, "release", Released(head[m], Now(m)), NoMain, NoTask)
        /\ UNCHANGED <<mode, head>>
     \/ /\ ~Live(m)
        /\ Down(m)
        /\ UNCHANGED <<op, pub>>
  /\ UNCHANGED <<clock, remoteVars, flight, inst, ack, status>>

(* Serve, after an error: nothing is published, the lease runs out.        *)
Exit(m) ==
  /\ mode[m] = "fatal"
  /\ op[m] = NoOp
  /\ ack[m] = Idle
  /\ Down(m)
  /\ train' = [train EXCEPT ![m] = NoWork]
  /\ UNCHANGED <<clock, remoteVars, flight, inst, op, pub, ack, status>>

Crash(m) ==
  /\ mode[m] # "down"
  /\ Down(m)
  /\ op' = [op EXCEPT ![m] = NoOp]
  /\ pub' = [pub EXCEPT ![m] = Closed]
  /\ ack' = [ack EXCEPT ![m] = Idle]
  /\ train' = [train EXCEPT ![m] = NoWork]
  /\ UNCHANGED <<clock, remoteVars, flight, inst, status>>

-----------------------------------------------------------------------------
Tick ==
  /\ clock < MaxClock
  /\ clock' = clock + 1
  /\ UNCHANGED <<remoteVars, flight, mode, inst, head, op, pub, localVars>>

(* Somebody pushes to main without AIH. *)
ExternalPush ==
  /\ main.external < MaxExternal
  /\ main' = [main EXCEPT !.external = main.external + 1]
  /\ UNCHANGED <<clock, remote, landed, flight, mode, inst, head, op, pub,
                 localVars>>

Publishing(m) ==
  Push(m) \/ Acknowledged(m) \/ PushFails(m) \/ ReadMain(m) \/ Diverged(m)
    \/ GiveUp(m)

Serving(m) ==
  \/ Acquire(m) \/ Recover(m) \/ Heartbeat(m)
  \/ \E c \in Command : TakeCommand(m, c)
  \/ AckCommand(m)
  \/ \E t \in Task : Reserve(m, t)
  \/ Integrate(m) \/ Reload(m)
  \/ StopRequested(m) \/ Release(m) \/ Exit(m)

Next ==
  \/ \E m \in Machine : Publishing(m) \/ Serving(m) \/ Crash(m)
  \/ \E o \in flight : Land(o)
  \/ \E c \in Command : Submit(c)
  \/ Tick
  \/ ExternalPush

Spec == Init /\ [][Next]_vars

(* Every goroutine that publishes runs under a deadline, so each of its    *)
(* steps is taken eventually; nothing else is promised to happen.          *)
FairSpec == Spec /\ \A m \in Machine : WF_vars(Publishing(m))

-----------------------------------------------------------------------------
(* A controller works under its lease until it starts to give it back. *)
Releasing(m) == op[m] # NoOp /\ op[m].kind = "release"
Holds(m) == Live(m) /\ ~Releasing(m)

(* Two supervisors never both believe that they hold the lease, although   *)
(* each looks only at its cached snapshot and its own clock: clocks that   *)
(* differ by no more than Grace cannot break the takeover rule of acquire. *)
OneController == \A m, n \in Machine : Holds(m) /\ Holds(n) => m = n

(* What a supervisor was told is published stays published: its cached     *)
(* head is in the history of aih-state and the current snapshot keeps      *)
(* every command and every integration of it, whoever published since; a   *)
(* command marked accepted in SQLite is in the current snapshot.           *)
AcknowledgedDurable ==
  /\ \A m \in Machine :
       /\ head[m] \in landed
       /\ head[m].depth <= remote.depth
       /\ head[m].applied \subseteq remote.applied
       /\ head[m].merged \subseteq remote.merged
  /\ \A c \in Command : status[c] = "accepted" => c \in remote.applied

(* A takeover lands only where no lease is held, or Grace after the expiry *)
(* of the lease it replaces, by the clock of the machine that takes over,  *)
(* even when the owner renewed after that machine had read the state.      *)
NoStealing ==
  [][remote'.epoch # remote.epoch =>
       \/ remote.owner = NoOwner
       \/ remote.expires + Grace <= Now(remote'.owner[1])]_vars

(* Nothing anybody pushed to main is ever dropped by an integration that   *)
(* was prepared on an older main: main only advances.                      *)
MainAdvances ==
  [][main'.external >= main.external /\ main.merged \subseteq main'.merged]_vars

(* The lease, the accepted commands and the integrations of the remote     *)
(* state evolve as StateAuthority promises: increasing epochs, changes by  *)
(* the holder alone, every command once, and main and snapshot in one step.*)
Authority == INSTANCE StateAuthority WITH
  epoch <- remote.epoch, owner <- remote.owner, applied <- remote.applied,
  effects <- remote.effects, recorded <- remote.merged, trunk <- main.merged
AuthoritySpec == Authority!Spec

(* publishWithRetry always returns: its attempts are bounded, and so       *)
(* Controller.mu, which it is called under, is always released again.      *)
PublicationReturns == \A m \in Machine : op[m] # NoOp ~> op[m] = NoOp

(* A command the operator is told has failed is not in the accepted state. *)
FailedNotAccepted == \A c \in Command : status[c] = "failed" => c \notin remote.applied

(* An integrated task does not return to synchronization: the edges of     *)
(* POST_VERIFY lead to DONE and BLOCKED_HUMAN.                             *)
IntegratedStays == \A t \in remote.merged : remote.stage[t] # "SYNC_REQUIRED"
=============================================================================
