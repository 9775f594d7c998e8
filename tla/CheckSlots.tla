------------------------------ MODULE CheckSlots ------------------------------
(***************************************************************************)
(* Native checks of several projects on one machine, and the release gates *)
(* that share its heavy-check slots: internal/engine/check_resources.go,   *)
(* internal/platform/slots.go and cmd/release/main.go.                     *)
(*                                                                         *)
(* Slots and waiter registrations are OS locks: their holder's death frees *)
(* them.  A gate looks at them by taking and closing them, which another   *)
(* gate can meet: what a gate sees is in Sees and Spare.  A poll that      *)
(* meets another's probe is a poll that is repeated.                       *)
(***************************************************************************)
EXTENDS Integers, Sequences, FiniteSets, SequencesExt

CONSTANTS
  Projects,       \* supervisors, one per project
  Checks, Heavy,  \* the checks of the projects' tasks, and the heavy ones
  Jobs,           \* the checks that each project has, as pairs
  Gates,          \* release gates (cmd/release)
  None,
  Slots,          \* the machine's MaxHeavyChecks
  LocalSlots,     \* the project's limit for each class
  WaiterSlots,    \* priorityWaiterSlots (8)
  YieldRetries,   \* releaseYieldRetries (3)
  MaxAsks,        \* bound: checks begun by each project
  MaxFailures,    \* bound: failed publications that leave a check's record behind
  MaxEnds         \* bound: deaths of supervisors

ASSUME SlotsAssumption ==
  /\ IsFiniteSet(Checks) /\ Heavy \subseteq Checks /\ Jobs \subseteq Projects \X Checks
  /\ Gates \intersect (Projects \X Checks) = {}
  /\ None \notin Gates /\ None \notin Projects \X Checks
  /\ Slots \in 1..8 /\ LocalSlots \in Nat \ {0} /\ WaiterSlots \in Nat \ {0}
  /\ YieldRetries \in Nat \ {0}
  /\ MaxAsks \in [Projects -> Nat] /\ {MaxFailures, MaxEnds} \subseteq Nat

VARIABLES
  records,  \* the published Capacity.Verification of each project
  call,     \* where each project's check is in checkPermit
  tokens,   \* the local permits in use, per class
  waiters,  \* registered priority waiters
  slot,     \* the holder of each machine slot
  gate,     \* each release gate
  up,       \* the supervisors that run
  spent     \* asks of each project, failures, deaths

vars == <<records, call, tokens, waiters, slot, gate, up, spent>>

Class(c) == IF c \in Heavy THEN "heavy" ELSE "light"
Turns(class) == IF class = "heavy" /\ Slots < LocalSlots THEN Slots ELSE LocalSlots
Free == {i \in 1..Slots : slot[i] = None}

Init ==
  /\ records = [p \in Projects |-> <<>>]
  /\ call = [p \in Projects |-> [c \in Checks |-> "none"]]
  /\ tokens = [p \in Projects |-> [k \in {"heavy", "light"} |-> 0]]
  /\ waiters = {}
  /\ slot = [i \in 1..Slots |-> None]
  /\ gate = [g \in Gates |-> [pc |-> "idle", attempt |-> 0]]
  /\ up = Projects
  /\ spent = [asks |-> [p \in Projects |-> 0], failures |-> 0, ends |-> 0]

-----------------------------------------------------------------------------
(* checkPermit *)

(* verificationState: the check's record moves to the end. *)
RemoveRecord(list, c) ==
  IF \E i \in DOMAIN list : list[i].check = c
  THEN RemoveAt(list, CHOOSE i \in DOMAIN list : list[i].check = c)
  ELSE list
Recorded(list, c, phase) ==
  LET others == RemoveRecord(list, c)
  IN IF phase = "" THEN others ELSE Append(others, [check |-> c, phase |-> phase])

(* How many checks of its class were queued before c. *)
Rank(list, c) ==
  LET at == CHOOSE i \in DOMAIN list : list[i].check = c
  IN Cardinality({i \in 1..(at - 1) : list[i].phase = "queued" /\ Class(list[i].check) = Class(c)})

Publish(p, c, phase) == records' = [records EXCEPT ![p] = Recorded(@, c, phase)]
GoTo(p, c, pc) == call' = [call EXCEPT ![p][c] = pc]

(* clear: its failure is ignored, and the record stays. *)
Fails == spent.failures < MaxFailures /\ spent' = [spent EXCEPT !.failures = @ + 1]
Clear(p, c) == Publish(p, c, "") /\ UNCHANGED spent

Without(holders, h) == [i \in DOMAIN holders |-> IF holders[i] = h THEN None ELSE holders[i]]

(* Every way out of checkPermit gives back what the call holds. *)
ReleaseLocalOnly(p, c) ==   \* mutant: the machine slot is forgotten
  /\ tokens' = [tokens EXCEPT ![p][Class(c)] = @ - (IF call[p][c] = "asked" THEN 0 ELSE 1)]
  /\ waiters' = waiters \ {<<p, c>>}
  /\ UNCHANGED slot
ReleaseAll(p, c) ==
  /\ tokens' = [tokens EXCEPT ![p][Class(c)] = @ - (IF call[p][c] = "asked" THEN 0 ELSE 1)]
  /\ waiters' = waiters \ {<<p, c>>}
  /\ slot' = Without(slot, <<p, c>>)

(* The publication may fail after it moved the record (DB.Save):           *)
(* checkPermit returns without a clear.                                    *)
Ask(p, c) ==
  /\ p \in up /\ <<p, c>> \in Jobs
  /\ call[p][c] = "none"
  /\ spent.asks[p] < MaxAsks[p]
  /\ \/ /\ Publish(p, c, "queued") /\ GoTo(p, c, "asked")
        /\ spent' = [spent EXCEPT !.asks[p] = @ + 1]
     \/ /\ spent.failures < MaxFailures
        /\ Publish(p, c, "queued") /\ GoTo(p, c, "none")
        /\ spent' = [spent EXCEPT !.asks[p] = @ + 1, !.failures = @ + 1]
  /\ UNCHANGED <<tokens, waiters, slot, gate, up>>

TakeAnyTurn(p, c) ==   \* mutant: the order of the queue does not count
  /\ call[p][c] = "asked"
  /\ tokens[p][Class(c)] < Turns(Class(c))
  /\ tokens' = [tokens EXCEPT ![p][Class(c)] = @ + 1]
  /\ GoTo(p, c, "turn")
  /\ UNCHANGED <<records, waiters, slot, gate, up, spent>>
(* waitCheckTurn *)
TakeTurn(p, c) ==
  /\ call[p][c] = "asked"
  /\ Rank(records[p], c) = 0
  /\ tokens[p][Class(c)] < Turns(Class(c))
  /\ tokens' = [tokens EXCEPT ![p][Class(c)] = @ + 1]
  /\ GoTo(p, c, "turn")
  /\ UNCHANGED <<records, waiters, slot, gate, up, spent>>

(* RegisterPriorityWaiter *)
Register(p, c) ==
  /\ call[p][c] = "turn" /\ c \in Heavy
  /\ Cardinality(waiters) < WaiterSlots
  /\ waiters' = waiters \union {<<p, c>>}
  /\ GoTo(p, c, "waiting")
  /\ UNCHANGED <<records, tokens, slot, gate, up, spent>>

(* acquireMachineCheck *)
AcquireMachine(p, c) ==
  /\ call[p][c] = "waiting"
  /\ \E i \in Free : slot' = [slot EXCEPT ![i] = <<p, c>>]
  /\ GoTo(p, c, "granted")
  /\ UNCHANGED <<records, tokens, waiters, gate, up, spent>>

ClearWaiter(p, c) ==
  /\ call[p][c] = "granted"
  /\ waiters' = waiters \ {<<p, c>>}
  /\ GoTo(p, c, "announcing")
  /\ UNCHANGED <<records, tokens, slot, gate, up, spent>>

Announce(p, c) ==
  /\ \/ call[p][c] = "announcing"
     \/ call[p][c] = "turn" /\ c \notin Heavy
  /\ Publish(p, c, "running")
  /\ GoTo(p, c, "running")
  /\ UNCHANGED <<tokens, waiters, slot, gate, up, spent>>

(* The check ended: clear, then the releases. *)
Finish(p, c) ==
  /\ call[p][c] = "running"
  /\ ReleaseAll(p, c)
  /\ GoTo(p, c, "none")
  /\ \/ Clear(p, c)
     \/ Fails /\ UNCHANGED records
  /\ UNCHANGED <<gate, up>>

(* The call's context ends, a lock fails, or the announcement does, which  *)
(* may have moved the record nevertheless: an error path of checkPermit.   *)
Abandon(p, c) ==
  /\ call[p][c] \in {"asked", "turn", "waiting", "announcing"}
  /\ ReleaseAll(p, c)
  /\ GoTo(p, c, "none")
  /\ \/ Clear(p, c)
     \/ Fails /\ UNCHANGED records
     \/ Fails /\ call[p][c] \in {"turn", "announcing"} /\ Publish(p, c, "running")
  /\ UNCHANGED <<gate, up>>

(* The supervisor stops or dies: its jobs end, its locks are free. *)
End(p) ==
  /\ p \in up
  /\ spent.ends < MaxEnds
  /\ spent' = [spent EXCEPT !.ends = @ + 1]
  /\ up' = up \ {p}
  /\ call' = [call EXCEPT ![p] = [c \in Checks |-> "none"]]
  /\ tokens' = [tokens EXCEPT ![p] = [k \in DOMAIN @ |-> 0]]
  /\ waiters' = {w \in waiters : w[1] # p}
  /\ slot' = [i \in 1..Slots |-> IF slot[i] \in {p} \X Checks THEN None ELSE slot[i]]
  /\ UNCHANGED <<records, gate>>

StartUncleared(p) ==   \* mutant: the queue of the supervisor that died stays
  /\ p \notin up
  /\ up' = up \union {p}
  /\ UNCHANGED <<records, call, tokens, waiters, slot, gate, spent>>
(* recoverSnapshot *)
StartSupervisor(p) ==
  /\ p \notin up
  /\ up' = up \union {p}
  /\ records' = [records EXCEPT ![p] = <<>>]
  /\ UNCHANGED <<call, tokens, waiters, slot, gate, spent>>

-----------------------------------------------------------------------------
(* The release gate. *)

Watching == {"polling", "holding", "testing", "building"}
Probes(g) == \E other \in Gates \ {g} : gate[other].pc \in Watching

(* HasPriorityWaiter, HasAvailableSlot *)
Sees(g) == IF waiters # {} THEN {TRUE} ELSE {FALSE} \union {b \in {TRUE} : Probes(g)}
Spare(g) == IF Free = {} THEN {FALSE} ELSE {TRUE} \union {b \in {FALSE} : Probes(g)}

GateGoes(g, pc) == gate' = [gate EXCEPT ![g].pc = pc]
OnlyGate == UNCHANGED <<records, call, tokens, waiters, up, spent>>

Enter(g) ==
  /\ gate[g].pc = "idle"
  /\ gate' = [gate EXCEPT ![g] = [pc |-> "polling", attempt |-> 1]]
  /\ UNCHANGED slot /\ OnlyGate

(* No waiter is seen: the gate tries. *)
Poll(g) ==
  /\ gate[g].pc = "polling"
  /\ FALSE \in Sees(g)
  /\ GateGoes(g, "trying")
  /\ UNCHANGED slot /\ OnlyGate

Try(g) ==
  /\ gate[g].pc = "trying"
  /\ IF Free = {} THEN GateGoes(g, "polling") /\ UNCHANGED slot
     ELSE GateGoes(g, "holding") /\ \E i \in Free : slot' = [slot EXCEPT ![i] = g]
  /\ OnlyGate

(* The slot goes back when a waiter has come that no other slot serves. *)
Recheck(g) ==
  /\ gate[g].pc = "holding"
  /\ \/ /\ TRUE \in Sees(g) /\ FALSE \in Spare(g)
        /\ GateGoes(g, "polling") /\ slot' = Without(slot, g)
     \/ /\ FALSE \in Sees(g) \/ TRUE \in Spare(g)
        /\ GateGoes(g, "testing") /\ UNCHANGED slot
  /\ OnlyGate

WatchNothing(g) == FALSE /\ UNCHANGED vars   \* mutant: the gate never yields
(* releaseYieldContext, while it tests and builds *)
Watch(g) ==
  /\ gate[g].pc \in {"testing", "building"}
  /\ TRUE \in Sees(g) /\ FALSE \in Spare(g)
  /\ GateGoes(g, IF gate[g].pc = "testing" THEN "yielding" ELSE "stopping")
  /\ UNCHANGED slot /\ OnlyGate

YieldForever(g) ==   \* mutant: attempts are not bounded
  /\ gate[g].pc \in {"yielding", "stopping"}
  /\ slot' = Without(slot, g)
  /\ gate' = [gate EXCEPT ![g] = [pc |-> "polling", attempt |-> @.attempt + 1]]
  /\ OnlyGate
(* The cancelled process is gone; the next attempt waits again. *)
Yield(g) ==
  /\ gate[g].pc \in {"yielding", "stopping"}
  /\ slot' = Without(slot, g)
  /\ IF gate[g].pc = "yielding" /\ gate[g].attempt < YieldRetries
     THEN gate' = [gate EXCEPT ![g] = [pc |-> "polling", attempt |-> @.attempt + 1]]
     ELSE GateGoes(g, "done")
  /\ OnlyGate

Build(g) ==
  /\ gate[g].pc = "testing"
  /\ GateGoes(g, "building")
  /\ UNCHANGED slot /\ OnlyGate

(* It succeeds, fails, is interrupted, or has waited long enough. *)
GateEnds(g) ==
  /\ gate[g].pc \notin {"idle", "done"}
  /\ GateGoes(g, "done")
  /\ slot' = Without(slot, g)
  /\ OnlyGate

CheckStep(p, c) ==
  \/ TakeTurn(p, c) \/ Register(p, c) \/ AcquireMachine(p, c) \/ ClearWaiter(p, c)
  \/ Announce(p, c) \/ Finish(p, c)

GateStep(g) == Poll(g) \/ Try(g) \/ Recheck(g) \/ Watch(g) \/ Yield(g)

Next ==
  \/ \E p \in Projects, c \in Checks : Ask(p, c) \/ CheckStep(p, c) \/ Abandon(p, c)
  \/ \E p \in Projects : End(p) \/ StartSupervisor(p)
  \/ \E g \in Gates : Enter(g) \/ GateStep(g) \/ Build(g) \/ GateEnds(g)

(* Polls repeat and a check's command has a timeout.  A gate's tests need  *)
(* not end, and nobody has to start a supervisor or a gate.                *)
Spec ==
  /\ Init /\ [][Next]_vars
  /\ \A p \in Projects : WF_vars(\E c \in Checks : CheckStep(p, c))
  /\ \A g \in Gates : WF_vars(GateStep(g))

-----------------------------------------------------------------------------
(* Properties. *)

Calls == {"none", "asked", "turn", "waiting", "granted", "announcing", "running"}

(* Every record is of a kind the code writes, permits stay within the      *)
(* project's limit, and only heavy checks and gates are on the machine's   *)
(* slots (checkPermit).                                                    *)
TypeOK ==
  /\ call \in [Projects -> [Checks -> Calls]]
  /\ \A p \in Projects : \A i \in DOMAIN records[p] :
       records[p][i] \in [check : Checks, phase : {"queued", "running"}]
  /\ tokens \in [Projects -> [{"heavy", "light"} -> 0..LocalSlots]]
  /\ waiters \subseteq Projects \X Heavy
  /\ slot \in [1..Slots -> (Projects \X Heavy) \union Gates \union {None}]
  /\ \A g \in Gates : gate[g].attempt \in 0..YieldRetries

(* Permits are held by exactly the calls that use them, after errors,      *)
(* yields and deaths: none leaks and none is given back twice.             *)
PermitsMatch ==
  /\ \A p \in Projects, k \in {"heavy", "light"} :
       tokens[p][k] = Cardinality({c \in Checks : /\ Class(c) = k
                                                  /\ call[p][c] \notin {"none", "asked"}})
  /\ {slot[i] : i \in 1..Slots} \ {None} =
       {h \in Projects \X Heavy : call[h[1]][h[2]] \in {"granted", "announcing", "running"}}
       \union {g \in Gates : gate[g].pc \in {"holding", "testing", "building", "yielding", "stopping"}}
  /\ waiters = {h \in Projects \X Heavy : call[h[1]][h[2]] \in {"waiting", "granted"}}

(* A project's checks of one class run in the order in which they were     *)
(* queued, whatever they wait for on the machine (waitCheckTurn).          *)
InTurn ==
  [][\A p \in Projects, c \in Checks :
       (call[p][c] # "running" /\ call'[p][c] = "running") => Rank(records[p], c) = 0]_vars

(* Queued records that no call stands behind. *)
Abandoned(p) == {i \in DOMAIN records[p] : /\ records[p][i].phase = "queued"
                                           /\ call[p][records[p][i].check] = "none"}

(* Nobody is queued for a call that is gone unless a publication failed    *)
(* (check_resources.go:22-25): no way out of checkPermit, and no restart   *)
(* of a supervisor that died with checks queued, leaves such a record.     *)
OnlyFailuresLeave ==
  \A p \in up : Cardinality(Abandoned(p)) <= spent.failures

(* A queued check leaves its queue in the end, although release gates may  *)
(* hold every slot for as long as they like: they see the demand and yield *)
(* (RegisterPriorityWaiter, releaseYieldContext).  The one that does not   *)
(* stands behind a record of its class that a failed publication left.     *)
(* Checks are asked for only finitely often here, so that all the others   *)
(* get through.                                                            *)
Behind(p, c) ==
  /\ call[p][c] = "asked"
  /\ \E i \in Abandoned(p), j \in DOMAIN records[p] :
       i < j /\ records[p][j].check = c /\ Class(records[p][i].check) = Class(c)
Served == <>[](\A p \in Projects, c \in Checks : call[p][c] = "none" \/ Behind(p, c))
=============================================================================
