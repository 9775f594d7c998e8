--------------------------- MODULE StateAuthority ---------------------------
(***************************************************************************)
(* What the remote aih-state ref promises to everybody who reads it,       *)
(* whatever the network, the clocks and the controllers do: the authority  *)
(* passes from one controller to the next by increasing epochs, only the   *)
(* controller that holds it changes anything, a command takes effect once, *)
(* and the snapshot records an integration exactly when main contains it.  *)
(* ControllerLease is shown to implement this specification.               *)
(***************************************************************************)
EXTENDS Naturals

CONSTANTS Owner, NoOwner, Command, Task

VARIABLES
  epoch,     \* model.Lease.Epoch
  owner,     \* model.Lease.Owner
  applied,   \* Snapshot.Applied: the accepted command IDs
  effects,   \* how often each command changed the snapshot
  recorded,  \* tasks whose MergeSHA the snapshot records
  trunk      \* tasks whose merge commit main contains

vars == <<epoch, owner, applied, effects, recorded, trunk>>

Init ==
  /\ epoch = 0
  /\ owner = NoOwner
  /\ applied = {}
  /\ effects = [c \in Command |-> 0]
  /\ recorded = {}
  /\ trunk = {}

(* A controller that has never held the authority takes it over. *)
TakeOver ==
  /\ epoch' = epoch + 1
  /\ owner' \in Owner \ {owner}
  /\ UNCHANGED <<applied, effects, recorded, trunk>>

Accept(c) ==
  /\ owner # NoOwner
  /\ c \notin applied
  /\ applied' = applied \union {c}
  /\ effects' = [effects EXCEPT ![c] = @ + 1]
  /\ UNCHANGED <<epoch, owner, recorded, trunk>>

Integrate(t) ==
  /\ owner # NoOwner
  /\ t \notin recorded
  /\ recorded' = recorded \union {t}
  /\ trunk' = trunk \union {t}
  /\ UNCHANGED <<epoch, owner, applied, effects>>

Release ==
  /\ owner # NoOwner
  /\ owner' = NoOwner
  /\ UNCHANGED <<epoch, applied, effects, recorded, trunk>>

Next ==
  \/ TakeOver
  \/ \E c \in Command : Accept(c)
  \/ \E t \in Task : Integrate(t)
  \/ Release

Spec == Init /\ [][Next]_vars
=============================================================================
